------------------------------- MODULE MCRaft -------------------------------
(***************************************************************************)
(* Instances of Raft for TLC.  Servers and writers are interchangeable: no *)
(* action or property names one of them, so both are symmetry sets in the  *)
(* runs without liveness properties.  The history of votes is read by no   *)
(* action and is left out of the states TLC tells apart.                   *)
(***************************************************************************)
EXTENDS RaftLeader, TLC

Symmetry == Permutations(Server) \cup Permutations(Writer)

View == <<node, elect, vcall, next, requests, pend, rcall, hcall, thread,
          late, elected, crashes, beats>>
=============================================================================
