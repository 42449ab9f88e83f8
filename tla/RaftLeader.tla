----------------------------- MODULE RaftLeader -----------------------------
(***************************************************************************)
(* Module Raft implements the abstract LeaderElection.  A server is in the *)
(* term RaftManager has in memory and on disk, and in office while its     *)
(* state is LEADER.                                                        *)
(***************************************************************************)
EXTENDS Raft

Leaders == {s \in Server : IsLeader(s)}
Terms   == [s \in Server |-> node[s].term]

LE == INSTANCE LeaderElection WITH term <- Terms, leader <- Leaders

(* Every step of election, replication, time-out, crash and late request   *)
(* is a step of LeaderElection or changes nothing it speaks of: leader()   *)
(* completes once in a term, no message makes a leader change its term and *)
(* stay in office, and no restart takes a term back.                       *)
ElectsLeaders == LE!Spec
=============================================================================
