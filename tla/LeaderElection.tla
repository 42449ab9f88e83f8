--------------------------- MODULE LeaderElection ---------------------------
(***************************************************************************)
(* What the election of a zone leader promises, whatever the protocol.     *)
(* Every server is in a term, and terms only grow.  A server takes office  *)
(* in the term it is in, a term has one election at most, and a server     *)
(* that enters a newer term is out of office.  Module RaftLeader shows that*)
(* module Raft does no more than this.                                     *)
(***************************************************************************)
EXTENDS Integers, TLAPS

CONSTANT Server

VARIABLES
  term,     \* the term every server is in
  leader,   \* the servers in office
  elected   \* <<term, server>> of every election there was

vars == <<term, leader, elected>>

Init ==
  /\ term = [s \in Server |-> 0]
  /\ leader = {}
  /\ elected = {}

(* s wins the election of its term *)
Elect(s) ==
  /\ s \notin leader
  /\ \A e \in elected : e[1] # term[s]
  /\ leader' = leader \cup {s}
  /\ elected' = elected \cup {<<term[s], s>>}
  /\ UNCHANGED term

(* s leaves office, if it had one, and may enter a newer term *)
Leave(s) ==
  /\ leader' = leader \ {s}
  /\ term'[s] \in Nat /\ term'[s] >= term[s]
  /\ term' = [term EXCEPT ![s] = term'[s]]
  /\ UNCHANGED elected

Next == \E s \in Server : Elect(s) \/ Leave(s)

Spec == Init /\ [][Next]_vars

-----------------------------------------------------------------------------
(* Two servers may be in office at a time, one of them not knowing that it *)
(* was replaced, but never in the same term.                               *)
OneInOffice ==
  \A s, f \in leader : term[s] = term[f] => s = f

(* Why: a server in office was elected in the term it is in.               *)
OfficeInv ==
  /\ leader \subseteq Server /\ DOMAIN term = Server
  /\ \A s \in leader : <<term[s], s>> \in elected
  /\ \A e, g \in elected : e[1] = g[1] => e = g

(* Every step keeps it. *)
LEMMA NextOffice == OfficeInv /\ [Next]_vars => OfficeInv'
<1> SUFFICES ASSUME OfficeInv, [Next]_vars PROVE OfficeInv'
  OBVIOUS
<1>1. CASE UNCHANGED vars
  BY <1>1 DEF vars, OfficeInv
<1>2. ASSUME NEW s \in Server, Elect(s) PROVE OfficeInv'
  BY <1>2 DEF Elect, OfficeInv
<1>3. ASSUME NEW s \in Server, Leave(s) PROVE OfficeInv'
  <2>1. leader' = leader \ {s} /\ elected' = elected
    BY <1>3 DEF Leave
  <2>2. DOMAIN term' = Server /\ \A f \in leader' : term'[f] = term[f]
    BY <1>3 DEF Leave, OfficeInv
  <2> QED
    BY <2>1, <2>2 DEF OfficeInv
<1> QED
  BY <1>1, <1>2, <1>3 DEF Next

(* The leaders of a term are one.  With RaftElectsLeaders this is what the *)
(* handlers that ask is_leader() and compare terms rely on.                *)
THEOREM OneServerInOffice == Spec => []OneInOffice
<1>1. Init => OfficeInv
  BY DEF Init, OfficeInv
<1>2. OfficeInv => OneInOffice
  <2> SUFFICES ASSUME OfficeInv, NEW s \in leader, NEW f \in leader, term[s] = term[f]
               PROVE  s = f
    BY DEF OneInOffice
  <2> DEFINE e == <<term[s], s>>
             g == <<term[f], f>>
  <2>1. e \in elected /\ g \in elected /\ e[1] = g[1]
    BY DEF OfficeInv
  <2>2. e = g
    BY <2>1, Zenon DEF OfficeInv
  <2> QED
    BY <2>2
<1> QED
  BY <1>1, <1>2, NextOffice, PTL DEF Spec
=============================================================================
