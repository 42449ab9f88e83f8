--------------------------- MODULE MCRaftDiverged ---------------------------
(***************************************************************************)
(* Raft from states in which the logs have diverged.  Leader s1 of term 1  *)
(* stored the record of w1 and no follower got it; s2 won term 2 with the  *)
(* vote of s3, stored the record of w2 at the same index and crashed; oned *)
(* is up again on all three.  In Diverged the record of w2 was committed   *)
(* before the crash, and the leader of term 3 has to repair the log of s1, *)
(* record by record.  In Split s3 got neither record, and either of s1 and *)
(* s2 may win term 3.                                                      *)
(***************************************************************************)
EXTENDS Raft

CONSTANTS s1, s2, s3, w1, w2, w3

Log(s, committed) ==
  CASE s = s1 -> <<[term |-> 1, sql |-> w1, applied |-> FALSE]>>
    [] s = s2 -> <<[term |-> 2, sql |-> w2, applied |-> committed]>>
    [] s = s3 -> IF committed THEN <<[term |-> 2, sql |-> w2, applied |-> FALSE]>> ELSE <<>>

Restart(s, committed) ==
  LET done == committed /\ s = s2
  IN  [state |-> "FOLLOWER", term |-> 2, votedfor |-> IF s = s1 THEN Nil ELSE s2,
       log |-> Log(s, committed), db |-> IF done THEN <<w2>> ELSE <<>>,
       last_applied |-> IF done THEN 1 ELSE 0, commit |-> 0]

InitAfter(committed) ==
  /\ node = [s \in Server |-> Restart(s, committed)]
  /\ elect = [s \in Server |-> NoElection]
  /\ vcall = [s \in Server |-> NoCall]
  /\ next = [s \in Server |-> [f \in Server |-> 0]]
  /\ requests = [s \in Server |-> [i \in Index |-> "none"]]
  /\ pend = [s \in Server |-> [f \in Server |-> FALSE]]
  /\ rcall = [s \in Server |-> [f \in Server |-> NoCall]]
  /\ hcall = [s \in Server |-> [f \in Server |-> NoCall]]
  /\ thread = [t \in Thread |-> [NoThread EXCEPT !.pc =
                 CASE t = w1 -> "failed"
                   [] t = w2 -> IF committed THEN "acked" ELSE "failed"
                   [] OTHER  -> "idle"]]
  /\ late = {}
  /\ elected = {<<1, s1>>, <<2, s2>>}
  /\ votes = {<<1, s3, s1>>, <<2, s3, s2>>}
  /\ crashes = 1 /\ beats = 0

DivergedSpec == InitAfter(TRUE) /\ [][Next]_vars

SplitSpec == InitAfter(FALSE) /\ [][Next]_vars

(* the vote history is read by no action *)
DivergedView == <<node, elect, vcall, next, requests, pend, rcall, hcall, thread,
                  late, elected, crashes, beats>>
=============================================================================
