------------------------- MODULE RaftElectionProofs -------------------------
(***************************************************************************)
(* A term has at most one leader, for every number of servers, whatever is *)
(* lost or late and however often servers crash.  ElectionInv of module    *)
(* Raft is the inductive invariant.  From it follows that Raft implements  *)
(* LeaderElection.                                                         *)
(***************************************************************************)
EXTENDS RaftVoteProofs, RaftLeader

(* The steps of the replication and heartbeat threads, and CallVote. *)
LEMMA PairNextElection ==
  ASSUME TypeOK, TypeOK', ElectionInv, NEW s \in Server, NEW f \in Server, PairNext(s, f)
  PROVE  ElectionInv'
<1> USE DEF callVars, leaderVars, history, counters
<1>0. /\ node[s] \in Node /\ node[f] \in Node /\ CandidateInv(s)
      /\ elect[s] \in Election /\ rcall[s][f] \in LogCall /\ hcall[s][f] \in BeatCall
  BY DEF TypeOK, ElectionInv
<1>a. \A g \in Server : NodeStep(node[g], node[g])
  BY NoNodeStep
<1>1. CASE CallVote(s, f)
  <2>1. /\ elect[s].pc = "ask" /\ f # s
        /\ vcall' = [vcall EXCEPT ![s] = [st |-> "sent", to |-> f, req |-> VoteRequest(s)]]
        /\ elect' = [elect EXCEPT ![s].asked = @ \cup {f}]
        /\ UNCHANGED <<node, late, elected, votes>>
    BY <1>1 DEF CallVote, Others
  <2>2. /\ vcall'[s].st = "sent" /\ vcall'[s].to = f /\ vcall'[s].req = VoteRequest(s)
        /\ \A g \in Server \ {s} : elect'[g] = elect[g] /\ vcall'[g] = vcall[g]
    BY <2>1 DEF TypeOK
  <2>3. elect'[s].pc = "ask" /\ elect'[s].granted = elect[s].granted
    <3>1. elect'[s] = [elect[s] EXCEPT !.asked = @ \cup {f}]
      BY <2>1 DEF TypeOK
    <3> QED
      BY <1>0, <2>1, <3>1 DEF Election, NoElection
  <2>4. VoteRequest(s).cand = s /\ VoteRequest(s).term = node[s].term
    BY DEF VoteRequest
  <2>5. CandidateInv(s)'
    BY <1>0, <2>1, <2>2, <2>3, <2>4 DEF CandidateInv
  <2>6. VotesStep /\ LateInv'
    BY <2>1 DEF VotesStep, ElectionInv, LateInv
  <2> QED
    BY <1>a, <2>1, <2>2, <2>5, <2>6, TimerStep
<1>2. CASE CallReplicate(s, f) \/ CallHeartbeat(s, f)
  <2>1. UNCHANGED <<node, elect, vcall, late, elected, votes>>
    BY <1>2 DEF CallReplicate, CallHeartbeat
  <2>2. VotesStep /\ LateInv'
    BY <2>1 DEF VotesStep, ElectionInv, LateInv
  <2> QED
    BY <1>a, <2>1, <2>2, QuietStep
<1>3. CASE HandleReplicate(s, f) \/ HandleHeartbeat(s, f)
  <2>1. PICK m \in LogReq \cup BeatReq :
           /\ node' = [node EXCEPT ![f] = Replicate(node[f], m).node]
           /\ UNCHANGED <<elect, vcall, late, elected, votes>>
    <3>1. CASE HandleReplicate(s, f)
      <4>1. rcall[s][f].req \in LogReq
        BY <1>0, <3>1, SMTT(30) DEF HandleReplicate, LogCall, NoCall
      <4> QED
        BY <3>1, <4>1, Zenon DEF HandleReplicate
    <3>2. CASE HandleHeartbeat(s, f)
      <4>1. hcall[s][f].req \in BeatReq
        BY <1>0, <3>2, SMTT(30) DEF HandleHeartbeat, BeatCall, NoCall
      <4> QED
        BY <3>2, <4>1, Zenon DEF HandleHeartbeat
    <3> QED
      BY <1>3, <3>1, <3>2
  <2>2. NodeStep(node[f], Replicate(node[f], m).node)
    BY <1>0, ReplicateType
  <2>3. \A g \in Server : NodeStep(node[g], node'[g])
    BY <2>1, <2>2, SameNode, Zenon
  <2>4. VotesStep /\ LateInv'
    BY <2>1 DEF VotesStep, ElectionInv, LateInv
  <2> QED
    BY <2>1, <2>3, <2>4, QuietStep
<1>4. CASE ReceiveReplicate(s, f) \/ ReceiveHeartbeat(s, f)
  <2>1. UNCHANGED <<elect, vcall, late, elected, votes>>
    BY <1>4 DEF ReceiveReplicate, ReceiveHeartbeat
  <2>2. \/ node' = node
        \/ \E c \in Nat : node' = [node EXCEPT ![s].commit = c]
        \/ \E t \in Nat : node' = [node EXCEPT ![s] = Follower(node[s], t)]
    <3>1. CASE ReceiveReplicate(s, f)
      <4>1. next[s][f] \in Nat /\ (rcall[s][f].st = "fail" => rcall[s][f].fterm \in Nat)
        BY <1>0, SMTT(30) DEF TypeOK, LogCall, NoCall
      <4>2. CASE rcall[s][f].st = "ok" /\ ReplicateSuccess(s, f)
        BY <4>1, <4>2, Zenon DEF ReplicateSuccess, AddReplica
      <4>3. CASE ReplicateFailure(s, f)
        BY <4>3 DEF ReplicateFailure
      <4>4. CASE rcall[s][f].st = "fail" /\ node' = [node EXCEPT ![s] = Follower(node[s], rcall[s][f].fterm)]
        BY <4>1, <4>4, Zenon
      <4> QED
        BY <3>1, <4>2, <4>3, <4>4 DEF ReceiveReplicate
    <3>2. CASE ReceiveHeartbeat(s, f)
      <4>1. hcall[s][f].fterm \in Nat
        BY <1>0, <3>2 DEF ReceiveHeartbeat, BeatCall, NoCall
      <4> QED
        BY <3>2, <4>1, Zenon DEF ReceiveHeartbeat
    <3> QED
      BY <1>4, <3>1, <3>2
  <2>3. \A g \in Server : NodeStep(node[g], node'[g])
    <3>1. CASE node' = node
      BY <1>a, <3>1
    <3>2. ASSUME NEW c \in Nat, node' = [node EXCEPT ![s].commit = c]
          PROVE  \A g \in Server : NodeStep(node[g], node'[g])
      <4>1. NodeStep(node[s], [node[s] EXCEPT !.commit = c])
        BY <1>0 DEF NodeStep, Node
      <4>2. node' = [node EXCEPT ![s] = [node[s] EXCEPT !.commit = c]]
        BY <3>2
      <4> QED
        BY <4>1, <4>2, SameNode, Zenon
    <3>3. ASSUME NEW t \in Nat, node' = [node EXCEPT ![s] = Follower(node[s], t)]
          PROVE  \A g \in Server : NodeStep(node[g], node'[g])
      <4>1. NodeStep(node[s], Follower(node[s], t))
        BY <1>0, FollowerType
      <4> QED
        BY <3>3, <4>1, SameNode, Zenon
    <3> QED
      BY <2>2, <3>1, <3>2, <3>3
  <2>4. VotesStep /\ LateInv'
    BY <2>1 DEF VotesStep, ElectionInv, LateInv
  <2> QED
    BY <2>1, <2>3, <2>4, QuietStep
<1>5. CASE TimeoutReplicate(s, f) \/ TimeoutHeartbeat(s, f)
  <2>1. UNCHANGED <<node, elect, vcall, elected, votes>>
    BY <1>5 DEF TimeoutReplicate, TimeoutHeartbeat
  <2>2. LateInv'
    <3>1. PICK c \in LogCall \cup BeatCall : Abandon(c)
      BY <1>0, <1>5 DEF TimeoutReplicate, TimeoutHeartbeat
    <3>2. c.st = "sent" => c.req.kind # "vote"
      BY DEF LogCall, BeatCall, NoCall, LogReq, BeatReq
    <3> QED
      BY <3>1, <3>2, SMTT(30) DEF Abandon, LateInv, ElectionInv
  <2> QED
    BY <1>a, <2>1, <2>2, QuietStep DEF VotesStep
<1> QED
  BY <1>1, <1>2, <1>3, <1>4, <1>5 DEF PairNext

(* The write path leaves terms and votes alone. *)
LEMMA ThreadElection ==
  ASSUME TypeOK, TypeOK', ElectionInv, NEW t \in Thread, ReplicateLog(t) \/ Finish(t)
  PROVE  ElectionInv'
<1> USE DEF callVars, leaderVars, history, counters
<1> DEFINE s == thread[t].srv
           i == thread[t].idx
<1>0. i \in Nat /\ (s \in Server => node[s] \in Node)
  BY SMTT(30) DEF TypeOK, ThreadState
<1>1. UNCHANGED <<elect, vcall, late, elected, votes>>
  <2>1. CASE ReplicateLog(t)
    BY <2>1 DEF ReplicateLog
  <2>2. CASE Finish(t)
    BY <2>2 DEF Finish
  <2> QED
    BY <2>1, <2>2
<1>2. \/ node' = node \/ node' = [node EXCEPT ![s].commit = i]
      \/ node' = [node EXCEPT ![s] = ApplyTo(node[s], i)]
  BY DEF ReplicateLog, Finish
<1>3. s \in Server => /\ NodeStep(node[s], [node[s] EXCEPT !.commit = i])
                      /\ NodeStep(node[s], ApplyTo(node[s], i))
  <2>1. ASSUME s \in Server
        PROVE  /\ ApplyTo(node[s], i).term = node[s].term
               /\ ApplyTo(node[s], i).votedfor = node[s].votedfor
               /\ ApplyTo(node[s], i).state = node[s].state
    BY <1>0, <2>1, ApplyToType
  <2> HIDE DEF s, i
  <2> QED
    BY <1>0, <2>1 DEF NodeStep, Node
<1>4. \A f \in Server : NodeStep(node[f], node'[f])
  <2> HIDE DEF s, i
  <2>1. CASE node' = node \/ node' = [node EXCEPT ![s].commit = i]
    <3>1. node' = node \/ node' = [node EXCEPT ![s] = [node[s] EXCEPT !.commit = i]]
      BY <2>1
    <3> QED
      BY <1>3, <3>1, SameNode
  <2>2. CASE node' = [node EXCEPT ![s] = ApplyTo(node[s], i)]
    BY <1>3, <2>2, SameNode, Zenon
  <2> QED
    BY <1>2, <2>1, <2>2
<1>5. VotesStep /\ LateInv'
  BY <1>1 DEF VotesStep, ElectionInv, LateInv
<1> QED
  BY <1>1, <1>4, <1>5, QuietStep

(* A request nobody waits for may still bind its voter. *)
LEMMA LateElection ==
  ASSUME TypeOK, TypeOK', ElectionInv, NEW m \in late, HandleLate(m)
  PROVE  ElectionInv'
<1> USE DEF callVars, leaderVars, history, counters
<1> DEFINE f == m.to
           q == m.req
<1>1. f \in Server /\ q \in VoteReq \cup LogReq \cup BeatReq
  BY DEF TypeOK
<1>2. node[f] \in Node
  BY <1>1 DEF TypeOK
<1>3. late' = late \ {m} /\ UNCHANGED <<elect, vcall, elected>>
  BY DEF HandleLate
<1>4. LateInv'
  BY <1>3 DEF ElectionInv, LateInv
<1>5. CASE q.kind = "vote"
  <2> DEFINE o == Vote(node[f], q)
  <2>1. q \in VoteReq /\ q.term \in Nat /\ q.cand \in Server /\ f # q.cand
    BY <1>1, <1>5 DEF VoteReq, LogReq, BeatReq, ElectionInv, LateInv
  <2>2. /\ node' = [node EXCEPT ![f] = o.node]
        /\ votes' = IF o.ok THEN votes \cup {<<q.term, f, q.cand>>} ELSE votes
    BY <1>5 DEF HandleLate, RecordVote
  <2> HIDE DEF f, q
  <2>3. /\ o.ok \in BOOLEAN /\ NodeStep(node[f], o.node)
        /\ o.ok => /\ o.node.term = q.term /\ o.node.votedfor = q.cand
                   /\ node[f].term <= q.term
                   /\ node[f].term = q.term => node[f].votedfor \in {Nil, q.cand}
    <3>1. q \in VoteReq
      BY <2>1
    <3> HIDE DEF o
    <3>2. o = Vote(node[f], q)
      BY DEF o
    <3>3. node[f] \in Node
      BY <1>2 DEF f
    <3> QED
      BY <3>1, <3>2, <3>3, VoteOutcome, Zenon
  <2> HIDE DEF o
  <2>4. \A g \in Server : NodeStep(node[g], node'[g])
    BY <2>2, <2>3, SameNode, Zenon
  <2>5. VotesStep
    <3>1. node'[f] = o.node
      BY <1>1, <2>2 DEF TypeOK
    <3>2. o.ok => Grants(f, q.term, q.cand)
      BY <2>1, <2>3, <3>1 DEF Grants
    <3> QED
      BY <1>1, <2>1, <2>2, <2>3, <3>2 DEF VotesStep
  <2> QED
    BY <1>3, <1>4, <2>4, <2>5, QuietStep
<1>6. CASE q.kind # "vote"
  <2>1. q \in LogReq \cup BeatReq
    BY <1>1, <1>6 DEF VoteReq
  <2>2. node' = [node EXCEPT ![f] = Replicate(node[f], q).node] /\ votes' = votes
    BY <1>6 DEF HandleLate, RecordVote
  <2>3. NodeStep(node[f], Replicate(node[f], q).node)
    BY <1>2, <2>1, ReplicateType
  <2> HIDE DEF f, q
  <2>4. \A g \in Server : NodeStep(node[g], node'[g])
    BY <2>2, <2>3, SameNode, Zenon
  <2> QED
    BY <1>3, <1>4, <2>2, <2>4, QuietStep DEF VotesStep
<1> QED
  BY <1>5, <1>6

(* Every step keeps the election invariant. *)
LEMMA NextElection == TypeOK /\ TypeOK' /\ ElectionInv /\ [Next]_vars => ElectionInv'
<1> SUFFICES ASSUME TypeOK, TypeOK', ElectionInv, [Next]_vars PROVE ElectionInv'
  OBVIOUS
<1>1. CASE UNCHANGED vars
  <2>1. UNCHANGED <<node, elect, vcall, late, elected, votes>>
    BY <1>1 DEF vars
  <2>2. \A g \in Server : NodeStep(node[g], node'[g])
    BY <2>1, NoNodeStep, Zenon
  <2>3. VotesStep /\ LateInv'
    BY <2>1 DEF VotesStep, ElectionInv, LateInv
  <2> QED
    BY <2>1, <2>2, <2>3, QuietStep
<1>2. CASE Next
  BY <1>2, ServerNextElection, PairNextElection, ThreadElection, LateElection DEF Next
<1> QED
  BY <1>1, <1>2

(* No votes and no calls initially. *)
LEMMA InitElection == Init => ElectionInv
  BY SMTT(30) DEF Init, ElectionInv, VoteInv, LateInv, CandidateInv, NoElection, NoCall

(* Two majorities share a voter, and it is bound to one candidate. *)
LEMMA OneLeader == TypeOK /\ ElectionInv => ElectionSafety
<1> SUFFICES ASSUME TypeOK, ElectionInv, NEW e1 \in elected, NEW e2 \in elected, e1[1] = e2[1]
             PROVE  e1[2] = e2[2]
  BY DEF ElectionSafety
<1>1. ElectedInv(e1) /\ ElectedInv(e2) /\ VoteInv
  BY SMTT(30) DEF ElectionInv
<1>2. PICK Q1 \in Quorum : \A f \in Q1 \ {e1[2]} : <<e1[1], f, e1[2]>> \in votes
  BY <1>1 DEF ElectedInv
<1>3. PICK Q2 \in Quorum : \A f \in Q2 \ {e2[2]} : <<e2[1], f, e2[2]>> \in votes
  BY <1>1 DEF ElectedInv
<1>4. Q1 \cap Q2 # {}
  <2>1. /\ Q1 \subseteq Server /\ Q2 \subseteq Server
        /\ 2 * Cardinality(Q1) > Cardinality(Server)
        /\ 2 * Cardinality(Q2) > Cardinality(Server)
    BY DEF Quorum
  <2>2. /\ Cardinality(Q1) \in Nat /\ Cardinality(Q2) \in Nat
        /\ Cardinality(Server) \in Nat
    BY <2>1, ServerAssumption, FS_Subset, FS_CardinalityType
  <2>3. Cardinality(Q1) + Cardinality(Q2) > Cardinality(Server)
    BY <2>1, <2>2
  <2> QED
    BY <2>1, <2>3, ServerAssumption, FS_MajoritiesIntersect
<1>5. PICK f : f \in Q1 /\ f \in Q2
  BY <1>4
<1> DEFINE v1 == <<e1[1], f, e1[2]>>
           v2 == <<e2[1], f, e2[2]>>
<1>6. /\ v1[1] = e1[1] /\ v1[2] = f /\ v1[3] = e1[2]
      /\ v2[1] = e2[1] /\ v2[2] = f /\ v2[3] = e2[2]
  OBVIOUS
<1>7. (f # e1[2] => v1 \in votes) /\ (f # e2[2] => v2 \in votes)
  BY <1>2, <1>3, <1>5
<1> HIDE DEF v1, v2
<1>8. CASE f = e1[2] /\ f # e2[2]
  BY <1>1, <1>6, <1>7, <1>8 DEF ElectedInv
<1>9. CASE f # e1[2] /\ f = e2[2]
  BY <1>1, <1>6, <1>7, <1>9 DEF ElectedInv
<1>10. CASE f # e1[2] /\ f # e2[2]
  BY <1>1, <1>6, <1>7, <1>10 DEF VoteInv
<1> QED
  BY <1>8, <1>9, <1>10

(* The reason a term has one leader holds in every reachable state, for    *)
(* any number of servers, crashes, lost answers and late requests.         *)
THEOREM ElectionInvariant == Spec => []ElectionInv
  BY TypeCorrect, InitElection, NextElection, PTL DEF Spec

(* RaftManager::leader completes on at most one server in a term, whatever *)
(* the number of servers, whatever is lost or late, and however often oned *)
(* crashes and restarts from its persisted term and vote.                  *)
THEOREM OneLeaderPerTerm == Spec => []ElectionSafety
  BY TypeCorrect, ElectionInvariant, OneLeader, PTL

-----------------------------------------------------------------------------
(* Module Raft implements LeaderElection.                                  *)

(* A step that gives one server a new state: it stays what it was, becomes *)
(* a candidate in a newer term, or goes back to following.                 *)
OneStep ==
  \E s \in Server :
     /\ \A f \in Server \ {s} : node'[f] = node[f]
     /\ node'[s].term >= node[s].term
     /\ node'[s].state = "LEADER" => /\ node[s].state = "LEADER"
                                    /\ node'[s].term = node[s].term

(* Such a step is one of LeaderElection. *)
LEMMA OneStepRefines ==
  ASSUME TypeOK, TypeOK', OneStep, elected' = elected
  PROVE  [LE!Next]_LE!vars
<1>1. PICK s \in Server :
         /\ \A f \in Server \ {s} : node'[f] = node[f]
         /\ node'[s].term >= node[s].term
         /\ node'[s].state = "LEADER" => /\ node[s].state = "LEADER"
                                        /\ node'[s].term = node[s].term
  BY DEF OneStep
<1> DEFINE r == node'[s]
<1>2. r \in Node /\ r = node'[s]
  BY DEF TypeOK
<1> HIDE DEF r
<1>3. r.term \in Nat /\ Terms[s] = node[s].term /\ Terms' = [Terms EXCEPT ![s] = r.term]
  <2>1. r.term \in Nat /\ Terms[s] = node[s].term
    BY <1>2 DEF Terms, Node
  <2>2. Terms' = [f \in Server |-> IF f = s THEN r.term ELSE Terms[f]]
    <3>1. \A f \in Server : node'[f].term = IF f = s THEN r.term ELSE Terms[f]
      BY <1>1, <1>2 DEF Terms
    <3>2. Terms' = [f \in Server |-> node'[f].term]
      BY DEF Terms
    <3> QED
      BY <3>1, <3>2
  <2>3. [Terms EXCEPT ![s] = r.term] = [f \in Server |-> IF f = s THEN r.term ELSE Terms[f]]
    BY Zenon DEF Terms
  <2> QED
    BY <2>1, <2>2, <2>3
<1>4. CASE r.state = "LEADER"
  <2>1. Terms' = Terms
    BY <1>1, <1>2, <1>4 DEF Terms
  <2>2. Leaders' = Leaders
    BY <1>1, <1>2, <1>4 DEF Leaders, IsLeader
  <2> QED
    BY <2>1, <2>2 DEF LE!vars
<1>5. CASE r.state # "LEADER"
  <2>1. Leaders' = Leaders \ {s}
    BY <1>1, <1>2, <1>5 DEF Leaders, IsLeader
  <2>2. Terms'[s] = r.term /\ Terms' = [Terms EXCEPT ![s] = Terms'[s]]
    BY <1>3, Zenon DEF Terms
  <2>3. LE!Leave(s)
    BY <1>1, <1>2, <1>3, <2>1, <2>2 DEF LE!Leave
  <2> QED
    BY <2>3 DEF LE!Next
<1> QED
  BY <1>4, <1>5

(* A step that gives nobody a new state. *)
LEMMA SameStepRefines ==
  ASSUME UNCHANGED <<node, elected>>
  PROVE  [LE!Next]_LE!vars
<1>1. Terms' = Terms /\ Leaders' = Leaders
  BY DEF Terms, Leaders, IsLeader
<1> QED
  BY <1>1 DEF LE!vars

(* A NodeStep of one server is a OneStep. *)
LEMMA NodeStepRefines ==
  ASSUME TypeOK, TypeOK', NEW s \in Server, NEW r, node' = [node EXCEPT ![s] = r],
         NodeStep(node[s], r), elected' = elected
  PROVE  [LE!Next]_LE!vars
<1>1. node'[s] = r /\ \A f \in Server \ {s} : node'[f] = node[f]
  BY DEF TypeOK
<1>2. OneStep
  BY <1>1 DEF OneStep, NodeStep
<1> QED
  BY <1>2, OneStepRefines

(* leader() on s: its term had no election before. *)
LEMMA LeaderRefines ==
  ASSUME TypeOK, TypeOK', ElectionInv, ElectionSafety', NEW s \in Server, BecomeLeader(s)
  PROVE  LE!Elect(s)
<1>1. /\ node[s].state = "CANDIDATE"
      /\ elected' = elected \cup {<<node[s].term, s>>}
      /\ node'[s].term = node[s].term /\ node'[s].state = "LEADER"
      /\ \A f \in Server \ {s} : node'[f] = node[f]
  BY DEF BecomeLeader, TypeOK, Node
<1>2. Terms' = Terms /\ Terms[s] = node[s].term
  BY <1>1 DEF Terms
<1>3. s \notin Leaders /\ Leaders' = Leaders \cup {s}
  BY <1>1 DEF Leaders, IsLeader
<1>4. ASSUME NEW e \in elected, e[1] = node[s].term
      PROVE  FALSE
  <2> DEFINE new == <<node[s].term, s>>
  <2>1. new \in elected' /\ e \in elected' /\ new[1] = node[s].term /\ new[2] = s
    BY <1>1
  <2> HIDE DEF new
  <2>2. e[2] = s
    BY <1>4, <2>1 DEF ElectionSafety
  <2>3. ElectedInv(e)
    BY DEF ElectionInv
  <2> QED
    BY <1>1, <1>4, <2>2, <2>3 DEF ElectedInv
<1> QED
  BY <1>1, <1>2, <1>3, <1>4, SMTT(30) DEF LE!Elect

(* The steps of one server. *)
LEMMA ServerRefines ==
  ASSUME TypeOK, TypeOK', ElectionInv, ElectionSafety', NEW s \in Server, ServerNext(s)
  PROVE  [LE!Next]_LE!vars
<1> USE DEF callVars, leaderVars, history, counters
<1>0. node[s] \in Node /\ vcall[s] \in VoteCall
  BY DEF TypeOK
<1>1. CASE StartRound(s)
  <2>1. /\ node'[s].term = node[s].term + 1 /\ node'[s].state = "CANDIDATE" /\ elected' = elected
        /\ \A f \in Server \ {s} : node'[f] = node[f]
    BY <1>1 DEF StartRound, TypeOK, Node
  <2>2. OneStep
    BY <1>0, <2>1 DEF OneStep, Node
  <2> QED
    BY <2>1, <2>2, OneStepRefines, SMTT(30)
<1>2. CASE ElectionTimeout(s) \/ NextRound(s)
  <2>1. StartRound(s) \/ UNCHANGED <<node, elected>>
    BY <1>2 DEF ElectionTimeout, NextRound
  <2> QED
    BY <1>1, <2>1, SameStepRefines
<1>3. CASE HandleVote(s)
  <2>1. vcall[s].req \in VoteReq /\ vcall[s].to \in Server
    BY <1>0, <1>3 DEF HandleVote, VoteCall, NoCall
  <2> DEFINE f == vcall[s].to
             o == Vote(node[f], vcall[s].req)
  <2>2. node' = [node EXCEPT ![f] = o.node] /\ elected' = elected
    BY <1>3 DEF HandleVote, RecordVote
  <2>3. NodeStep(node[f], o.node)
    BY <2>1, VoteType, Zenon DEF TypeOK
  <2> HIDE DEF f, o
  <2>4. f \in Server
    BY <2>1 DEF f
  <2> QED
    BY <2>2, <2>3, <2>4, NodeStepRefines, Zenon
<1>4. CASE ReceiveVote(s)
  <2>1. CASE UNCHANGED <<node, elected>>
    BY <2>1, SameStepRefines
  <2>2. CASE node' # node
    <3>1. /\ node' = [node EXCEPT ![s] = Follower(node[s], vcall[s].fterm)] /\ elected' = elected
          /\ vcall[s].st = "refused"
      BY <1>4, <2>2 DEF ReceiveVote
    <3>2. vcall[s].fterm \in Nat
      BY <1>0, <3>1, SMTT(30) DEF VoteCall, NoCall
    <3>3. NodeStep(node[s], Follower(node[s], vcall[s].fterm))
      BY <1>0, <3>2, FollowerType
    <3> QED
      BY <3>1, <3>3, NodeStepRefines, Zenon
  <2> QED
    BY <1>4, <2>1, <2>2 DEF ReceiveVote
<1>5. CASE TimeoutVote(s)
  BY <1>5, SameStepRefines DEF TimeoutVote
<1>6. CASE LoseRound(s)
  <2>1. CASE node[s].state = "CANDIDATE"
    <3>1. /\ node'[s].term = node[s].term /\ node'[s].state = "CANDIDATE" /\ elected' = elected
          /\ \A f \in Server \ {s} : node'[f] = node[f]
      <4>1. node' = [node EXCEPT ![s].votedfor = Nil] /\ elected' = elected
        BY <1>6, <2>1 DEF LoseRound
      <4>2. node \in [Server -> Node]
        BY Zenon DEF TypeOK
      <4>3. node'[s] = [node[s] EXCEPT !.votedfor = Nil] /\ \A f \in Server \ {s} : node'[f] = node[f]
        BY <4>1, <4>2
      <4>4. node'[s].term = node[s].term /\ node'[s].state = node[s].state
        BY <1>0, <4>3 DEF Node
      <4> QED
        BY <2>1, <4>1, <4>3, <4>4
    <3>2. OneStep
      BY <1>0, <3>1 DEF OneStep, Node
    <3> QED
      BY <3>1, <3>2, OneStepRefines
  <2>2. CASE node[s].state # "CANDIDATE"
    BY <1>6, <2>2, SameStepRefines DEF LoseRound
  <2> QED
    BY <2>1, <2>2
<1>7. CASE BecomeLeader(s)
  BY <1>7, LeaderRefines DEF LE!Next
<1>8. CASE LateMajority(s)
  <2> DEFINE r == [node[s] EXCEPT !.last_applied = MaxApplied(node[s].log)]
  <2>1. node' = [node EXCEPT ![s] = r] /\ elected' = elected
    BY <1>8 DEF LateMajority
  <2>2. NodeStep(node[s], r)
    BY <1>0 DEF NodeStep, Node
  <2> QED
    BY <2>1, <2>2, NodeStepRefines, Zenon
<1>9. CASE Crash(s)
  <2>1. node' = [node EXCEPT ![s] = Restarted(node[s])] /\ elected' = elected
    BY <1>9 DEF Crash
  <2>2. NodeStep(node[s], Restarted(node[s]))
    BY <1>0 DEF NodeStep, Restarted, Node
  <2> QED
    BY <2>1, <2>2, NodeStepRefines, Zenon
<1>10. CASE \E w \in Writer : Write(w, s)
  <2>1. PICK w \in Writer : Write(w, s)
    BY <1>10
  <2> DEFINE r == [node[s] EXCEPT !.log =
                     Append(@, [term |-> node[s].term, sql |-> w, applied |-> FALSE])]
  <2>2. node' = [node EXCEPT ![s] = r] /\ elected' = elected
    BY <2>1 DEF Write, TypeOK
  <2>3. NodeStep(node[s], r)
    BY <1>0 DEF NodeStep, Node
  <2> QED
    BY <2>2, <2>3, NodeStepRefines, Zenon
<1> QED
  BY <1>2, <1>3, <1>4, <1>5, <1>6, <1>7, <1>8, <1>9, <1>10 DEF ServerNext

(* The steps of the replication and heartbeat threads, and CallVote. *)
LEMMA PairRefines ==
  ASSUME TypeOK, TypeOK', NEW s \in Server, NEW f \in Server, PairNext(s, f)
  PROVE  [LE!Next]_LE!vars
<1> USE DEF callVars, leaderVars, history, counters
<1>0. /\ node[s] \in Node /\ node[f] \in Node
      /\ rcall[s][f] \in LogCall /\ hcall[s][f] \in BeatCall
  BY DEF TypeOK
<1>1. CASE CallVote(s, f) \/ CallReplicate(s, f) \/ CallHeartbeat(s, f)
  BY <1>1, SameStepRefines DEF CallVote, CallReplicate, CallHeartbeat
<1>2. CASE TimeoutReplicate(s, f) \/ TimeoutHeartbeat(s, f)
  BY <1>2, SameStepRefines DEF TimeoutReplicate, TimeoutHeartbeat
<1>3. CASE HandleReplicate(s, f)
  <2>1. rcall[s][f].req \in LogReq
    BY <1>0, <1>3, SMTT(30) DEF HandleReplicate, LogCall, NoCall
  <2>2. node' = [node EXCEPT ![f] = Replicate(node[f], rcall[s][f].req).node] /\ elected' = elected
    BY <1>3 DEF HandleReplicate
  <2>3. NodeStep(node[f], Replicate(node[f], rcall[s][f].req).node)
    BY <1>0, <2>1, ReplicateType
  <2> QED
    BY <2>2, <2>3, NodeStepRefines, Zenon
<1>4. CASE HandleHeartbeat(s, f)
  <2>1. hcall[s][f].req \in BeatReq
    BY <1>0, <1>4, SMTT(30) DEF HandleHeartbeat, BeatCall, NoCall
  <2>2. node' = [node EXCEPT ![f] = Replicate(node[f], hcall[s][f].req).node] /\ elected' = elected
    BY <1>4 DEF HandleHeartbeat
  <2>3. NodeStep(node[f], Replicate(node[f], hcall[s][f].req).node)
    BY <1>0, <2>1, ReplicateType
  <2> QED
    BY <2>2, <2>3, NodeStepRefines, Zenon
<1>5. CASE ReceiveReplicate(s, f) \/ ReceiveHeartbeat(s, f)
  <2>1. elected' = elected
    BY <1>5 DEF ReceiveReplicate, ReceiveHeartbeat
  <2>2. \/ node' = node
        \/ \E c \in Nat : node' = [node EXCEPT ![s].commit = c]
        \/ \E t \in Nat : node' = [node EXCEPT ![s] = Follower(node[s], t)]
    <3>1. CASE ReceiveReplicate(s, f)
      <4>1. next[s][f] \in Nat /\ (rcall[s][f].st = "fail" => rcall[s][f].fterm \in Nat)
        BY <1>0, SMTT(30) DEF TypeOK, LogCall, NoCall
      <4>2. CASE rcall[s][f].st = "ok" /\ ReplicateSuccess(s, f)
        BY <4>1, <4>2, Zenon DEF ReplicateSuccess, AddReplica
      <4>3. CASE ReplicateFailure(s, f)
        BY <4>3 DEF ReplicateFailure
      <4>4. CASE rcall[s][f].st = "fail" /\ node' = [node EXCEPT ![s] = Follower(node[s], rcall[s][f].fterm)]
        BY <4>1, <4>4, Zenon
      <4> QED
        BY <3>1, <4>2, <4>3, <4>4 DEF ReceiveReplicate
    <3>2. CASE ReceiveHeartbeat(s, f)
      <4>1. hcall[s][f].fterm \in Nat
        BY <1>0, <3>2 DEF ReceiveHeartbeat, BeatCall, NoCall
      <4> QED
        BY <3>2, <4>1, Zenon DEF ReceiveHeartbeat
    <3> QED
      BY <1>5, <3>1, <3>2
  <2>3. CASE node' = node
    BY <2>1, <2>3, SameStepRefines
  <2>4. ASSUME NEW c \in Nat, node' = [node EXCEPT ![s].commit = c]
        PROVE  [LE!Next]_LE!vars
    <3>1. NodeStep(node[s], [node[s] EXCEPT !.commit = c])
      BY <1>0 DEF NodeStep, Node
    <3>2. node' = [node EXCEPT ![s] = [node[s] EXCEPT !.commit = c]]
      BY <2>4
    <3> QED
      BY <2>1, <3>1, <3>2, NodeStepRefines, Zenon
  <2>5. ASSUME NEW t \in Nat, node' = [node EXCEPT ![s] = Follower(node[s], t)]
        PROVE  [LE!Next]_LE!vars
    <3>1. NodeStep(node[s], Follower(node[s], t))
      BY <1>0, FollowerType
    <3> QED
      BY <2>1, <2>5, <3>1, NodeStepRefines, Zenon
  <2> QED
    BY <2>2, <2>3, <2>4, <2>5
<1> QED
  BY <1>1, <1>2, <1>3, <1>4, <1>5 DEF PairNext

(* The write path. *)
LEMMA ThreadRefines ==
  ASSUME TypeOK, TypeOK', NEW t \in Thread, ReplicateLog(t) \/ Finish(t)
  PROVE  [LE!Next]_LE!vars
<1> USE DEF callVars, leaderVars, history, counters
<1> DEFINE s == thread[t].srv
           i == thread[t].idx
<1>0. i \in Nat /\ (s \in Server => node[s] \in Node)
  BY SMTT(30) DEF TypeOK, ThreadState
<1>1. elected' = elected
  BY SMTT(30) DEF ReplicateLog, Finish
<1>2. \/ node' = node \/ node' = [node EXCEPT ![s].commit = i]
      \/ node' = [node EXCEPT ![s] = ApplyTo(node[s], i)]
  BY DEF ReplicateLog, Finish
<1>3. CASE s \notin Server
  <2>1. node' = node
    BY <1>2, <1>3 DEF TypeOK
  <2> QED
    BY <1>1, <2>1, SameStepRefines
<1>4. CASE s \in Server
  <2>1. ApplyTo(node[s], i).term = node[s].term /\ ApplyTo(node[s], i).state = node[s].state
        /\ ApplyTo(node[s], i).votedfor = node[s].votedfor
    BY <1>0, <1>4, ApplyToType
  <2> HIDE DEF s, i
  <2>2. NodeStep(node[s], [node[s] EXCEPT !.commit = i]) /\ NodeStep(node[s], ApplyTo(node[s], i))
    BY <1>0, <1>4, <2>1 DEF NodeStep, Node
  <2>3. \/ node' = node \/ node' = [node EXCEPT ![s] = [node[s] EXCEPT !.commit = i]]
        \/ node' = [node EXCEPT ![s] = ApplyTo(node[s], i)]
    BY <1>2
  <2> QED
    BY <1>1, <1>4, <2>2, <2>3, NodeStepRefines, SameStepRefines
<1> QED
  BY <1>3, <1>4

(* A request nobody waits for. *)
LEMMA LateRefines ==
  ASSUME TypeOK, TypeOK', NEW m \in late, HandleLate(m)
  PROVE  [LE!Next]_LE!vars
<1> USE DEF callVars, leaderVars, history, counters
<1>1. /\ m.to \in Server /\ m.req \in VoteReq \cup LogReq \cup BeatReq
      /\ node[m.to] \in Node /\ elected' = elected
  BY DEF TypeOK, HandleLate
<1>2. CASE m.req.kind = "vote"
  <2>1. m.req \in VoteReq
    BY <1>1, <1>2 DEF LogReq, BeatReq
  <2>2. node' = [node EXCEPT ![m.to] = Vote(node[m.to], m.req).node]
    BY <1>2 DEF HandleLate
  <2>3. NodeStep(node[m.to], Vote(node[m.to], m.req).node)
    BY <1>1, <2>1, VoteType, Zenon
  <2> QED
    BY <1>1, <2>2, <2>3, NodeStepRefines, Zenon
<1>3. CASE m.req.kind # "vote"
  <2>1. m.req \in LogReq \cup BeatReq
    BY <1>1, <1>3 DEF VoteReq
  <2>2. node' = [node EXCEPT ![m.to] = Replicate(node[m.to], m.req).node]
    BY <1>3 DEF HandleLate
  <2>3. NodeStep(node[m.to], Replicate(node[m.to], m.req).node)
    BY <1>1, <2>1, ReplicateType
  <2> QED
    BY <1>1, <2>2, <2>3, NodeStepRefines, Zenon
<1> QED
  BY <1>2, <1>3, SMTT(30)

(* Every step of the zone is one of LeaderElection or leaves its variables.*)
LEMMA NextRefines ==
  ASSUME TypeOK, TypeOK', ElectionInv, ElectionSafety', [Next]_vars
  PROVE  [LE!Next]_LE!vars
<1>1. CASE UNCHANGED vars
  BY <1>1, SameStepRefines DEF vars
<1>2. CASE Next
  BY <1>2, ServerRefines, PairRefines, ThreadRefines, LateRefines DEF Next
<1> QED
  BY <1>1, <1>2

(* Nobody is in office and every term is 0 when the zone starts. *)
LEMMA InitRefines == Init => LE!Init
  BY SMTT(30) DEF Init, LE!Init, Terms, Leaders, IsLeader

(* Elections of the zone behave like those of LeaderElection: a term has   *)
(* one election at most, a server is in office only in the term it was     *)
(* elected in, and no message, time-out or restart takes a term back, for  *)
(* any number of servers.                                                  *)
THEOREM RaftElectsLeaders == Spec => ElectsLeaders
<1>1. Init /\ [][Next]_vars /\ []TypeOK /\ []ElectionInv /\ []ElectionSafety => LE!Spec
  BY InitRefines, NextRefines, PTL DEF LE!Spec
<1> QED
  BY <1>1, TypeCorrect, ElectionInvariant, OneLeaderPerTerm, PTL DEF Spec, ElectsLeaders

(* No two servers of the zone act as leader of the same term.              *)
THEOREM OneServerLeads == Spec => []LE!OneInOffice
  BY RaftElectsLeaders, LE!OneServerInOffice, PTL DEF ElectsLeaders
=============================================================================
