--------------------------- MODULE RaftTypeProofs ---------------------------
(***************************************************************************)
(* Type correctness of module Raft, for every number of servers and writers*)
(* and every value of the bounds.                                          *)
(***************************************************************************)
EXTENDS RaftNodeProofs

(* Starting a round keeps the types. *)
LEMMA StartRoundType ==
  ASSUME TypeOK, NEW s \in Server, StartRound(s)
  PROVE  TypeOK'
<1>1. node[s] \in Node /\ node[s].log \in Seq(Record) /\ node[s].term \in Nat
  BY DEF TypeOK, Node
<1>2. Len(node[s].log) \in Nat /\ LastTerm(node[s].log) \in Nat
  BY <1>1, LogTermType DEF LastTerm
<1>3. node' \in [Server -> Node]
  <2> DEFINE t == node[s].term + 1
  <2>1. node' = [node EXCEPT ![s] =
                   [node[s] EXCEPT !.state = "CANDIDATE", !.term = t, !.votedfor = s]]
    BY Zenon DEF StartRound, TypeOK
  <2>2. t \in Nat
    BY <1>1
  <2> HIDE DEF t
  <2>3. [node[s] EXCEPT !.state = "CANDIDATE", !.term = t, !.votedfor = s] \in Node
    BY <1>1, <2>2, Zenon DEF Node
  <2> QED
    BY <2>1, <2>3 DEF TypeOK
<1>4. elect' \in [Server -> Election]
  <2>1. [pc |-> "ask", term |-> node[s].term + 1, lindex |-> Len(node[s].log),
         lterm |-> LastTerm(node[s].log), asked |-> {}, granted |-> {}] \in Election
    BY <1>1, <1>2 DEF Election
  <2> QED
    BY <2>1 DEF StartRound, TypeOK
<1> QED
  BY <1>3, <1>4, Zenon DEF StartRound, TypeOK, callVars, leaderVars, history, counters

(* One step per action of a server's timer thread, its clients and a crash.*)
LEMMA ServerNextType ==
  ASSUME TypeOK, NEW s \in Server, ServerNext(s)
  PROVE  TypeOK'
<1> USE DEF callVars, leaderVars, history, counters
<1>0. /\ node[s] \in Node /\ node[s].log \in Seq(Record) /\ node[s].term \in Nat
      /\ elect[s] \in Election /\ vcall[s] \in VoteCall /\ LeaderVarsOK
  BY DEF TypeOK, Node, LeaderVarsOK
<1>a. MaxApplied(node[s].log) \in Nat /\ Len(node[s].log) \in Nat
  BY <1>0, MaxAppliedType
<1>b. NoElection \in Election /\ NoCall \in VoteCall \cap LogCall \cap BeatCall
  BY DEF Election, VoteCall, LogCall, BeatCall
<1>1. CASE ElectionTimeout(s)
  BY <1>1, StartRoundType DEF ElectionTimeout
<1>2. CASE NextRound(s)
  <2>1. CASE StartRound(s)
    BY <2>1, StartRoundType
  <2>2. CASE elect' = [elect EXCEPT ![s] = NoElection]
             /\ UNCHANGED <<node, callVars, leaderVars, history, counters>>
    BY <2>2, <1>b DEF TypeOK
  <2> QED
    BY <1>2, <2>1, <2>2 DEF NextRound
<1>3. CASE HandleVote(s)
  <2> DEFINE f == vcall[s].to
             m == vcall[s].req
             o == Vote(node[f], m)
  <2>1. f \in Server /\ m \in VoteReq
    <3>1. vcall[s].st = "sent"
      BY <1>3, Zenon DEF HandleVote
    <3> QED
      BY <1>0, <3>1, SMTT(30) DEF VoteCall, NoCall
  <2>2. node[f] \in Node
    BY <2>1 DEF TypeOK
  <2>3. o.node \in Node /\ o.ok \in BOOLEAN /\ o.fterm \in Nat
    BY <2>1, <2>2, VoteType, Zenon
  <2>4. /\ node' = [node EXCEPT ![f] = o.node]
        /\ vcall' = [vcall EXCEPT ![s] = IF o.ok THEN [st |-> "granted", to |-> f]
                                         ELSE [st |-> "refused", fterm |-> o.fterm]]
        /\ votes' = RecordVote(o.ok, f, m)
        /\ StepDownIf(o.down, f)
        /\ UNCHANGED <<elect, rcall, hcall, late, elected, counters>>
    BY <1>3 DEF HandleVote
  <2>5. LeaderVarsOK'
    BY <1>0, <2>1, <2>4, StepDownType
  <2>6. votes' \subseteq Nat \X Server \X Server
    BY <2>1, <2>4, SMTT(30) DEF RecordVote, TypeOK, VoteReq
  <2> HIDE DEF o, f, m
  <2>7. vcall' \in [Server -> VoteCall]
    BY <2>1, <2>3, <2>4 DEF TypeOK, VoteCall
  <2>8. node' \in [Server -> Node]
    BY <2>3, <2>4, Zenon DEF TypeOK
  <2> QED
    BY <2>4, <2>5, <2>6, <2>7, <2>8 DEF TypeOK, LeaderVarsOK
<1>4. CASE ReceiveVote(s)
  <2>1. vcall' \in [Server -> VoteCall]
    BY <1>4, <1>b DEF ReceiveVote, TypeOK
  <2>2. CASE vcall[s].st = "granted"
    <3>1. vcall[s].to \in Server
      BY <1>0, <2>2 DEF VoteCall, NoCall
    <3>2. elect' \in [Server -> Election]
      <4>1. elect' = [elect EXCEPT ![s].granted = @ \cup {vcall[s].to}]
        BY <1>4, <2>2 DEF ReceiveVote
      <4>2. [elect[s] EXCEPT !.granted = @ \cup {vcall[s].to}] \in Election
        BY <3>1, <1>0 DEF Election, NoElection
      <4> QED
        BY <4>1, <4>2 DEF TypeOK
    <3> QED
      BY <1>4, <2>1, <2>2, <3>2 DEF ReceiveVote, TypeOK
  <2>3. CASE vcall[s].st = "refused" /\ NewerTerm(vcall[s].fterm, elect[s].term)
    <3>1. vcall[s].fterm \in Nat
      BY <1>0, <2>3, SMTT(30) DEF VoteCall, NoCall
    <3>2. Follower(node[s], vcall[s].fterm) \in Node
      BY <1>0, <3>1, FollowerType, Zenon
    <3>3. /\ node' = [node EXCEPT ![s] = Follower(node[s], vcall[s].fterm)]
          /\ elect' = [elect EXCEPT ![s] = NoElection]
          /\ StepDown(s)
          /\ UNCHANGED <<rcall, hcall, late, history, counters>>
      BY <1>4, <2>3 DEF ReceiveVote
    <3>4. LeaderVarsOK'
      BY <1>0, <3>3, StepDownType
    <3> QED
      BY <2>1, <3>2, <3>3, <3>4, <1>b, Zenon DEF TypeOK, LeaderVarsOK
  <2>4. CASE vcall[s].st = "refused" /\ ~NewerTerm(vcall[s].fterm, elect[s].term)
    BY <1>4, <2>1, <2>4 DEF ReceiveVote, TypeOK
  <2> QED
    BY <1>4, <2>2, <2>3, <2>4 DEF ReceiveVote
<1>5. CASE TimeoutVote(s)
  <2>1. late' \subseteq [to : Server, req : VoteReq \cup LogReq \cup BeatReq]
    BY <1>5, <1>0, AbandonType DEF TimeoutVote, TypeOK
  <2>2. vcall' \in [Server -> VoteCall]
    BY <1>5, <1>b DEF TimeoutVote, TypeOK
  <2> QED
    BY <1>5, <2>1, <2>2 DEF TimeoutVote, TypeOK
<1>6. CASE LoseRound(s)
  <2>1. CASE node[s].state = "CANDIDATE"
    <3>1. [node[s] EXCEPT !.votedfor = Nil] \in Node
      BY <1>0 DEF Node
    <3>2. [elect[s] EXCEPT !.pc = "sleep"] \in Election
      BY <1>0, <1>6 DEF LoseRound, Election, NoElection
    <3>3. /\ node' = [node EXCEPT ![s] = [node[s] EXCEPT !.votedfor = Nil]]
          /\ elect' = [elect EXCEPT ![s] = [elect[s] EXCEPT !.pc = "sleep"]]
      BY <1>6, <2>1 DEF LoseRound, TypeOK
    <3>4. node' \in [Server -> Node] /\ elect' \in [Server -> Election]
      BY <3>1, <3>2, <3>3 DEF TypeOK
    <3> QED
      BY <1>6, <3>4 DEF LoseRound, TypeOK
  <2>2. CASE node[s].state # "CANDIDATE"
    BY <1>6, <2>2, <1>b, ZenonT(40) DEF LoseRound, TypeOK
  <2> QED
    BY <2>1, <2>2
<1>7. CASE BecomeLeader(s)
  <2> DEFINE index   == Len(node[s].log)
             applied == MaxApplied(node[s].log)
  <2>1. node' \in [Server -> Node]
    <3>1. [node[s] EXCEPT !.state = "LEADER", !.last_applied = applied,
                          !.commit = applied] \in Node
      BY <1>0, <1>a, Zenon DEF Node
    <3>2. node' = [node EXCEPT ![s] = [node[s] EXCEPT
                     !.state = "LEADER", !.last_applied = applied, !.commit = applied]]
      BY <1>7, Zenon DEF BecomeLeader, TypeOK
    <3> QED
      BY <3>1, <3>2 DEF TypeOK
  <2>2. next' \in [Server -> [Server -> Nat]]
    <3>1. [f \in Server |-> IF f = s THEN 0 ELSE IF applied < index THEN index
                            ELSE index + 1] \in [Server -> Nat]
      BY <1>a
    <3> QED
      BY <1>7, <3>1 DEF BecomeLeader, TypeOK
  <2>3. requests' \in [Server -> [Index -> Thread \cup {"none", "null"}]]
    BY <1>7 DEF BecomeLeader, TypeOK
  <2>4. thread' \in [Thread -> ThreadState]
    <3>1. [pc |-> "replicate", srv |-> s, idx |-> index, need |-> 0, ok |-> FALSE]
            \in ThreadState
      BY <1>a DEF ThreadState
    <3> QED
      BY <1>7, <3>1 DEF BecomeLeader, TypeOK, Thread
  <2>5. elected' \subseteq Nat \X Server
    BY <1>0, <1>7 DEF BecomeLeader, TypeOK
  <2>6. elect' \in [Server -> Election]
    BY <1>7, <1>b DEF BecomeLeader, TypeOK
  <2> QED
    BY <1>7, <2>1, <2>2, <2>3, <2>4, <2>5, <2>6 DEF BecomeLeader, TypeOK
<1>8. CASE LateMajority(s)
  <2>1. [node[s] EXCEPT !.last_applied = MaxApplied(node[s].log)] \in Node
    BY <1>0, <1>a DEF Node
  <2>2. node' = [node EXCEPT ![s] = [node[s] EXCEPT !.last_applied = MaxApplied(node[s].log)]]
    BY <1>8 DEF LateMajority
  <2>3. node' \in [Server -> Node]
    BY <2>1, <2>2 DEF TypeOK
  <2> QED
    BY <1>8, <1>b, <2>3 DEF LateMajority, TypeOK
<1>9. CASE Crash(s)
  <2>1. node' \in [Server -> Node]
    <3>1. Restarted(node[s]) \in Node
      BY <1>0, <1>a, Zenon DEF Restarted, Node
    <3> QED
      BY <1>9, <3>1 DEF Crash, TypeOK
  <2>2. thread' \in [Thread -> ThreadState]
    BY <1>9, Zenon DEF Crash, TypeOK, NoThread, ThreadState
  <2>3. /\ elect' \in [Server -> Election] /\ vcall' \in [Server -> VoteCall]
        /\ rcall' \in [Server -> [Server -> LogCall]]
        /\ hcall' \in [Server -> [Server -> BeatCall]]
    BY <1>9, <1>b DEF Crash, TypeOK
  <2>4. /\ next' \in [Server -> [Server -> Nat]]
        /\ pend' \in [Server -> [Server -> BOOLEAN]]
        /\ requests' \in [Server -> [Index -> Thread \cup {"none", "null"}]]
    BY <1>9 DEF Crash, TypeOK
  <2> QED
    BY <1>9, <2>1, <2>2, <2>3, <2>4 DEF Crash, TypeOK
<1>10. CASE \E w \in Writer : Write(w, s)
  <2>1. PICK w \in Writer : Write(w, s)
    BY <1>10
  <2> DEFINE i   == Len(node[s].log) + 1
             rec == [term |-> node[s].term, sql |-> w, applied |-> FALSE]
  <2>2. node' \in [Server -> Node]
    <3>1. rec \in Record
      BY <1>0 DEF Record
    <3>2. Append(node[s].log, rec) \in Seq(Record)
      BY <1>0, <3>1
    <3>3. [node[s] EXCEPT !.log = Append(node[s].log, rec)] \in Node
      BY <1>0, <3>2, Zenon DEF Node
    <3>4. node' = [node EXCEPT ![s] = [node[s] EXCEPT !.log = Append(node[s].log, rec)]]
      BY <2>1 DEF Write, TypeOK
    <3> QED
      BY <3>3, <3>4 DEF TypeOK
  <2>3. requests' \in [Server -> [Index -> Thread \cup {"none", "null"}]]
    <3>1. requests' = [requests EXCEPT ![s][i] = IF @ = "none" THEN "null" ELSE @]
      BY <2>1 DEF Write
    <3> HIDE DEF i
    <3> QED
      BY <3>1, ZenonT(40) DEF TypeOK
  <2>4. thread' \in [Thread -> ThreadState]
    <3>1. [pc |-> "replicate", srv |-> s, idx |-> i, need |-> 0, ok |-> FALSE]
            \in ThreadState
      BY <1>a DEF ThreadState
    <3> QED
      BY <2>1, <3>1, Zenon DEF Write, TypeOK
  <2> QED
    BY <2>1, <2>2, <2>3, <2>4, Zenon DEF Write, TypeOK
<1> QED
  BY <1>1, <1>2, <1>3, <1>4, <1>5, <1>6, <1>7, <1>8, <1>9, <1>10 DEF ServerNext

(* One step per action of the replication and heartbeat threads. *)
LEMMA PairNextType ==
  ASSUME TypeOK, NEW s \in Server, NEW f \in Server, PairNext(s, f)
  PROVE  TypeOK'
<1> USE DEF callVars, leaderVars, history, counters
<1>0. /\ node[s] \in Node /\ node[f] \in Node /\ elect[s] \in Election
      /\ rcall[s][f] \in LogCall /\ hcall[s][f] \in BeatCall
      /\ next[s][f] \in Nat /\ LeaderVarsOK
  BY DEF TypeOK, LeaderVarsOK
<1>a. /\ node[s].log \in Seq(Record) /\ Len(node[s].log) \in Nat
      /\ node[s].term \in Nat /\ node[s].commit \in Nat
  BY <1>0, SMTT(30) DEF Node
<1>b. NoCall \in VoteCall \cap LogCall \cap BeatCall
  BY DEF VoteCall, LogCall, BeatCall
<1>1. CASE CallVote(s, f)
  <2>1. /\ elect[s].lindex \in Nat /\ elect[s].lterm \in Nat
        /\ [elect[s] EXCEPT !.asked = @ \cup {f}] \in Election
    BY <1>0, <1>1 DEF CallVote, Election, NoElection
  <2>2. VoteRequest(s) \in VoteReq
    BY <1>a, <2>1 DEF VoteRequest, VoteReq
  <2>3. [st |-> "sent", to |-> f, req |-> VoteRequest(s)] \in VoteCall
    BY <2>2 DEF VoteCall
  <2>4. vcall' \in [Server -> VoteCall] /\ elect' \in [Server -> Election]
    BY <1>1, <2>1, <2>3 DEF CallVote, TypeOK
  <2> QED
    BY <1>1, <2>4 DEF CallVote, TypeOK
<1>2. CASE CallReplicate(s, f)
  <2> DEFINE i == next[s][f]
  <2>1. i \in 1 .. Len(node[s].log)
    BY <1>2, <1>a DEF CallReplicate
  <2>2. node[s].log[i] \in Record
    BY <2>1, <1>a
  <2>3. LogTerm(node[s].log, i - 1) \in Nat
    <3>1. i - 1 \in 0 .. Len(node[s].log)
      BY <2>1, <1>a, SMTT(30)
    <3> QED
      BY <3>1, <1>a, LogTermType
  <2>4. LogRequest(s, f) \in LogReq
    <3>1. [term |-> node[s].log[i].term, sql |-> node[s].log[i].sql] \in [term : Nat, sql : Writer]
      BY <2>2 DEF Record
    <3>2. i \in Nat \ {0}
      BY <2>1, <1>a
    <3> QED
      BY <1>a, <2>3, <3>1, <3>2, SMTT(30) DEF LogRequest, LogReq
  <2>5. [st |-> "sent", to |-> f, req |-> LogRequest(s, f)] \in LogCall
    BY <2>4 DEF LogCall
  <2>6. rcall' \in [Server -> [Server -> LogCall]] /\ pend' \in [Server -> [Server -> BOOLEAN]]
    BY <1>2, <2>5 DEF CallReplicate, TypeOK
  <2> QED
    BY <1>2, <2>6 DEF CallReplicate, TypeOK
<1>3. CASE HandleReplicate(s, f)
  <2> DEFINE m == rcall[s][f].req
             o == Replicate(node[f], m)
             c == IF o.ok THEN [st |-> "ok"]
                  ELSE [st |-> "fail", newer |-> NewerTerm(o.fterm, m.term), fterm |-> o.fterm]
  <2>1. m \in LogReq
    BY <1>0, <1>3, SMTT(30) DEF HandleReplicate, LogCall, NoCall
  <2>2. o.node \in Node /\ o.ok \in BOOLEAN /\ o.fterm \in Nat
    BY <1>0, <2>1, ReplicateType, SMTT(30)
  <2>3. /\ node' = [node EXCEPT ![f] = o.node]
        /\ rcall' = [rcall EXCEPT ![s][f] = c]
        /\ StepDownIf(o.down, f)
        /\ UNCHANGED <<elect, vcall, hcall, late, history, counters>>
    BY <1>3 DEF HandleReplicate, TypeOK
  <2>4. LeaderVarsOK'
    BY <1>0, <2>3, StepDownType
  <2>5. c \in LogCall
    <3> HIDE DEF o, m
    <3> QED
      BY <2>2 DEF LogCall, NewerTerm
  <2> HIDE DEF o, c
  <2>6. node' \in [Server -> Node] /\ rcall' \in [Server -> [Server -> LogCall]]
    BY <2>2, <2>3, <2>5 DEF TypeOK
  <2> QED
    BY <2>3, <2>4, <2>6 DEF TypeOK, LeaderVarsOK
<1>4. CASE ReceiveReplicate(s, f)
  <2>1. rcall' \in [Server -> [Server -> LogCall]]
    BY <1>4, <1>b DEF ReceiveReplicate, TypeOK
  <2>2. CASE rcall[s][f].st = "ok" /\ ReplicateSuccess(s, f)
    <3> DEFINE i == next[s][f]
               t == requests[s][i]
    <3>1. CASE ~IsLeader(s)
      BY <1>4, <2>1, <2>2, <3>1 DEF ReceiveReplicate, ReplicateSuccess, TypeOK
    <3>2. CASE IsLeader(s)
      <4>1. /\ next' = [next EXCEPT ![s][f] = i + 1]
            /\ AddReplica(s, i)
            /\ pend' = [pend EXCEPT ![s][f] =
                          @ \/ /\ Len(node[s].log) > i
                               /\ i + 1 \in Index => requests[s][i + 1] # "null"]
        BY <2>2, <3>2 DEF ReplicateSuccess
      <4>2. next' \in [Server -> [Server -> Nat]] /\ pend' \in [Server -> [Server -> BOOLEAN]]
        BY <1>0, <4>1 DEF TypeOK
      <4>3. /\ node' \in [Server -> Node] /\ thread' \in [Thread -> ThreadState]
            /\ requests' \in [Server -> [Index -> Thread \cup {"none", "null"}]]
        <5>1. CASE UNCHANGED <<node, requests, thread>>
          BY <5>1 DEF TypeOK
        <5>2. CASE t \in Thread /\ thread[t].need > 1
                   /\ thread' = [thread EXCEPT ![t].need = @ - 1]
                   /\ UNCHANGED <<node, requests>>
          <6> HIDE DEF t
          <6>1. thread[t] \in ThreadState /\ thread[t].need \in Nat
            BY <5>2 DEF TypeOK, ThreadState
          <6> DEFINE n == thread[t].need - 1
          <6>2. n \in Nat
            BY <5>2, <6>1
          <6>3. thread' = [thread EXCEPT ![t] = [thread[t] EXCEPT !.need = n]]
            BY <5>2 DEF TypeOK
          <6> HIDE DEF n
          <6>4. [thread[t] EXCEPT !.need = n] \in ThreadState
            BY <6>1, <6>2 DEF ThreadState
          <6> QED
            BY <5>2, <6>3, <6>4, Zenon DEF TypeOK
        <5>3. CASE /\ t \in Thread
                   /\ thread' = [thread EXCEPT ![t].need = 0, ![t].pc = "notified", ![t].ok = TRUE]
                   /\ requests' = [requests EXCEPT ![s][i] = "none"]
                   /\ node' = [node EXCEPT ![s].commit = i]
          <6>1. [thread[t] EXCEPT !.need = 0, !.pc = "notified", !.ok = TRUE] \in ThreadState
            <7> HIDE DEF t
            <7>1. thread[t] \in ThreadState
              BY <5>3 DEF TypeOK
            <7> QED
              BY <7>1, Zenon DEF ThreadState
          <6>2. thread' = [thread EXCEPT ![t] =
                             [thread[t] EXCEPT !.need = 0, !.pc = "notified", !.ok = TRUE]]
            BY <5>3, Zenon DEF TypeOK
          <6>3. [node[s] EXCEPT !.commit = i] \in Node
            BY <1>0, Zenon DEF Node
          <6> HIDE DEF i, t
          <6>4. requests' \in [Server -> [Index -> Thread \cup {"none", "null"}]]
            BY <5>3, Zenon DEF TypeOK
          <6>5. thread' \in [Thread -> ThreadState] /\ node' \in [Server -> Node]
            BY <5>3, <6>1, <6>2, <6>3 DEF TypeOK
          <6> QED
            BY <6>4, <6>5
        <5> QED
          BY <4>1, <5>1, <5>2, <5>3, Zenon DEF AddReplica
      <4> QED
        BY <1>4, <2>1, <4>2, <4>3 DEF ReceiveReplicate, TypeOK
    <3> QED
      BY <3>1, <3>2
  <2>3. CASE ReplicateFailure(s, f)
    <3> DEFINE n == IF next[s][f] > 0 THEN next[s][f] - 1 ELSE next[s][f]
    <3>1. n \in Nat
      BY <1>0
    <3>2. next' \in [Server -> [Server -> Nat]] /\ pend' \in [Server -> [Server -> BOOLEAN]]
      <4>1. \/ /\ next' = [next EXCEPT ![s] = [next[s] EXCEPT ![f] = n]]
               /\ pend' = [pend EXCEPT ![s][f] = TRUE]
            \/ UNCHANGED <<next, pend>>
        BY <2>3 DEF ReplicateFailure, TypeOK
      <4> HIDE DEF n
      <4>2. [next[s] EXCEPT ![f] = n] \in [Server -> Nat]
        BY <3>1 DEF TypeOK
      <4>3. next' \in [Server -> [Server -> Nat]]
        BY <4>1, <4>2, Zenon DEF TypeOK
      <4>4. pend' \in [Server -> [Server -> BOOLEAN]]
        <5>1. [pend[s] EXCEPT ![f] = TRUE] \in [Server -> BOOLEAN]
          BY DEF TypeOK
        <5>2. pend' = [pend EXCEPT ![s] = [pend[s] EXCEPT ![f] = TRUE]] \/ pend' = pend
          BY <4>1 DEF TypeOK
        <5> QED
          BY <5>1, <5>2, Zenon DEF TypeOK
      <4> QED
        BY <4>3, <4>4
    <3> QED
      BY <1>4, <2>1, <2>3, <3>2 DEF ReceiveReplicate, ReplicateFailure, TypeOK
  <2>4. CASE /\ rcall[s][f].st = "fail"
             /\ node' = [node EXCEPT ![s] = Follower(node[s], rcall[s][f].fterm)]
             /\ StepDown(s)
    <3>1. rcall[s][f].fterm \in Nat
      BY <1>0, <2>4, SMTT(30) DEF LogCall, NoCall
    <3>2. Follower(node[s], rcall[s][f].fterm) \in Node
      BY <1>0, <3>1, FollowerType
    <3>3. LeaderVarsOK'
      BY <1>0, <2>4, StepDownType
    <3> QED
      BY <1>4, <2>1, <2>4, <3>2, <3>3, Zenon DEF ReceiveReplicate, TypeOK, LeaderVarsOK
  <2> QED
    BY <1>4, <2>2, <2>3, <2>4 DEF ReceiveReplicate
<1>5. CASE TimeoutReplicate(s, f)
  <2>1. late' \subseteq [to : Server, req : VoteReq \cup LogReq \cup BeatReq]
    BY <1>5, <1>0, AbandonType DEF TimeoutReplicate, TypeOK
  <2>2. rcall' \in [Server -> [Server -> LogCall]] /\ pend' \in [Server -> [Server -> BOOLEAN]]
    BY <1>5, <1>b, SMTT(30) DEF TimeoutReplicate, TypeOK, IsLeader
  <2> QED
    BY <1>5, <2>1, <2>2 DEF TimeoutReplicate, TypeOK
<1>6. CASE CallHeartbeat(s, f)
  <2>1. [st |-> "sent", to |-> f, req |-> [kind |-> "beat", term |-> node[s].term,
                                           commit |-> node[s].commit]] \in BeatCall
    BY <1>a DEF BeatCall, BeatReq
  <2>2. hcall' \in [Server -> [Server -> BeatCall]]
    BY <1>6, <2>1, SMTT(30) DEF CallHeartbeat, TypeOK
  <2> QED
    BY <1>6, <2>2, SMTT(30) DEF CallHeartbeat, TypeOK
<1>7. CASE HandleHeartbeat(s, f)
  <2> DEFINE m == hcall[s][f].req
             o == Replicate(node[f], m)
             c == IF ~o.ok /\ NewerTerm(o.fterm, m.term)
                  THEN [st |-> "refused", fterm |-> o.fterm] ELSE NoCall
  <2>1. m \in BeatReq
    BY <1>0, <1>7, SMTT(30) DEF HandleHeartbeat, BeatCall, NoCall
  <2>2. o.node \in Node /\ o.fterm \in Nat
    BY <1>0, <2>1, ReplicateType
  <2>3. /\ node' = [node EXCEPT ![f] = o.node]
        /\ hcall' = [hcall EXCEPT ![s][f] = c]
        /\ StepDownIf(o.down, f)
        /\ UNCHANGED <<elect, vcall, rcall, late, history, counters>>
    BY <1>7 DEF HandleHeartbeat, TypeOK
  <2>4. LeaderVarsOK'
    BY <1>0, <2>3, StepDownType
  <2>5. c \in BeatCall
    <3> HIDE DEF o, m
    <3> QED
      BY <2>2 DEF BeatCall
  <2> HIDE DEF o, c
  <2>6. node' \in [Server -> Node] /\ hcall' \in [Server -> [Server -> BeatCall]]
    BY <2>2, <2>3, <2>5 DEF TypeOK
  <2> QED
    BY <2>3, <2>4, <2>6 DEF TypeOK, LeaderVarsOK
<1>8. CASE ReceiveHeartbeat(s, f)
  <2>1. hcall[s][f].fterm \in Nat
    BY <1>0, <1>8 DEF ReceiveHeartbeat, BeatCall, NoCall
  <2>2. Follower(node[s], hcall[s][f].fterm) \in Node
    BY <1>0, <2>1, FollowerType
  <2>3. LeaderVarsOK'
    BY <1>0, <1>8, StepDownType DEF ReceiveHeartbeat
  <2> QED
    BY <1>8, <1>b, <2>2, <2>3, Zenon DEF ReceiveHeartbeat, TypeOK, LeaderVarsOK
<1>9. CASE TimeoutHeartbeat(s, f)
  <2>1. late' \subseteq [to : Server, req : VoteReq \cup LogReq \cup BeatReq]
    BY <1>9, <1>0, AbandonType DEF TimeoutHeartbeat, TypeOK
  <2> QED
    BY <1>9, <1>b, <2>1 DEF TimeoutHeartbeat, TypeOK
<1> QED
  BY <1>1, <1>2, <1>3, <1>4, <1>5, <1>6, <1>7, <1>8, <1>9 DEF PairNext

(* The number of followers still to be counted is an integer. *)
LEMMA ToCommitType ==
  ASSUME NEW s, NEW i
  PROVE  ToCommit(s, i) \in Int
<1>1. Cardinality(Server) \in Nat
  BY ServerAssumption, FS_CardinalityType
<1>2. IsFiniteSet(Replicated(s, i))
  <2>1. Replicated(s, i) \subseteq Server
    BY DEF Replicated, Others
  <2> QED
    BY <2>1, ServerAssumption, FS_Subset
<1>3. Cardinality(Replicated(s, i)) \in Nat
  BY <1>2, FS_CardinalityType
<1> QED
  BY <1>1, <1>3 DEF ToCommit

(* The write path: replicate_log and the end of LogDB::replicate. *)
LEMMA ThreadType ==
  ASSUME TypeOK, NEW t \in Thread, ReplicateLog(t) \/ Finish(t)
  PROVE  TypeOK'
<1> USE DEF callVars, leaderVars, history, counters
<1> DEFINE s == thread[t].srv
           i == thread[t].idx
<1>0. thread[t] \in ThreadState /\ s \in Server \cup {Nil} /\ i \in Nat
  BY SMTT(30) DEF TypeOK, ThreadState
<1>1. CASE ReplicateLog(t)
  <2>1. \A ok \in BOOLEAN : [thread[t] EXCEPT !.pc = "notified", !.ok = ok] \in ThreadState
    <3> HIDE DEF s, i
    <3> QED
      BY <1>0, Zenon DEF ThreadState
  <2>2. ToCommit(s, i) > 0 =>
           [thread[t] EXCEPT !.pc = "wait", !.need = ToCommit(s, i)] \in ThreadState
    <3>1. ToCommit(s, i) \in Int
      BY ToCommitType
    <3> DEFINE n == ToCommit(s, i)
    <3> HIDE DEF n
    <3>2. n \in Int
      BY <3>1 DEF n
    <3>3. n > 0 => [thread[t] EXCEPT !.pc = "wait", !.need = n] \in ThreadState
      <4>1. n > 0 => n \in Nat
        BY <3>2
      <4>2. thread[t] \in ThreadState
        BY <1>0
      <4> HIDE DEF s, i
      <4> QED
        BY <4>1, <4>2, Zenon DEF ThreadState
    <3> QED
      BY <3>3 DEF n
  <2>3. thread' \in [Thread -> ThreadState]
    <3>1. \/ \E ok \in BOOLEAN : thread' = [thread EXCEPT ![t] =
                                   [thread[t] EXCEPT !.pc = "notified", !.ok = ok]]
          \/ /\ ~(ToCommit(s, i) <= 0)
             /\ thread' = [thread EXCEPT ![t] =
                             [thread[t] EXCEPT !.pc = "wait", !.need = ToCommit(s, i)]]
      BY <1>1, Zenon DEF ReplicateLog, TypeOK
    <3>2. ~(ToCommit(s, i) <= 0) => ToCommit(s, i) > 0
      BY ToCommitType
    <3> QED
      BY <3>1, <3>2, <2>1, <2>2, Zenon DEF TypeOK
  <2>4. requests' \in [Server -> [Index -> Thread \cup {"none", "null"}]]
    <3>1. \E v \in Thread \cup {"none", "null"} : requests' = [requests EXCEPT ![s][i] = v]
      BY <1>1, Zenon DEF ReplicateLog
    <3>2. PICK v \in Thread \cup {"none", "null"} : requests' = [requests EXCEPT ![s][i] = v]
      BY <3>1, Zenon
    <3> HIDE DEF s, i
    <3>3. s \in Server => [requests[s] EXCEPT ![i] = v] \in [Index -> Thread \cup {"none", "null"}]
      BY Zenon DEF TypeOK
    <3>4. requests' = [requests EXCEPT ![s] = [requests[s] EXCEPT ![i] = v]]
      BY <3>2
    <3> QED
      BY <3>3, <3>4, Zenon DEF TypeOK
  <2>5. node' \in [Server -> Node]
    <3>1. node' = node \/ node' = [node EXCEPT ![s].commit = i]
      BY <1>1 DEF ReplicateLog
    <3>2. s \in Server => [node[s] EXCEPT !.commit = i] \in Node
      <4>1. s \in Server => node[s] \in Node
        BY DEF TypeOK
      <4> HIDE DEF s, i
      <4> QED
        BY <4>1, <1>0 DEF Node
    <3> HIDE DEF s, i
    <3> QED
      BY <3>1, <3>2, Zenon DEF TypeOK
  <2>6. pend' \in [Server -> [Server -> BOOLEAN]]
    <3>1. \/ pend' = pend
          \/ pend' = [pend EXCEPT ![s] = [f \in Server |->
                        @[f] \/ f \in Others(s) \ Replicated(s, i)]]
      BY <1>1, Zenon DEF ReplicateLog
    <3> DEFINE p == [f \in Server |-> pend[s][f] \/ f \in Others(s) \ Replicated(s, i)]
    <3>2. pend' = pend \/ pend' = [pend EXCEPT ![s] = p]
      BY <3>1
    <3>3. p \in [Server -> BOOLEAN]
      BY Zenon
    <3> HIDE DEF s, i, p
    <3> QED
      BY <3>2, <3>3 DEF TypeOK
  <2> QED
    BY <1>1, <2>3, <2>4, <2>5, <2>6 DEF ReplicateLog, TypeOK
<1>2. CASE Finish(t)
  <2>1. node' \in [Server -> Node]
    <3>1. node' = node \/ node' = [node EXCEPT ![s] = ApplyTo(node[s], i)]
      BY <1>2 DEF Finish
    <3>2. s \in Server => ApplyTo(node[s], i) \in Node
      BY <1>0, ApplyToType DEF TypeOK
    <3> HIDE DEF s, i
    <3> QED
      BY <3>1, <3>2, Zenon DEF TypeOK
  <2>2. thread' \in [Thread -> ThreadState]
    <3>1. \E pc \in {"idle", "acked", "failed"} :
             thread' = [thread EXCEPT ![t] = [NoThread EXCEPT !.pc = pc]]
      BY <1>2, Zenon DEF Finish
    <3>2. PICK pc \in {"idle", "acked", "failed"} :
             thread' = [thread EXCEPT ![t] = [NoThread EXCEPT !.pc = pc]]
      BY <3>1, Zenon
    <3>3. [NoThread EXCEPT !.pc = pc] \in ThreadState
      BY Zenon DEF NoThread, ThreadState
    <3> HIDE DEF s, i
    <3> QED
      BY <3>2, <3>3 DEF TypeOK
  <2> QED
    BY <1>2, <2>1, <2>2 DEF Finish, TypeOK
<1> QED
  BY <1>1, <1>2

(* A late request is handled by the handler of its kind. *)
LEMMA LateType ==
  ASSUME TypeOK, NEW m \in late, HandleLate(m)
  PROVE  TypeOK'
<1> USE DEF callVars, leaderVars, history, counters
<1> DEFINE o == IF m.req.kind = "vote" THEN Vote(node[m.to], m.req)
                                       ELSE Replicate(node[m.to], m.req)
<1>1. m.to \in Server /\ m.req \in VoteReq \cup LogReq \cup BeatReq /\ LeaderVarsOK
  BY DEF TypeOK, LeaderVarsOK
<1>2. node[m.to] \in Node
  BY <1>1 DEF TypeOK
<1>3. /\ m.req.kind = "vote" => m.req \in VoteReq
      /\ m.req.kind # "vote" => m.req \in LogReq \cup BeatReq
  BY <1>1 DEF VoteReq, LogReq, BeatReq
<1>4. o.node \in Node
  BY <1>2, <1>3, VoteType, ReplicateType, Zenon
<1>5. /\ node' = [node EXCEPT ![m.to] = o.node]
      /\ votes' = RecordVote(m.req.kind = "vote" /\ o.ok, m.to, m.req)
      /\ StepDownIf(o.down, m.to)
      /\ late' = late \ {m}
      /\ UNCHANGED <<elect, vcall, rcall, hcall, elected, counters>>
  BY DEF HandleLate
<1>6. LeaderVarsOK'
  BY <1>1, <1>5, StepDownType
<1> HIDE DEF o
<1>7. votes' \subseteq Nat \X Server \X Server
  BY <1>1, <1>3, <1>5 DEF RecordVote, TypeOK, VoteReq
<1> QED
  BY <1>1, <1>4, <1>5, <1>6, <1>7, Zenon DEF TypeOK, LeaderVarsOK

(* Every step of the system keeps the types. *)
LEMMA NextType == TypeOK /\ [Next]_vars => TypeOK'
<1> SUFFICES ASSUME TypeOK, [Next]_vars PROVE TypeOK'
  OBVIOUS
<1>1. CASE UNCHANGED vars
  BY <1>1 DEF vars, TypeOK
<1>2. CASE Next
  BY <1>2, ServerNextType, PairNextType, ThreadType, LateType DEF Next
<1> QED
  BY <1>1, <1>2

(* The initial state has the types. *)
LEMMA InitType == Init => TypeOK
<1> SUFFICES ASSUME Init PROVE TypeOK
  OBVIOUS
<1>1. NoElection \in Election /\ NoCall \in VoteCall \cap LogCall \cap BeatCall
  BY DEF Election, VoteCall, LogCall, BeatCall
<1>2. NoThread \in ThreadState
  BY DEF NoThread, ThreadState
<1>3. [state |-> "FOLLOWER", term |-> 0, votedfor |-> Nil, log |-> <<>>, db |-> <<>>,
       last_applied |-> 0, commit |-> 0] \in Node
  BY DEF Node
<1> QED
  BY <1>1, <1>2, <1>3 DEF Init, TypeOK

(* Whatever the number of servers and writers and whatever fails, every    *)
(* state of the zone is well formed: the handlers of ZoneAPI, the replica  *)
(* threads and the write path of LogDB only ever see requests, logs and    *)
(* waiting threads of the types they are written for.                      *)
THEOREM TypeCorrect == Spec => []TypeOK
  BY InitType, NextType, PTL DEF Spec
=============================================================================
