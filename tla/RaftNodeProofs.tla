--------------------------- MODULE RaftNodeProofs ---------------------------
(***************************************************************************)
(* What the operators of module Raft on one server do, for every log and   *)
(* every message: types, growing terms, votes that stay.                   *)
(***************************************************************************)
EXTENDS Raft, FiniteSetTheorems, SequenceTheorems, WellFoundedInduction, TLAPS

-----------------------------------------------------------------------------
(* Operators on the state of one server. *)

(* A non-empty set of natural numbers below a bound has a greatest element.*)
LEMMA BoundedSetHasMax ==
  ASSUME NEW n \in Nat, NEW S, S \subseteq 0 .. n, S # {}
  PROVE  Max(S) \in S /\ \A y \in S : Max(S) >= y
<1> DEFINE R == OpToRel(<, Nat)
           T == {n - i : i \in S}
<1>1. PICK x \in T : \A y \in T : ~ (<<y, x>> \in R)
  <2>1. IsWellFoundedOn(R, Nat)
    BY NatLessThanWellFounded, Zenon
  <2>2. T \subseteq Nat
    BY 0 .. n \subseteq Int
  <2>3. T # {}
    BY Zenon
  <2> QED
    BY <2>1, <2>2, <2>3, WFMin, Zenon
<1>2. \A y \in T : y >= x
  <2>1. R = {ss \in Nat \X Nat : ss[1] < ss[2]}
    BY Zenon DEF OpToRel
  <2> HIDE DEF R
  <2>2. T \subseteq Nat
    BY 0 .. n \subseteq Int
  <2>3. \A y \in T : y < x => <<y, x>> \in R
    BY <2>1, <2>2
  <2> HIDE DEF T
  <2>4. ASSUME NEW y \in T PROVE y >= x
    <3>1. ~ (<<y, x>> \in R)
      BY <1>1
    <3>2. x \in Nat /\ y \in Nat
      BY <2>2
    <3>3. ~ (y < x)
      BY <3>1, <2>3
    <3> QED
      BY <3>2, <3>3
  <2> QED
    BY <2>4
<1>3. \E i \in S : \A y \in S : i >= y
  <2>1. PICK i \in S : x = n - i
    OBVIOUS
  <2>2. ASSUME NEW y \in S PROVE i >= y
    <3>1. n - y \in T
      OBVIOUS
    <3>2. n - y >= n - i
      BY <3>1, <1>2, <2>1
    <3> QED
      BY <3>2
  <2> QED
    BY <2>2
<1> QED
  BY <1>3, Zenon DEF Max

(* The applied records of a log: setup_index returns an index of the log.  *)
LEMMA MaxAppliedType ==
  ASSUME NEW log \in Seq(Record)
  PROVE  MaxApplied(log) \in 0 .. Len(log)
<1> DEFINE S == {0} \cup {i \in DOMAIN log : log[i].applied}
<1>1. Len(log) \in Nat /\ S \subseteq 0 .. Len(log) /\ S # {}
  OBVIOUS
<1>2. Max(S) \in S
  BY <1>1, BoundedSetHasMax
<1> QED
  BY <1>1, <1>2 DEF MaxApplied

(* A function on an initial segment of the positive numbers is a sequence. *)
LEMMA FunctionIsSeq ==
  ASSUME NEW S, NEW n \in Nat, NEW f \in [1 .. n -> S]
  PROVE  f \in Seq(S)
BY SeqDef

(* What every method except the start of an election and the end of a lost *)
(* round does to the vote of a server: terms grow, the vote of a term is   *)
(* not changed once given, and nobody becomes a candidate or a leader.     *)
NodeStep(r, r2) ==
  /\ r2.term >= r.term
  /\ r2.term = r.term /\ r.votedfor # Nil => r2.votedfor = r.votedfor
  /\ r2.state # "FOLLOWER" => r2.state = r.state /\ r2.term = r.term

(* apply_log_records touches only the log, the database and last_applied.  *)
LEMMA ApplyToType ==
  ASSUME NEW r \in Node, NEW c \in Nat
  PROVE  /\ ApplyTo(r, c) \in Node
         /\ ApplyTo(r, c).term = r.term
         /\ ApplyTo(r, c).votedfor = r.votedfor
         /\ ApplyTo(r, c).state = r.state
<1> DEFINE lo == r.last_applied + 1
           hi == IF c < Len(r.log) THEN c ELSE Len(r.log)
           log2 == [i \in DOMAIN r.log |->
                      IF i \in lo .. hi THEN [r.log[i] EXCEPT !.applied = TRUE]
                                        ELSE r.log[i]]
           done == [k \in 1 .. (hi - lo + 1) |-> r.log[lo + k - 1].sql]
<1>1. r.log \in Seq(Record) /\ r.db \in Seq(Writer) /\ r.last_applied \in Nat
  BY DEF Node
<1>2. Len(r.log) \in Nat /\ hi \in Nat /\ lo \in Nat /\ hi <= Len(r.log) /\ lo >= 1
  BY <1>1
<1>3. DOMAIN r.log = 1 .. Len(r.log) /\ \A i \in 1 .. Len(r.log) : r.log[i] \in Record
  BY <1>1
<1>4. log2 \in Seq(Record)
  <2>1. log2 \in [1 .. Len(r.log) -> Record]
    BY <1>3, Zenon DEF Record
  <2> QED
    BY <2>1, <1>2, FunctionIsSeq, Zenon
<1>5. CASE hi < lo
  BY <1>5 DEF ApplyTo
<1>6. CASE hi >= lo
  <2>1. done \in Seq(Writer)
    <3>1. hi - lo + 1 \in Nat
      BY <1>2, <1>6
    <3>2. \A k \in 1 .. (hi - lo + 1) : lo + k - 1 \in 1 .. Len(r.log)
      BY <1>2
    <3>3. done \in [1 .. (hi - lo + 1) -> Writer]
      BY <3>2, <1>3 DEF Record
    <3> QED
      BY <3>1, <3>3, FunctionIsSeq
  <2>2. r.db \o done \in Seq(Writer)
    BY <2>1, <1>1
  <2>3. ApplyTo(r, c) = [r EXCEPT !.last_applied = hi, !.log = log2, !.db = r.db \o done]
    BY <1>2, <1>6 DEF ApplyTo
  <2> HIDE DEF hi, lo, log2, done
  <2> QED
    BY <2>2, <2>3, <1>2, <1>4, Zenon DEF Node
<1> QED
  BY <1>2, <1>5, <1>6

(* follower() leaves a well-formed server, in the term it was given or in  *)
(* its own if that is newer.                                               *)
LEMMA FollowerType ==
  ASSUME NEW r \in Node, NEW t \in Nat
  PROVE  /\ Follower(r, t) \in Node
         /\ Follower(r, t).log = r.log
         /\ Follower(r, t).state = "FOLLOWER"
         /\ Follower(r, t).term = (IF t > r.term THEN t ELSE r.term)
         /\ Follower(r, t).votedfor = (IF t > r.term THEN Nil ELSE r.votedfor)
         /\ NodeStep(r, Follower(r, t))
<1>1. r.log \in Seq(Record)
  BY DEF Node
<1>2. MaxApplied(r.log) \in Nat
  BY <1>1, MaxAppliedType
<1> DEFINE f == Follower(r, t)
           tm == IF t > r.term THEN t ELSE r.term
           vf == IF t > r.term THEN Nil ELSE r.votedfor
           ap == MaxApplied(r.log)
<1>3. f = [r EXCEPT !.state = "FOLLOWER", !.term = tm, !.votedfor = vf,
                    !.last_applied = ap, !.commit = ap]
  BY DEF Follower
<1>4. tm \in Nat /\ vf \in Server \cup {Nil} /\ ap \in Nat /\ r.term \in Nat
  BY <1>2 DEF Node
<1>5. /\ f \in Node /\ f.log = r.log /\ f.state = "FOLLOWER"
      /\ f.term = tm /\ f.votedfor = vf
  <2> HIDE DEF tm, vf, ap, f
  <2> QED
    BY <1>3, <1>4, Zenon DEF Node
<1> HIDE DEF f
<1>6. NodeStep(r, f)
  BY <1>4, <1>5 DEF NodeStep
<1> QED
  BY <1>5, <1>6 DEF f

(* The commit index stays a natural number. *)
LEMMA UpdateCommitType ==
  ASSUME NEW r \in Node, NEW c \in Nat, NEW i \in Nat
  PROVE  UpdateCommit(r, c, i) \in Nat
BY DEF UpdateCommit, Node

(* The vote handler: a granted vote is for the candidate and the term of   *)
(* the request, and is never a second vote of that term.                   *)
LEMMA VoteType ==
  ASSUME NEW r \in Node, NEW m \in VoteReq
  PROVE  /\ Vote(r, m).node \in Node
         /\ Vote(r, m).ok \in BOOLEAN
         /\ Vote(r, m).fterm \in Nat
         /\ NodeStep(r, Vote(r, m).node)
         /\ Vote(r, m).ok = TRUE =>
              /\ Vote(r, m).node.term = m.term
              /\ Vote(r, m).node.votedfor = m.cand
              /\ r.term <= m.term
              /\ r.term = m.term => r.votedfor \in {Nil, m.cand}
<1> DEFINE r1 == IF m.term > r.term THEN Follower(r, m.term) ELSE r
           ok == ~LogIsAhead(r1.log, m) /\ MayVoteFor(r1, m.cand)
           r2 == IF ok THEN [r1 EXCEPT !.votedfor = m.cand] ELSE r1
<1>1. r.term \in Nat /\ m.term \in Nat /\ m.cand \in Server
  BY DEF Node, VoteReq
<1>2. CASE Outdated(r, m)
  <2>1. Vote(r, m) = Outcome(r, FALSE, FALSE, r.term)
    BY <1>2 DEF Vote
  <2> QED
    BY <2>1, <1>1 DEF Outcome, NodeStep
<1>3. CASE ~Outdated(r, m)
  <2>1. Vote(r, m) = Outcome(r2, m.term > r.term, ok, r.term)
    BY <1>3 DEF Vote
  <2>2. m.term >= r.term
    BY <1>1, <1>3 DEF Outdated
  <2>3. /\ r1 \in Node /\ NodeStep(r, r1) /\ r1.term = m.term
        /\ r.term = m.term => r1 = r
    <3>1. CASE m.term > r.term
      <4>1. r1 = Follower(r, m.term) /\ r.term # m.term
        BY <1>1, <3>1
      <4>2. /\ Follower(r, m.term) \in Node /\ NodeStep(r, Follower(r, m.term))
            /\ Follower(r, m.term).term = m.term
        BY <1>1, <3>1, FollowerType
      <4> HIDE DEF r1
      <4> QED
        BY <4>1, <4>2
    <3>2. CASE m.term = r.term
      BY <1>1, <3>2 DEF NodeStep
    <3> QED
      BY <1>1, <2>2, <3>1, <3>2
  <2>4. ok => r1.votedfor \in {Nil, m.cand}
    BY DEF MayVoteFor
  <2>5. ok \in BOOLEAN
    OBVIOUS
  <2> HIDE DEF r1, ok
  <2>6. r2 \in Node /\ r2.term = r1.term /\ r2.state = r1.state
        /\ r2.votedfor = (IF ok THEN m.cand ELSE r1.votedfor)
    BY <1>1, <2>3, <2>5, Zenon DEF Node
  <2> HIDE DEF r2
  <2>7. NodeStep(r, r2)
    BY <1>1, <2>2, <2>3, <2>4, <2>6 DEF NodeStep
  <2> QED
    BY <1>1, <2>1, <2>2, <2>3, <2>4, <2>5, <2>6, <2>7 DEF Outcome
<1> QED
  BY <1>2, <1>3, Zenon

(* The handler of log records and heartbeats. *)
LEMMA ReplicateType ==
  ASSUME NEW r \in Node, NEW m \in LogReq \cup BeatReq
  PROVE  /\ Replicate(r, m).node \in Node
         /\ Replicate(r, m).ok \in BOOLEAN
         /\ Replicate(r, m).fterm \in Nat
         /\ NodeStep(r, Replicate(r, m).node)
<1> DEFINE down == m.term > r.term \/ r.state = "CANDIDATE"
           r1   == IF down THEN Follower(r, m.term) ELSE r
<1>1. r.term \in Nat /\ m.term \in Nat /\ m.commit \in Nat
  BY DEF Node, LogReq, BeatReq
<1>2. r1 \in Node /\ NodeStep(r, r1) /\ r1.log \in Seq(Record) /\ Len(r1.log) \in Nat
  <2>1. down => r1 \in Node /\ NodeStep(r, r1)
    BY <1>1, FollowerType
  <2>2. ~down => r1 \in Node /\ NodeStep(r, r1)
    BY <1>1 DEF NodeStep
  <2>3. r1 \in Node /\ NodeStep(r, r1)
    BY <2>1, <2>2
  <2> HIDE DEF r1
  <2> QED
    BY <2>3 DEF Node
<1>3. /\ Heartbeat(r1, m) \in Node
      /\ Heartbeat(r1, m).term = r1.term
      /\ Heartbeat(r1, m).votedfor = r1.votedfor
      /\ Heartbeat(r1, m).state = r1.state
  <2> DEFINE c == UpdateCommit(r1, m.commit, Len(r1.log))
             x == [r1 EXCEPT !.commit = c]
  <2> HIDE DEF r1
  <2>1. c \in Nat
    BY <1>1, <1>2, UpdateCommitType, Zenon
  <2> HIDE DEF c
  <2>2. x \in Node /\ x.term = r1.term /\ x.votedfor = r1.votedfor /\ x.state = r1.state
    BY <1>2, <2>1, Zenon DEF Node
  <2>3. Heartbeat(r1, m) = ApplyTo(x, c)
    BY DEF Heartbeat, c
  <2> HIDE DEF x
  <2> QED
    BY <2>1, <2>2, <2>3, ApplyToType
<1>4. ASSUME m \in LogReq, PrevMatches(r1.log, m)
      PROVE  /\ InsertRecord(r1, m) \in Node
             /\ InsertRecord(r1, m).term = r1.term
             /\ InsertRecord(r1, m).votedfor = r1.votedfor
             /\ InsertRecord(r1, m).state = r1.state
  <2> DEFINE y == StoreRecord(r1, m.index, m.rec)
             c == UpdateCommit(y, m.commit, m.index)
             x == [y EXCEPT !.commit = c]
  <2>1. /\ m.index \in Nat \ {0} /\ m.rec.term \in Nat /\ m.rec.sql \in Writer
        /\ m.index - 1 <= Len(r1.log)
    BY <1>4 DEF LogReq, PrevMatches
  <2> HIDE DEF r1
  <2>2. y \in Node /\ y.term = r1.term /\ y.votedfor = r1.votedfor /\ y.state = r1.state
    <3>1. SubSeq(r1.log, 1, m.index - 1) \in Seq(Record)
      BY <1>2, <2>1
    <3> DEFINE rec == [term |-> m.rec.term, sql |-> m.rec.sql, applied |-> FALSE]
               l2  == Append(SubSeq(r1.log, 1, m.index - 1), rec)
    <3>2. rec \in Record
      BY <2>1 DEF Record
    <3>3. l2 \in Seq(Record)
      BY <3>1, <3>2
    <3>4. y = [r1 EXCEPT !.log = l2]
      BY DEF StoreRecord
    <3> HIDE DEF l2, y
    <3> QED
      BY <1>2, <3>3, <3>4, Zenon DEF Node
  <2>3. InsertRecord(r1, m) = ApplyTo(x, c)
    BY DEF InsertRecord
  <2> HIDE DEF y
  <2>4. c \in Nat
    BY <1>1, <2>1, <2>2, UpdateCommitType, Zenon
  <2> HIDE DEF c
  <2>5. x \in Node /\ x.term = y.term /\ x.votedfor = y.votedfor /\ x.state = y.state
    BY <2>2, <2>4, Zenon DEF Node
  <2> HIDE DEF x
  <2> QED
    BY <2>2, <2>3, <2>4, <2>5, ApplyToType
<1> DEFINE o == Replicate(r, m)
<1>5. /\ o.ok \in BOOLEAN /\ o.fterm = r.term /\ o.node \in Node
      /\ \/ o.node = r
         \/ o.node.term = r1.term /\ o.node.votedfor = r1.votedfor /\ o.node.state = r1.state
  <2>1. CASE Outdated(r, m)
    BY <2>1, Zenon DEF Replicate, Outcome
  <2>2. CASE ~Outdated(r, m) /\ m \in BeatReq
    <3>1. m.kind = "beat"
      BY <2>2 DEF BeatReq
    <3>2. Replicate(r, m) = Outcome(Heartbeat(r1, m), down, TRUE, r.term)
      BY <2>2, <3>1 DEF Replicate
    <3> QED
      BY <3>2, <1>3 DEF Outcome
  <2>3. CASE ~Outdated(r, m) /\ m \in LogReq
    <3>1. m.kind = "log"
      BY <2>3 DEF LogReq
    <3>2. Replicate(r, m) =
             IF ~PrevMatches(r1.log, m)   THEN Outcome(r1, down, FALSE, r.term)
             ELSE IF HasRecord(r1.log, m) THEN Outcome(r1, down, TRUE, r.term)
             ELSE Outcome(InsertRecord(r1, m), down, TRUE, r.term)
      BY <2>3, <3>1 DEF Replicate
    <3> HIDE DEF r1, down
    <3> QED
      BY <3>2, <1>2, <1>4, <2>3 DEF Outcome
  <2> QED
    BY <2>1, <2>2, <2>3
<1> HIDE DEF r1, o
<1>6. NodeStep(r, o.node)
  BY <1>1, <1>2, <1>5 DEF NodeStep
<1> QED
  BY <1>1, <1>5, <1>6 DEF o

-----------------------------------------------------------------------------
(* Type correctness. *)

LeaderVarsOK ==
  /\ next \in [Server -> [Server -> Nat]]
  /\ requests \in [Server -> [Index -> Thread \cup {"none", "null"}]]
  /\ pend \in [Server -> [Server -> BOOLEAN]]
  /\ thread \in [Thread -> ThreadState]

(* Losing the leadership leaves the leader's bookkeeping well formed.      *)
LEMMA StepDownType ==
  ASSUME LeaderVarsOK, NEW s \in Server, NEW down,
         StepDown(s) \/ StepDownIf(down, s)
  PROVE  LeaderVarsOK'
<1>1. CASE StepDown(s)
  <2>1. requests' \in [Server -> [Index -> Thread \cup {"none", "null"}]]
    BY <1>1, Zenon DEF StepDown, ClearRequests, LeaderVarsOK
  <2>2. thread' \in [Thread -> ThreadState]
    <3>1. \A t \in Thread : [thread[t] EXCEPT !.pc = "notified", !.ok = FALSE] \in ThreadState
      BY Zenon DEF LeaderVarsOK, ThreadState
    <3> QED
      BY <1>1, <3>1, Zenon DEF StepDown, ClearRequests, LeaderVarsOK
  <2> QED
    BY <1>1, <2>1, <2>2, Zenon DEF StepDown, LeaderVarsOK
<1>2. CASE UNCHANGED leaderVars
  BY <1>2 DEF leaderVars, LeaderVarsOK
<1> QED
  BY <1>1, <1>2 DEF StepDownIf

(* A request whose caller gives up may stay in the network. *)
LEMMA AbandonType ==
  ASSUME late \subseteq [to : Server, req : VoteReq \cup LogReq \cup BeatReq],
         NEW call \in VoteCall \cup LogCall \cup BeatCall, Abandon(call)
  PROVE  late' \subseteq [to : Server, req : VoteReq \cup LogReq \cup BeatReq]
<1>1. CASE UNCHANGED late
  BY <1>1
<1>2. CASE call.st = "sent" /\ late' = late \cup {[to |-> call.to, req |-> call.req]}
  <2>1. call.to \in Server /\ call.req \in VoteReq \cup LogReq \cup BeatReq
    BY <1>2 DEF VoteCall, LogCall, BeatCall, NoCall
  <2> QED
    BY <1>2, <2>1
<1> QED
  BY <1>1, <1>2 DEF Abandon

(* The last term of a log is a term. *)
LEMMA LogTermType ==
  ASSUME NEW log \in Seq(Record), NEW i \in 0 .. Len(log)
  PROVE  LogTerm(log, i) \in Nat
<1>1. CASE i = 0
  BY <1>1 DEF LogTerm
<1>2. CASE i # 0
  <2>1. i \in 1 .. Len(log)
    BY <1>2
  <2>2. log[i] \in Record
    BY <2>1
  <2> QED
    BY <1>2, <2>2 DEF LogTerm, Record
<1> QED
  BY <1>1, <1>2

=============================================================================
