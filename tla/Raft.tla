-------------------------------- MODULE Raft --------------------------------
(***************************************************************************)
(* The zone consensus of the OpenNebula front-end: leader election and     *)
(* replication of the SQL log between the oned servers of one zone.        *)
(*                                                                         *)
(*   RaftManager      election timer, votes, leader/follower transitions,  *)
(*                    counting of replicas (src/src/raft/RaftManager.cc)   *)
(*   ReplicaThread    one replication and one heartbeat thread for every   *)
(*                    follower (src/src/raft/ReplicaThread.cc)             *)
(*   ZoneAPI          the two RPC handlers a follower runs, vote and       *)
(*                    replicate_log (src/src/rm/api/ZoneAPI.cc)            *)
(*   LogDB            the log table, and the write path of a DB client:    *)
(*                    insert, replicate, wait, apply (src/src/sql/LogDB.cc)*)
(*                                                                         *)
(* An RPC is three steps: the caller sends it with what it read at that    *)
(* moment, the callee's handler runs to completion, the caller takes the   *)
(* answer.  The caller may give up waiting at any point, and a request it  *)
(* gave up on may still be handled later.  A write is three steps as well, *)
(* the ones the locks of LogDB and RaftManager separate.                   *)
(***************************************************************************)
EXTENDS Integers, FiniteSets, Sequences, FiniteSetsExt

CONSTANTS
  Server,        \* the oned servers of the zone (static membership)
  Writer,        \* DB clients; a writer also stands for the SQL it writes
  Nil,           \* votedfor = -1, no pointer in the request map
  StaleThreads,  \* may work of an old leadership outlive the next election?
  Losses,        \* may RPCs fail?
  MaxTerm,       \* bound on terms
  MaxLog,        \* bound on log records of a server
  MaxCrash,      \* bound on process crashes
  MaxBeat,       \* bound on heartbeats sent
  MaxLate        \* bound on requests in the network after their caller left

ASSUME ServerAssumption == IsFiniteSet(Server) /\ Server # {}
ASSUME NilAssumption    == Nil \notin Server \cup Writer
ASSUME ThreadAssumption == Server \cap Writer = {}
ASSUME BoundAssumption  == /\ {MaxTerm, MaxLog, MaxCrash, MaxBeat, MaxLate} \subseteq Nat
                           /\ {StaleThreads, Losses} \subseteq BOOLEAN

VARIABLES
  node,      \* one record per server, see Node
  elect,     \* the timer thread of a server while it runs an election
  vcall,     \* the vote RPC of that thread
  next,      \* next log index to send to each follower (leader)
  requests,  \* index -> waiting thread, "null" (allocated) or "none" (leader)
  pend,      \* _pending_requests of every replication thread (leader)
  rcall,     \* the replicate RPC of every replication thread
  hcall,     \* the heartbeat RPC of every heartbeat thread
  thread,    \* threads inside LogDB::replicate
  late,      \* requests in the network whose caller gave up
  elected,   \* history: <<term, server>> of every leader there was
  votes,     \* history: <<term, voter, candidate>> of every vote granted
  crashes,   \* number of crashes so far
  beats      \* number of heartbeats sent so far

vars == <<node, elect, vcall, next, requests, pend, rcall, hcall, thread,
          late, elected, votes, crashes, beats>>

callVars   == <<vcall, rcall, hcall, late>>
leaderVars == <<next, requests, pend, thread>>
counters   == <<crashes, beats>>
history    == <<elected, votes>>

-----------------------------------------------------------------------------
(* Data.  A log record is a row of table logdb.  Row 0, term 0, is written *)
(* and applied when the table is created, and is left implicit.            *)

Thread == Writer \cup Server        \* a server id names its reconciling thread
Index  == 1 .. MaxLog
Record == [term : Nat, sql : Writer, applied : BOOLEAN]

Node == [state : {"FOLLOWER", "CANDIDATE", "LEADER"},
         term : Nat, votedfor : Server \cup {Nil},   \* kept in RAFT_STATE
         log : Seq(Record),                          \* table logdb
         db : Seq(Writer),                           \* SQL executed so far
         last_applied : Nat, commit : Nat]

VoteReq == [kind : {"vote"}, cand : Server, term : Nat, lindex : Nat, lterm : Nat]
LogReq  == [kind : {"log"}, term : Nat, commit : Nat, index : Nat \ {0},
            rec : [term : Nat, sql : Writer], prev_term : Nat]
BeatReq == [kind : {"beat"}, term : Nat, commit : Nat]

NoCall == [st |-> "idle"]
VoteCall ==
  {NoCall} \cup [st : {"sent"}, to : Server, req : VoteReq]
           \cup [st : {"granted"}, to : Server] \cup [st : {"refused"}, fterm : Nat]
LogCall ==
  {NoCall} \cup [st : {"sent"}, to : Server, req : LogReq] \cup [st : {"ok"}]
           \cup [st : {"fail"}, newer : BOOLEAN, fterm : Nat]
BeatCall ==
  {NoCall} \cup [st : {"sent"}, to : Server, req : BeatReq]
           \cup [st : {"refused"}, fterm : Nat]

NoElection == [pc |-> "idle"]
Election ==
  {NoElection} \cup [pc : {"ask", "sleep"}, term : Nat, lindex : Nat, lterm : Nat,
                     asked : SUBSET Server, granted : SUBSET Server]

NoThread == [pc |-> "idle", srv |-> Nil, idx |-> 0, need |-> 0, ok |-> FALSE]
ThreadState ==
  [pc : {"idle", "replicate", "wait", "notified", "acked", "failed"},
   srv : Server \cup {Nil}, idx : Nat, need : Nat, ok : BOOLEAN]

LogTerm(log, i) == IF i = 0 THEN 0 ELSE log[i].term
LastTerm(log)   == LogTerm(log, Len(log))

(* SELECT MAX(log_index) FROM logdb WHERE applied = '1' *)
Mut_MaxApplied(log) == Len(log)
MaxApplied(log) == Max({0} \cup {i \in DOMAIN log : log[i].applied})

Others(s) == Server \ {s}
Quorum    == {Q \in SUBSET Server : 2 * Cardinality(Q) > Cardinality(Server)}

IsLeader(s) == node[s].state = "LEADER"

-----------------------------------------------------------------------------
(* What the methods do to the state of one server. *)

(* LogDB::apply_log_records: execute and mark the records up to c *)
ApplyTo(r, c) ==
  LET lo == r.last_applied + 1
      hi == IF c < Len(r.log) THEN c ELSE Len(r.log)
  IN  IF hi < lo THEN r
      ELSE [r EXCEPT
             !.last_applied = hi,
             !.log = [i \in DOMAIN r.log |->
                        IF i \in lo .. hi THEN [r.log[i] EXCEPT !.applied = TRUE]
                                          ELSE r.log[i]],
             !.db = @ \o [k \in 1 .. (hi - lo + 1) |-> r.log[lo + k - 1].sql]]

(* RaftManager::follower, the part about this server's own state *)
Mut_Follower(r, t) ==
  LET applied == MaxApplied(r.log)
  IN  [r EXCEPT !.state = "FOLLOWER",
                !.term = IF t > @ THEN t ELSE @,
                !.votedfor = Nil,
                !.last_applied = applied,
                !.commit = applied]

Follower(r, t) ==
  LET applied == MaxApplied(r.log)
  IN  [r EXCEPT !.state = "FOLLOWER",
                !.term = IF t > @ THEN t ELSE @,
                !.votedfor = IF t > r.term THEN Nil ELSE @,
                !.last_applied = applied,
                !.commit = applied]

(* RaftManager::update_commit *)
UpdateCommit(r, leader_commit, index) ==
  IF leader_commit <= r.commit THEN r.commit
  ELSE IF index < leader_commit THEN index ELSE leader_commit

(* LogDB::delete_log_records(i) and LogDB::insert_log_record at index i *)
StoreRecord(r, i, rec) ==
  [r EXCEPT !.log = Append(SubSeq(@, 1, i - 1),
                           [term |-> rec.term, sql |-> rec.sql, applied |-> FALSE])]

-----------------------------------------------------------------------------
(* The RPC handlers as functions of the callee's state r and the request m.*)
(* Of a request that was answered only what the caller still needs is kept.*)
(* An outcome is the callee's new state, whether follower() was called,    *)
(* whether the call succeeded and the term it reports.                     *)

Outcome(r, down, ok, fterm) == [node |-> r, down |-> down, ok |-> ok, fterm |-> fterm]

(* a request of a term that is over; an answer from a newer term *)
Mut_Outdated(r, m) == FALSE
Outdated(r, m) == m.term < r.term

NewerTerm(fterm, t) == fterm > t

(* ZoneAPI::vote: is the log of this server ahead of the candidate's? *)
Mut_LogIsAhead(log, m) == FALSE
LogIsAhead(log, m) ==
  \/ LastTerm(log) > m.lterm
  \/ LastTerm(log) = m.lterm /\ Len(log) > m.lindex

(* RaftManager::update_votedfor *)
Mut_MayVoteFor(r, cand) == TRUE
MayVoteFor(r, cand) == r.votedfor \in {Nil, cand}

(* ZoneAPI::vote *)
Vote(r, m) ==
  LET down == m.term > r.term
      r1   == IF down THEN Follower(r, m.term) ELSE r
      ok   == ~LogIsAhead(r1.log, m) /\ MayVoteFor(r1, m.cand)
  IN  IF Outdated(r, m) THEN Outcome(r, FALSE, FALSE, r.term)
      ELSE Outcome(IF ok THEN [r1 EXCEPT !.votedfor = m.cand] ELSE r1,
                   down, ok, r.term)

(* ZoneAPI::replicate_log, HEARTBEAT part *)
Heartbeat(r, m) ==
  LET new_commit == UpdateCommit(r, m.commit, Len(r.log))
  IN  ApplyTo([r EXCEPT !.commit = new_commit], new_commit)

(* ZoneAPI::replicate_log, REPLICATE part *)
Mut_PrevMatches(log, m) == m.index - 1 <= Len(log)
PrevMatches(log, m) ==
  /\ m.index - 1 <= Len(log)
  /\ LogTerm(log, m.index - 1) = m.prev_term

HasRecord(log, m) == m.index <= Len(log) /\ log[m.index].term = m.rec.term

InsertRecord(r, m) ==
  LET r1         == StoreRecord(r, m.index, m.rec)
      new_commit == UpdateCommit(r1, m.commit, m.index)
  IN  ApplyTo([r1 EXCEPT !.commit = new_commit], new_commit)

(* ZoneAPI::replicate_log *)
Replicate(r, m) ==
  LET down == m.term > r.term \/ r.state = "CANDIDATE"
      r1   == IF down THEN Follower(r, m.term) ELSE r
  IN  CASE Outdated(r, m)               -> Outcome(r, FALSE, FALSE, r.term)
        [] ~Outdated(r, m) /\ m.kind = "beat" ->
             Outcome(Heartbeat(r1, m), down, TRUE, r.term)
        [] ~Outdated(r, m) /\ m.kind = "log" ->
             IF ~PrevMatches(r1.log, m)   THEN Outcome(r1, down, FALSE, r.term)
             ELSE IF HasRecord(r1.log, m) THEN Outcome(r1, down, TRUE, r.term)
             ELSE Outcome(InsertRecord(r1, m), down, TRUE, r.term)

-----------------------------------------------------------------------------
(* Leadership lost: requests.clear() wakes every waiting thread with       *)
(* result = false, next is cleared and the replica threads are told to     *)
(* stop; an RPC one of them is in stays in flight.                         *)
Waiting(s) == {t \in Thread : thread[t].pc = "wait" /\ thread[t].srv = s
                                /\ t \in {requests[s][i] : i \in Index}}

ClearRequests(s) ==
  /\ requests' = [requests EXCEPT ![s] = [i \in Index |-> "none"]]
  /\ thread' = [t \in Thread |->
                  IF t \in Waiting(s)
                  THEN [thread[t] EXCEPT !.pc = "notified", !.ok = FALSE]
                  ELSE thread[t]]

StepDown(s) ==
  /\ ClearRequests(s)
  /\ next' = [next EXCEPT ![s] = [f \in Server |-> 0]]
  /\ pend' = [pend EXCEPT ![s] = [f \in Server |-> FALSE]]

StepDownIf(down, s) == IF down THEN StepDown(s) ELSE UNCHANGED leaderVars

-----------------------------------------------------------------------------
(* Election: timer_action and request_vote, which block the timer thread.  *)

StartRound(s) ==
  /\ node[s].term < MaxTerm
  /\ node' = [node EXCEPT ![s].state = "CANDIDATE", ![s].term = @ + 1,
                          ![s].votedfor = s]
  /\ elect' = [elect EXCEPT ![s] =
                 [pc |-> "ask", term |-> node[s].term + 1,
                  lindex |-> Len(node[s].log), lterm |-> LastTerm(node[s].log),
                  asked |-> {}, granted |-> {}]]
  /\ UNCHANGED <<callVars, leaderVars, history, counters>>

(* timer_action: no heartbeat for election_timeout *)
ElectionTimeout(s) ==
  /\ node[s].state = "FOLLOWER"
  /\ elect[s].pc = "idle"
  /\ StartRound(s)

(* request_vote, top of the loop after the random wait *)
NextRound(s) ==
  /\ elect[s].pc = "sleep"
  /\ \/ node[s].state = "CANDIDATE" /\ StartRound(s)
     \/ /\ node[s].state # "CANDIDATE"
        /\ elect' = [elect EXCEPT ![s] = NoElection]
        /\ UNCHANGED <<node, callVars, leaderVars, history, counters>>

(* votes2go = num_servers / 2 votes of the others are enough *)
EnoughVotes(granted) == Cardinality(granted) >= Cardinality(Server) \div 2

VoteRequest(s) ==
  [kind |-> "vote", cand |-> s, term |-> node[s].term,
   lindex |-> elect[s].lindex, lterm |-> elect[s].lterm]

(* rpc_request_vote reads the term again, whatever the server is by now *)
CallVote(s, f) ==
  /\ elect[s].pc = "ask" /\ vcall[s].st = "idle"
  /\ f \in Others(s) \ elect[s].asked
  /\ ~EnoughVotes(elect[s].granted)
  /\ vcall' = [vcall EXCEPT ![s] = [st |-> "sent", to |-> f, req |-> VoteRequest(s)]]
  /\ elect' = [elect EXCEPT ![s].asked = @ \cup {f}]
  /\ UNCHANGED <<node, rcall, hcall, late, leaderVars, history, counters>>

RecordVote(ok, f, m) == IF ok THEN votes \cup {<<m.term, f, m.cand>>} ELSE votes

HandleVote(s) ==
  /\ vcall[s].st = "sent"
  /\ LET f == vcall[s].to
         o == Vote(node[f], vcall[s].req)
     IN  /\ node' = [node EXCEPT ![f] = o.node]
         /\ vcall' = [vcall EXCEPT ![s] = IF o.ok THEN [st |-> "granted", to |-> f]
                                          ELSE [st |-> "refused", fterm |-> o.fterm]]
         /\ votes' = RecordVote(o.ok, f, vcall[s].req)
         /\ StepDownIf(o.down, f)
  /\ UNCHANGED <<elect, rcall, hcall, late, elected, counters>>

ReceiveVote(s) ==
  /\ vcall[s].st \in {"granted", "refused"}
  /\ vcall' = [vcall EXCEPT ![s] = NoCall]
  /\ IF vcall[s].st = "granted"
     THEN /\ elect' = [elect EXCEPT ![s].granted = @ \cup {vcall[s].to}]
          /\ UNCHANGED <<node, leaderVars>>
     ELSE IF NewerTerm(vcall[s].fterm, elect[s].term)
     THEN /\ node' = [node EXCEPT ![s] = Follower(@, vcall[s].fterm)]
          /\ elect' = [elect EXCEPT ![s] = NoElection]
          /\ StepDown(s)
     ELSE UNCHANGED <<node, elect, leaderVars>>
  /\ UNCHANGED <<rcall, hcall, late, history, counters>>

(* The caller gives up; the network may keep the request *)
Abandon(call) ==
  /\ call.st # "idle"
  /\ Losses
  /\ \/ UNCHANGED late
     \/ /\ call.st = "sent" /\ Cardinality(late) < MaxLate
        /\ late' = late \cup {[to |-> call.to, req |-> call.req]}

(* rc = -1: error or XMLRPC_TIMEOUT_MS; the vote is not counted *)
TimeoutVote(s) ==
  /\ Abandon(vcall[s])
  /\ vcall' = [vcall EXCEPT ![s] = NoCall]
  /\ UNCHANGED <<node, elect, rcall, hcall, leaderVars, history, counters>>

(* Every server was asked in vain: forget the vote for itself and wait *)
LoseRound(s) ==
  /\ elect[s].pc = "ask" /\ vcall[s].st = "idle"
  /\ elect[s].asked = Others(s) /\ ~EnoughVotes(elect[s].granted)
  /\ IF node[s].state = "CANDIDATE"
     THEN /\ node' = [node EXCEPT ![s].votedfor = Nil]
          /\ elect' = [elect EXCEPT ![s].pc = "sleep"]
     ELSE /\ elect' = [elect EXCEPT ![s] = NoElection]
          /\ UNCHANGED node
  /\ UNCHANGED <<callVars, leaderVars, history, counters>>

(* Threads of a former leadership of s have finished *)
Quiet(s) ==
  /\ \A f \in Server : rcall[s][f].st = "idle" /\ hcall[s][f].st = "idle"
  /\ \A t \in Thread : thread[t].srv # s

(* RaftManager::leader *)
BecomeLeader(s) ==
  /\ elect[s].pc = "ask" /\ vcall[s].st = "idle"
  /\ EnoughVotes(elect[s].granted)
  /\ node[s].state = "CANDIDATE"
  /\ StaleThreads \/ Quiet(s)
  /\ LET index   == Len(node[s].log)
         applied == MaxApplied(node[s].log)
         behind  == applied < index
     IN  /\ node' = [node EXCEPT ![s].state = "LEADER",
                                 ![s].last_applied = applied, ![s].commit = applied]
         /\ next' = [next EXCEPT ![s] = [f \in Server |->
                       IF f = s THEN 0 ELSE IF behind THEN index ELSE index + 1]]
         /\ requests' = [requests EXCEPT ![s] = [i \in Index |-> "none"]]
         /\ thread' = [thread EXCEPT ![s] =
                         IF behind THEN [pc |-> "replicate", srv |-> s, idx |-> index,
                                         need |-> 0, ok |-> FALSE]
                         ELSE @]
  /\ elect' = [elect EXCEPT ![s] = NoElection]
  /\ elected' = elected \cup {<<node[s].term, s>>}
  /\ UNCHANGED <<pend, callVars, votes, counters>>

(* leader() sets up the indexes of the log and returns when this is no     *)
(* longer a candidate                                                      *)
LateMajority(s) ==
  /\ elect[s].pc = "ask" /\ vcall[s].st = "idle"
  /\ EnoughVotes(elect[s].granted)
  /\ node[s].state # "CANDIDATE"
  /\ node' = [node EXCEPT ![s].last_applied = MaxApplied(node[s].log)]
  /\ elect' = [elect EXCEPT ![s] = NoElection]
  /\ UNCHANGED <<callVars, leaderVars, history, counters>>

-----------------------------------------------------------------------------
(* The write path of LogDB. *)

(* _exec_wr: insert_log_record and replicate_allocate *)
Write(w, s) ==
  /\ thread[w].pc = "idle"
  /\ IsLeader(s)
  /\ Len(node[s].log) < MaxLog
  /\ LET i == Len(node[s].log) + 1
     IN  /\ node' = [node EXCEPT ![s].log =
                       Append(@, [term |-> node[s].term, sql |-> w, applied |-> FALSE])]
         /\ requests' = [requests EXCEPT ![s][i] = IF @ = "none" THEN "null" ELSE @]
         /\ thread' = [thread EXCEPT ![w] = [pc |-> "replicate", srv |-> s, idx |-> i,
                                             need |-> 0, ok |-> FALSE]]
  /\ UNCHANGED <<elect, next, pend, callVars, history, counters>>

(* followers whose next index says they hold record i already *)
Replicated(s, i) == {f \in Others(s) : i < next[s][f]}

Mut_ToCommit(s, i) == (Cardinality(Server) \div 2) - Cardinality(Replicated(s, i)) - 1
ToCommit(s, i) == (Cardinality(Server) \div 2) - Cardinality(Replicated(s, i))

(* RaftManager::replicate_log *)
ReplicateLog(t) ==
  LET s == thread[t].srv
      i == thread[t].idx
      done(ok) == thread' = [thread EXCEPT ![t].pc = "notified", ![t].ok = ok]
  IN  /\ thread[t].pc = "replicate"
      /\ \/ /\ ~IsLeader(s)
            /\ done(FALSE)
            /\ requests' = [requests EXCEPT ![s][i] = "none"]
            /\ UNCHANGED <<node, pend>>
         \/ /\ IsLeader(s)
            /\ pend' = [pend EXCEPT ![s] = [f \in Server |->
                          @[f] \/ f \in Others(s) \ Replicated(s, i)]]
            /\ IF ToCommit(s, i) <= 0
               THEN /\ node' = [node EXCEPT ![s].commit = i]
                    /\ done(TRUE)
                    /\ requests' = [requests EXCEPT ![s][i] = "none"]
               ELSE /\ thread' = [thread EXCEPT ![t].pc = "wait", ![t].need = ToCommit(s, i)]
                    /\ requests' = [requests EXCEPT ![s][i] = t]
                    /\ UNCHANGED node
      /\ UNCHANGED <<elect, next, callVars, history, counters>>

(* LogDB::replicate once notified: apply if this is still the leader *)
Finish(t) ==
  /\ thread[t].pc = "notified"
  /\ LET s  == thread[t].srv
         go == thread[t].ok /\ IsLeader(s)
         r  == ApplyTo(node[s], thread[t].idx)
         rc == go /\ r.last_applied >= thread[t].idx
     IN  /\ node' = IF go THEN [node EXCEPT ![s] = r] ELSE node
         /\ thread' = [thread EXCEPT ![t] = [NoThread EXCEPT !.pc =
                         IF t \in Server THEN "idle" ELSE IF rc THEN "acked" ELSE "failed"]]
  /\ UNCHANGED <<elect, next, requests, pend, callVars, history, counters>>

-----------------------------------------------------------------------------
(* Replication threads: RaftReplicaThread::replicate.                      *)

LogRequest(s, f) ==
  LET i == next[s][f]
      log == node[s].log
  IN  [kind |-> "log", term |-> node[s].term, commit |-> node[s].commit, index |-> i,
       rec |-> [term |-> log[i].term, sql |-> log[i].sql], prev_term |-> LogTerm(log, i - 1)]

CallReplicate(s, f) ==
  /\ IsLeader(s) /\ f \in Others(s)
  /\ pend[s][f] /\ rcall[s][f].st = "idle"
  /\ next[s][f] \in DOMAIN node[s].log
  /\ pend' = [pend EXCEPT ![s][f] = FALSE]
  /\ rcall' = [rcall EXCEPT ![s][f] = [st |-> "sent", to |-> f, req |-> LogRequest(s, f)]]
  /\ UNCHANGED <<node, elect, next, requests, thread, vcall, hcall, late, history, counters>>

HandleReplicate(s, f) ==
  /\ rcall[s][f].st = "sent"
  /\ LET o == Replicate(node[f], rcall[s][f].req)
     IN  /\ node' = [node EXCEPT ![f] = o.node]
         /\ rcall' = [rcall EXCEPT ![s][f] =
                        IF o.ok THEN [st |-> "ok"]
                        ELSE [st |-> "fail", newer |-> NewerTerm(o.fterm, @.req.term), fterm |-> o.fterm]]
         /\ StepDownIf(o.down, f)
  /\ UNCHANGED <<elect, vcall, hcall, late, history, counters>>

(* ReplicaRequestMap::add_replica *)
Mut_AddReplica(s, i) ==
  LET t == requests[s][i]
  IN  /\ thread' = IF i \notin Index \/ t \notin Thread THEN thread
                   ELSE [thread EXCEPT ![t].need = @ - 1]
      /\ UNCHANGED <<node, requests>>

AddReplica(s, i) ==
  LET t == requests[s][i]
  IN  IF i \notin Index \/ t \notin Thread THEN UNCHANGED <<node, requests, thread>>
      ELSE IF thread[t].need > 1
      THEN /\ thread' = [thread EXCEPT ![t].need = @ - 1]
           /\ UNCHANGED <<node, requests>>
      ELSE /\ thread' = [thread EXCEPT ![t].need = 0, ![t].pc = "notified", ![t].ok = TRUE]
           /\ requests' = [requests EXCEPT ![s][i] = "none"]
           /\ node' = [node EXCEPT ![s].commit = i]

(* RaftManager::replicate_success: the index is the one next holds now *)
ReplicateSuccess(s, f) ==
  LET i == next[s][f]
  IN  IF IsLeader(s)
      THEN /\ next' = [next EXCEPT ![s][f] = i + 1]
           /\ AddReplica(s, i)
           /\ pend' = [pend EXCEPT ![s][f] =
                         @ \/ /\ Len(node[s].log) > i
                              /\ i + 1 \in Index => requests[s][i + 1] # "null"]
      ELSE UNCHANGED <<node, leaderVars>>

(* RaftManager::replicate_failure *)
ReplicateFailure(s, f) ==
  IF IsLeader(s)
  THEN /\ next' = [next EXCEPT ![s][f] = IF @ > 0 THEN @ - 1 ELSE @]
       /\ pend' = [pend EXCEPT ![s][f] = TRUE]
       /\ UNCHANGED <<node, requests, thread>>
  ELSE UNCHANGED <<node, leaderVars>>

ReceiveReplicate(s, f) ==
  /\ rcall[s][f].st \in {"ok", "fail"}
  /\ rcall' = [rcall EXCEPT ![s][f] = NoCall]
  /\ \/ rcall[s][f].st = "ok" /\ ReplicateSuccess(s, f)
     \/ /\ rcall[s][f].st = "fail" /\ ~rcall[s][f].newer
        /\ ReplicateFailure(s, f)
     \/ /\ rcall[s][f].st = "fail" /\ rcall[s][f].newer
        /\ node' = [node EXCEPT ![s] = Follower(@, rcall[s][f].fterm)]
        /\ StepDown(s)
  /\ UNCHANGED <<elect, vcall, hcall, late, history, counters>>


TimeoutReplicate(s, f) ==
  /\ Abandon(rcall[s][f])
  /\ rcall' = [rcall EXCEPT ![s][f] = NoCall]
  /\ pend' = [pend EXCEPT ![s][f] = @ \/ IsLeader(s)]
  /\ UNCHANGED <<node, elect, vcall, hcall, next, requests, thread, history, counters>>

-----------------------------------------------------------------------------
(* Heartbeat threads: HeartBeatThread::replicate.                          *)

CallHeartbeat(s, f) ==
  /\ IsLeader(s) /\ f \in Others(s)
  /\ beats < MaxBeat
  /\ beats' = beats + 1
  /\ hcall[s][f].st = "idle"
  /\ hcall' = [hcall EXCEPT ![s][f] = [st |-> "sent", to |-> f,
                 req |-> [kind |-> "beat", term |-> node[s].term, commit |-> node[s].commit]]]
  /\ UNCHANGED <<node, elect, leaderVars, vcall, rcall, late, history, crashes>>

HandleHeartbeat(s, f) ==
  /\ hcall[s][f].st = "sent"
  /\ LET o == Replicate(node[f], hcall[s][f].req)
     IN  /\ node' = [node EXCEPT ![f] = o.node]
         /\ hcall' = [hcall EXCEPT ![s][f] =
                        IF ~o.ok /\ NewerTerm(o.fterm, @.req.term)
                        THEN [st |-> "refused", fterm |-> o.fterm]
                        ELSE NoCall]
         /\ StepDownIf(o.down, f)
  /\ UNCHANGED <<elect, vcall, rcall, late, history, counters>>

ReceiveHeartbeat(s, f) ==
  /\ hcall[s][f].st = "refused"
  /\ hcall' = [hcall EXCEPT ![s][f] = NoCall]
  /\ node' = [node EXCEPT ![s] = Follower(@, hcall[s][f].fterm)]
  /\ StepDown(s)
  /\ UNCHANGED <<elect, vcall, rcall, late, history, counters>>

TimeoutHeartbeat(s, f) ==
  /\ Abandon(hcall[s][f])
  /\ hcall' = [hcall EXCEPT ![s][f] = NoCall]
  /\ UNCHANGED <<node, elect, leaderVars, vcall, rcall, history, counters>>

-----------------------------------------------------------------------------
(* A request whose caller left is handled; nobody takes the answer *)
HandleLate(m) ==
  /\ LET o == IF m.req.kind = "vote" THEN Vote(node[m.to], m.req)
                                     ELSE Replicate(node[m.to], m.req)
     IN  /\ node' = [node EXCEPT ![m.to] = o.node]
         /\ votes' = RecordVote(m.req.kind = "vote" /\ o.ok, m.to, m.req)
         /\ StepDownIf(o.down, m.to)
  /\ late' = late \ {m}
  /\ UNCHANGED <<elect, vcall, rcall, hcall, elected, counters>>

(* oned dies and starts again: LogDB and RaftManager constructors.  The    *)
(* threads of the process are gone; a client of a dead thread got no answer*)
Mut_Restarted(r) ==
  [r EXCEPT !.state = "FOLLOWER", !.votedfor = Nil, !.commit = 0,
            !.last_applied = MaxApplied(r.log)]

Restarted(r) ==
  [r EXCEPT !.state = "FOLLOWER", !.commit = 0, !.last_applied = MaxApplied(r.log)]

Crash(s) ==
  /\ crashes < MaxCrash
  /\ crashes' = crashes + 1
  /\ node' = [node EXCEPT ![s] = Restarted(@)]
  /\ elect' = [elect EXCEPT ![s] = NoElection]
  /\ vcall' = [vcall EXCEPT ![s] = NoCall]
  /\ rcall' = [rcall EXCEPT ![s] = [f \in Server |-> NoCall]]
  /\ hcall' = [hcall EXCEPT ![s] = [f \in Server |-> NoCall]]
  /\ next' = [next EXCEPT ![s] = [f \in Server |-> 0]]
  /\ pend' = [pend EXCEPT ![s] = [f \in Server |-> FALSE]]
  /\ requests' = [requests EXCEPT ![s] = [i \in Index |-> "none"]]
  /\ thread' = [t \in Thread |->
                  IF thread[t].srv = s
                  THEN [NoThread EXCEPT !.pc = IF t \in Server THEN "idle" ELSE "failed"]
                  ELSE thread[t]]
  /\ UNCHANGED <<late, history, beats>>

-----------------------------------------------------------------------------
Init ==
  /\ node = [s \in Server |-> [state |-> "FOLLOWER", term |-> 0, votedfor |-> Nil,
                               log |-> <<>>, db |-> <<>>, last_applied |-> 0, commit |-> 0]]
  /\ elect = [s \in Server |-> NoElection]
  /\ vcall = [s \in Server |-> NoCall]
  /\ next = [s \in Server |-> [f \in Server |-> 0]]
  /\ requests = [s \in Server |-> [i \in Index |-> "none"]]
  /\ pend = [s \in Server |-> [f \in Server |-> FALSE]]
  /\ rcall = [s \in Server |-> [f \in Server |-> NoCall]]
  /\ hcall = [s \in Server |-> [f \in Server |-> NoCall]]
  /\ thread = [t \in Thread |-> NoThread]
  /\ late = {} /\ elected = {} /\ votes = {} /\ crashes = 0 /\ beats = 0

ServerNext(s) ==
  \/ ElectionTimeout(s) \/ NextRound(s)
  \/ HandleVote(s) \/ ReceiveVote(s) \/ TimeoutVote(s)
  \/ LoseRound(s) \/ BecomeLeader(s) \/ LateMajority(s)
  \/ Crash(s)
  \/ \E w \in Writer : Write(w, s)

PairNext(s, f) ==
  \/ CallVote(s, f)
  \/ CallReplicate(s, f) \/ HandleReplicate(s, f)
  \/ ReceiveReplicate(s, f) \/ TimeoutReplicate(s, f)
  \/ CallHeartbeat(s, f) \/ HandleHeartbeat(s, f)
  \/ ReceiveHeartbeat(s, f) \/ TimeoutHeartbeat(s, f)

Next ==
  \/ \E s \in Server : ServerNext(s)
  \/ \E s, f \in Server : PairNext(s, f)
  \/ \E t \in Thread : ReplicateLog(t) \/ Finish(t)
  \/ \E m \in late : HandleLate(m)

Spec == Init /\ [][Next]_vars

-----------------------------------------------------------------------------
(* Properties. *)

(* Every variable keeps the shape the code's types give it; in particular  *)
(* every request in flight and every waiting thread is well formed.        *)
TypeOK ==
  /\ node \in [Server -> Node]
  /\ elect \in [Server -> Election]
  /\ vcall \in [Server -> VoteCall]
  /\ next \in [Server -> [Server -> Nat]]
  /\ requests \in [Server -> [Index -> Thread \cup {"none", "null"}]]
  /\ pend \in [Server -> [Server -> BOOLEAN]]
  /\ rcall \in [Server -> [Server -> LogCall]]
  /\ hcall \in [Server -> [Server -> BeatCall]]
  /\ thread \in [Thread -> ThreadState]
  /\ late \subseteq [to : Server, req : VoteReq \cup LogReq \cup BeatReq]
  /\ elected \subseteq Nat \X Server
  /\ votes \subseteq Nat \X Server \X Server
  /\ crashes \in Nat /\ beats \in Nat

(* RaftManager::leader is completed by at most one server in a term, though*)
(* a candidate forgets its own vote when a round fails, a demoted candidate*)
(* goes on asking with the term it has by then, and votes are lost.        *)
ElectionSafety ==
  \A e1, e2 \in elected : e1[1] = e2[1] => e1[2] = e2[2]

(* Server f is bound to candidate c in term t until it enters a newer term *)
BoundTo(f, t, c) ==
  node[f].term > t \/ (node[f].term = t /\ node[f].votedfor = c)

(* A vote ZoneAPI::vote granted binds the voter, and there is one in a term*)
VoteInv ==
  /\ \A v \in votes : v[2] # v[3] /\ BoundTo(v[2], v[1], v[3])
  /\ \A v1, v2 \in votes : v1[1] = v2[1] /\ v1[2] = v2[2] => v1[3] = v2[3]

(* A candidate that is asking has its own vote and counts only votes of the*)
(* term it is in, though rpc_request_vote reads the term again             *)
CandidateInv(s) ==
  /\ elect[s].pc # "ask" => vcall[s].st = "idle"
  /\ vcall[s].st = "sent" => vcall[s].req.cand = s
  /\ vcall[s].st \in {"sent", "granted"} => vcall[s].to # s
  /\ elect[s].pc = "ask" /\ node[s].state = "CANDIDATE" =>
       /\ node[s].votedfor = s
       /\ s \notin elect[s].granted
       /\ \A f \in elect[s].granted : <<node[s].term, f, s>> \in votes
       /\ vcall[s].st = "sent" => vcall[s].req.term = node[s].term
       /\ vcall[s].st = "granted" => <<node[s].term, vcall[s].to, s>> \in votes

(* A leader had a majority, and gives nobody a vote in its own term *)
ElectedInv(e) ==
  /\ BoundTo(e[2], e[1], e[2])
  /\ node[e[2]].term = e[1] => node[e[2]].state # "CANDIDATE"
  /\ \A v \in votes : v[1] = e[1] => v[2] # e[2]
  /\ \E Q \in Quorum : \A f \in Q \ {e[2]} : <<e[1], f, e[2]>> \in votes

LateInv == \A m \in late : m.req.kind = "vote" => m.to # m.req.cand

(* Why a term has one leader: the votes a candidate counted are votes of   *)
(* its term, a voter stays bound to the vote it gave although request_vote *)
(* resets votedfor after a lost round, and a request that arrives after    *)
(* its caller gave up binds its voter all the same.                        *)
ElectionInv ==
  /\ VoteInv /\ LateInv
  /\ \A s \in Server : CandidateInv(s)
  /\ \A e \in elected : ElectedInv(e)

(* Records of two servers with the same index and term are the same, and   *)
(* so is all that precedes them: the previous-record check of              *)
(* ZoneAPI::replicate_log is enough.                                       *)
LogMatching ==
  \A s, f \in Server : \A i \in DOMAIN node[s].log \cap DOMAIN node[f].log :
     node[s].log[i].term = node[f].log[i].term =>
       \A k \in 1 .. i : /\ node[s].log[k].term = node[f].log[k].term
                         /\ node[s].log[k].sql = node[f].log[k].sql

NewestLeader(s) == IsLeader(s) /\ \A e \in elected : e[1] <= node[s].term

Holds(s, w) == \E i \in DOMAIN node[s].log : node[s].log[i].sql = w

(* A write whose exec_wr returned success is in the log of the leader of   *)
(* the newest term, however often leadership has moved since.              *)
AckedDurable ==
  \A w \in Writer : thread[w].pc = "acked" =>
     \A s \in Server : NewestLeader(s) => Holds(s, w)

(* exec_wr returns success only for a record a majority of the servers     *)
(* holds, and a majority holds it ever after (ReplicaRequest.h, class doc).*)
AckedOnMajority ==
  \A w \in Writer : thread[w].pc = "acked" => {s \in Server : Holds(s, w)} \in Quorum

(* Every record at or below the commit index of a server is held by a      *)
(* majority (RaftManager.h: "commit, highest log known to be committed").  *)
CommitOnMajority ==
  \A s \in Server : \A i \in DOMAIN node[s].log : i <= node[s].commit =>
     {f \in Server : i \in DOMAIN node[f].log /\ node[f].log[i].term = node[s].log[i].term
                       /\ node[f].log[i].sql = node[s].log[i].sql} \in Quorum

(* Two servers execute the same SQL in the same order on their databases,  *)
(* whatever they missed, repeated or restarted in between.                 *)
StateMachineSafety ==
  \A s, f \in Server :
     \A k \in DOMAIN node[s].db \cap DOMAIN node[f].db : node[s].db[k] = node[f].db[k]

(* can c still win an election against the logs as they are? *)
Electable(c) ==
  {f \in Server : ~LogIsAhead(node[f].log, [lterm |-> LastTerm(node[c].log),
                                            lindex |-> Len(node[c].log)])} \in Quorum

(* A record one server has applied to its database can no longer be        *)
(* replaced: every server that may still be elected has it.                *)
AppliedIsSafe ==
  \A s, c \in Server : Electable(c) =>
     \A i \in 1 .. MaxApplied(node[s].log) :
        i \in DOMAIN node[c].log /\ node[c].log[i].sql = node[s].log[i].sql

(* While a server leads it only appends to its log: no request of an older *)
(* leader makes ZoneAPI::replicate_log delete or replace a record of it.   *)
LeaderAppendOnly ==
  [][\A s \in Server : IsLeader(s) /\ node'[s].state = "LEADER" =>
       /\ Len(node[s].log) <= Len(node'[s].log)
       /\ \A i \in DOMAIN node[s].log : /\ node'[s].log[i].term = node[s].log[i].term
                                        /\ node'[s].log[i].sql = node[s].log[i].sql]_vars


-----------------------------------------------------------------------------
(* Fairness.  Threads run: a thread in LogDB::replicate goes on, and the   *)
(* replication thread of a follower sends what is pending and retries for  *)
(* ever.  The network is fair-lossy: of the RPCs to a follower infinitely  *)
(* many are handled and infinitely many are answered, if that many are sent*)
LocalFairness ==
  /\ WF_vars(\E t \in Thread : ReplicateLog(t) \/ Finish(t))
  /\ \A f \in Server : /\ WF_vars(\E s \in Server : CallReplicate(s, f))
                       /\ WF_vars(\E s \in Server : ReceiveReplicate(s, f))
                       /\ WF_vars(\E s \in Server : TimeoutReplicate(s, f))

NetworkFairness ==
  \A f \in Server : /\ SF_vars(\E s \in Server : HandleReplicate(s, f))
                   /\ SF_vars(\E s \in Server : ReceiveReplicate(s, f))

FairSpec  == Spec /\ LocalFairness /\ NetworkFairness

(* A DB client that entered LogDB::replicate leaves it: its record reaches *)
(* a majority, or the leader it waits on is deposed and wakes it.          *)
WriterAnswered ==
  \A w \in Writer : thread[w].pc = "wait" ~> thread[w].pc \in {"acked", "failed"}

=============================================================================
