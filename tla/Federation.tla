----------------------------- MODULE Federation -----------------------------
(***************************************************************************)
(* Replication of federated records from the master zone to its slaves,    *)
(* every zone with one server (solo mode): FedReplicaManager, the thread   *)
(* FedReplicaThread of each slave, the handler of one.zone.fedreplicate    *)
(* and the federated part of LogDB.                                        *)
(*                                                                         *)
(* A record is named by its index in the master's log, where log index and *)
(* federated index are the same.  A slave executes a record only when its  *)
(* last federated record is the one before, and otherwise answers what its *)
(* last one is.  The master keeps for every slave the next record to send  *)
(* and the last it takes for stored, both in memory only.                  *)
(*                                                                         *)
(* Calls get lost, time out and are handled after their caller gave up.    *)
(* Master and slaves restart; the database of a slave refuses records, or  *)
(* executes one and does not store it.                                     *)
(***************************************************************************)
EXTENDS Integers, Sequences, FiniteSets

CONSTANTS Zone,         \* the slaves
          Imported,     \* records of the master when the slaves were set up
          Retention,    \* log_retention
          MaxIndex,     \* bound: indexes of the master's log
          MaxLate,      \* bound: requests in the network whose caller gave up
          MaxFault,     \* bound: records a slave executes and does not store
          MaxRefuse,    \* bound: records the database of a slave refuses
          MaxRestart    \* bound: restarts of the master

ASSUME FederationAssumption ==
    /\ Imported \in Nat \ {0}
    /\ Retention \in Nat \ {0}
    /\ MaxIndex \in Nat /\ MaxLate \in Nat
    /\ MaxFault \in Nat /\ MaxRefuse \in Nat /\ MaxRestart \in Nat

VARIABLES log,          \* master: federated records in the table and in fed_log
          next_index,   \* master: index of the next record
          todo,         \* master: writers that did not call replicate yet
          zone,         \* master, per slave: next and last of ZoneServers
          thread,       \* master, per slave: the replication thread
          net,          \* per slave: requests it has not handled
          handler,      \* per slave: the request it has executed and not stored
          fed_log,      \* per slave: federated records in the table and in fed_log
          written,      \* history: all federated records of the master
          executed,     \* history, per slave: its last imported record and those executed since
          faults,       \* history, per slave: records executed and not stored
          refused,      \* history, per slave: records its database refused
          restarts      \* history: restarts of the master

masterVars == <<log, next_index, todo, written>>
slaveVars == <<handler, fed_log, executed, faults, refused>>
vars == <<masterVars, zone, thread, net, slaveVars, restarts>>

-----------------------------------------------------------------------------
(* LogDB: the federated index.                                             *)

None == 0   \* UINT64_MAX; no record has index 0

Highest(S) == CHOOSE i \in S : \A j \in S : j <= i
Lowest(S) == CHOOSE i \in S : \A j \in S : i <= j

LastFederated(S) == IF S = {} THEN None ELSE Highest(S)

Below(S, i) == {j \in S : j < i}
Above(S, i) == {j \in S : j > i}

\* The bug of taking the first record for the one before.
Mut_PreviousFederated(S, i) ==
    IF i \in S /\ Below(S, i) # {} THEN Lowest(Below(S, i)) ELSE None

PreviousFederated(S, i) ==
    IF i \in S /\ Below(S, i) # {} THEN Highest(Below(S, i)) ELSE None

NextFederated(S, i) ==
    IF i \in S /\ Above(S, i) # {} THEN Lowest(Above(S, i)) ELSE None

\* purge_log keeps at least the last log_retention federated records and deletes
\* the oldest; how many it keeps beyond depends on limit_purge.
Purged(S, n) == {i \in S : Cardinality(Above(S, i)) < n}

-----------------------------------------------------------------------------
(* The master.                                                             *)

Request(i, prev, waited) == [index |-> i, prev |-> prev, waited |-> waited]

Waiting == [pc |-> "wait", pending |-> FALSE, retry |-> FALSE, record |-> None,
            answer |-> "none", last |-> None]

\* FedLogDB::exec_wr up to the log record.
Write ==
    /\ next_index <= MaxIndex
    /\ log' = log \cup {next_index}
    /\ written' = written \cup {next_index}
    /\ next_index' = next_index + 1
    /\ todo' = todo + 1
    /\ UNCHANGED <<zone, thread, net, slaveVars, restarts>>

\* A record that is not federated takes an index of the same log.
WriteLocal ==
    /\ next_index <= MaxIndex
    /\ next_index' = next_index + 1
    /\ UNCHANGED <<log, todo, written, zone, thread, net, slaveVars, restarts>>

\* FedLogDB::exec_wr then wakes the threads.
Replicate ==
    /\ todo > 0
    /\ todo' = todo - 1
    /\ thread' = [z \in Zone |-> [thread[z] EXCEPT !.pending = TRUE]]
    /\ UNCHANGED <<log, next_index, written, zone, net, slaveVars, restarts>>

PurgeMaster ==
    /\ Cardinality(log) > Retention
    /\ \E n \in Retention..Cardinality(log) : log' = Purged(log, n)
    /\ UNCHANGED <<next_index, todo, written, zone, thread, net, slaveVars, restarts>>

\* do_replication and get_next_record: nothing to send, an error that is retried,
\* or a record loaded.
GetNextRecord(z) ==
    LET first == IF zone[z].next = None THEN LastFederated(log) ELSE zone[z].next
        i == IF zone[z].last = first THEN NextFederated(log, first) ELSE first
    IN /\ thread[z].pc = "wait" /\ (thread[z].pending \/ thread[z].retry)
       /\ zone' = [zone EXCEPT ![z].next = i]
       /\ thread' = [thread EXCEPT ![z] =
             IF i # None /\ PreviousFederated(log, i) # None
             THEN [@ EXCEPT !.pc = "send", !.pending = FALSE, !.record = i]
             ELSE [@ EXCEPT !.pending = FALSE, !.retry = (i # None)]]
       /\ UNCHANGED <<masterVars, net, slaveVars, restarts>>

\* rpc_replicate_log looks for the record before once more and calls the slave.
Send(z) ==
    /\ thread[z].pc = "send"
    /\ thread' = [thread EXCEPT ![z].pc = "call"]
    /\ net' = [net EXCEPT ![z] = @ \cup
          {Request(thread[z].record, PreviousFederated(log, thread[z].record), TRUE)}]
    /\ UNCHANGED <<masterVars, zone, slaveVars, restarts>>

\* The bug of taking the answer to an earlier call.
Mut_Forgotten(rs) == rs

\* The call fails or times out, and do_replication tries again.  The request is
\* lost, or the slave handles it later.
Forgotten(rs) == {[r EXCEPT !.waited = FALSE] : r \in rs}

NotWaited(rs) == {r \in rs : ~ r.waited}

GiveUp(z) ==
    /\ thread[z].pc = "call"
    /\ thread' = [thread EXCEPT ![z] =
          [Waiting EXCEPT !.pending = thread[z].pending, !.retry = TRUE]]
    /\ \/ net' = [net EXCEPT ![z] = NotWaited(@)]
       \/ /\ Cardinality(Forgotten(net[z])) <= MaxLate
          /\ net' = [net EXCEPT ![z] = Forgotten(@)]
    /\ handler' = [handler EXCEPT ![z] = Forgotten(@)]
    /\ UNCHANGED <<masterVars, zone, fed_log, executed, faults, refused, restarts>>

\* The bug of waiting for the next write to send what is left.
Mut_TakeAnswer(z) ==
    LET t == thread[z]
        last == IF t.answer = "success" THEN zone[z].next ELSE t.last
    IN /\ t.pc = "call" /\ t.answer # "none"
       /\ zone' = [zone EXCEPT ![z] = [next |-> NextFederated(log, last), last |-> last]]
       /\ thread' = [thread EXCEPT ![z] = [Waiting EXCEPT !.pending = t.pending]]
       /\ UNCHANGED <<masterVars, net, slaveVars, restarts>>

\* replicate_success and replicate_failure.
TakeAnswer(z) ==
    LET t == thread[z]
        last == IF t.answer = "success" THEN zone[z].next ELSE t.last
        next == NextFederated(log, last)
    IN /\ t.pc = "call" /\ t.answer # "none"
       /\ zone' = [zone EXCEPT ![z] = [next |-> next, last |-> last]]
       /\ thread' = [thread EXCEPT ![z] =
             [Waiting EXCEPT !.pending = t.pending \/ next # None]]
       /\ UNCHANGED <<masterVars, net, slaveVars, restarts>>

\* The master restarts: update_zones, and threads with nothing pending.
Restart ==
    /\ restarts < MaxRestart
    /\ restarts' = restarts + 1
    /\ todo' = 0
    /\ zone' = [z \in Zone |-> [next |-> LastFederated(log), last |-> None]]
    /\ thread' = [z \in Zone |-> Waiting]
    /\ \/ net' = [z \in Zone |-> NotWaited(net[z])]
       \/ /\ \A z \in Zone : Cardinality(Forgotten(net[z])) <= MaxLate
          /\ net' = [z \in Zone |-> Forgotten(net[z])]
    /\ handler' = [z \in Zone |-> Forgotten(handler[z])]
    /\ UNCHANGED <<log, next_index, written, fed_log, executed, faults, refused>>

-----------------------------------------------------------------------------
(* The slaves.                                                             *)

\* The answer reaches the thread if it still waits for this request.
Answer(z, r, answer, last) ==
    thread' = IF r.waited
              THEN [thread EXCEPT ![z].answer = answer, ![z].last = last] ELSE thread

\* The bug of executing the last record once more.
Mut_Accepts(z, r) ==
    r.prev = LastFederated(fed_log[z]) \/ r.index = LastFederated(fed_log[z])

\* A slave takes the record after its last.
Accepts(z, r) == r.prev = LastFederated(fed_log[z])

\* FedReplicaManager::apply_log_record, under fed_mutex, up to the SQL of the record.
\* An error is answered with the index of the record itself.
Apply(z, r) ==
    /\ r \in net[z] /\ handler[z] = {}
    /\ net' = [net EXCEPT ![z] = @ \ {r}]
    /\ \/ /\ ~ Accepts(z, r)
          /\ Answer(z, r, "failure",
                IF fed_log[z] = {} THEN r.index ELSE LastFederated(fed_log[z]))
          /\ UNCHANGED slaveVars
       \/ /\ Accepts(z, r) /\ refused[z] < MaxRefuse
          /\ refused' = [refused EXCEPT ![z] = @ + 1]
          /\ Answer(z, r, "failure", r.index)
          /\ UNCHANGED <<handler, fed_log, executed, faults>>
       \/ /\ Accepts(z, r)
          /\ executed' = [executed EXCEPT ![z] = Append(@, r.index)]
          /\ handler' = [handler EXCEPT ![z] = {r}]
          /\ UNCHANGED <<thread, fed_log, faults, refused>>
    /\ UNCHANGED <<masterVars, zone, restarts>>

\* _exec_wr then stores the record and does not look at the result, which is an
\* error when the SQL cannot be packed.  An INSERT that fails never comes back:
\* insert calls previous_federated, which waits for the mutex insert holds; the
\* handler stays where it is until the slave is restarted.
Store(z, r) ==
    /\ r \in handler[z]
    /\ handler' = [handler EXCEPT ![z] = {}]
    /\ Answer(z, r, "success", None)
    /\ \/ fed_log' = [fed_log EXCEPT ![z] = @ \cup {r.index}] /\ UNCHANGED faults
       \/ /\ faults[z] < MaxFault
          /\ faults' = [faults EXCEPT ![z] = @ + 1]
          /\ UNCHANGED fed_log
    /\ UNCHANGED <<masterVars, zone, net, executed, refused, restarts>>

PurgeSlave(z) ==
    /\ Cardinality(fed_log[z]) > Retention
    /\ \E n \in Retention..Cardinality(fed_log[z]) :
          fed_log' = [fed_log EXCEPT ![z] = Purged(@, n)]
    /\ UNCHANGED <<masterVars, zone, thread, net, handler, executed, faults, refused, restarts>>

\* The slave restarts while it handles a request; at other times it loses nothing.
RestartSlave(z) ==
    /\ handler[z] # {} /\ faults[z] < MaxFault
    /\ faults' = [faults EXCEPT ![z] = @ + 1]
    /\ handler' = [handler EXCEPT ![z] = {}]
    /\ UNCHANGED <<masterVars, zone, thread, net, fed_log, executed, refused, restarts>>

-----------------------------------------------------------------------------

\* A slave is set up with a copy of the federated records the master had.
Init ==
    /\ log = 1..Imported /\ written = 1..Imported
    /\ next_index = Imported + 1
    /\ todo = 0
    /\ zone = [z \in Zone |-> [next |-> Imported, last |-> None]]
    /\ thread = [z \in Zone |-> Waiting]
    /\ net = [z \in Zone |-> {}]
    /\ handler = [z \in Zone |-> {}]
    /\ \E m \in [Zone -> 1..Imported] :
          /\ fed_log = [z \in Zone |-> 1..m[z]]
          /\ executed = [z \in Zone |-> <<m[z]>>]
    /\ faults = [z \in Zone |-> 0]
    /\ refused = [z \in Zone |-> 0]
    /\ restarts = 0

ThreadStep(z) == GetNextRecord(z) \/ Send(z) \/ GiveUp(z) \/ TakeAnswer(z)

SlaveStep(z) ==
    \/ \E r \in net[z] : Apply(z, r)
    \/ \E r \in handler[z] : Store(z, r)
    \/ PurgeSlave(z) \/ RestartSlave(z)

Next ==
    \/ Write \/ WriteLocal \/ Replicate \/ PurgeMaster \/ Restart
    \/ \E z \in Zone : ThreadStep(z) \/ SlaveStep(z)

Spec == Init /\ [][Next]_vars

\* Writers and threads go on; of the calls made again and again some are handled
\* and some answers arrive in time.  A slave that hangs is restarted some day.
Fairness ==
    /\ WF_vars(Replicate)
    /\ \A z \in Zone :
          /\ WF_vars(GetNextRecord(z)) /\ WF_vars(Send(z)) /\ WF_vars(GiveUp(z))
          /\ SF_vars(\E r \in net[z] : r.waited /\ Apply(z, r))
          /\ WF_vars(RestartSlave(z) \/ \E r \in handler[z] : Store(z, r))
          /\ SF_vars(TakeAnswer(z))

LiveSpec == Spec /\ Fairness

-----------------------------------------------------------------------------
(* Properties.                                                             *)

Requests == [index : Nat, prev : Nat, waited : BOOLEAN]

TypeOK ==
    /\ log \subseteq written /\ written \subseteq 1..(next_index - 1)
    /\ next_index \in Nat /\ todo \in Nat /\ restarts \in Nat
    /\ zone \in [Zone -> [next : Nat, last : Nat]]
    /\ thread \in [Zone -> [pc : {"wait", "send", "call"}, pending : BOOLEAN,
                            retry : BOOLEAN, record : Nat,
                            answer : {"none", "success", "failure"}, last : Nat]]
    /\ net \in [Zone -> SUBSET Requests]
    /\ handler \in [Zone -> SUBSET Requests]
    /\ \A z \in Zone : \A r, s \in net[z] \cup handler[z] : r.waited /\ s.waited => r = s
    /\ fed_log \in [Zone -> SUBSET written]
    /\ executed \in [Zone -> Seq(Nat)]
    /\ faults \in [Zone -> Nat] /\ refused \in [Zone -> Nat]

Follows(i, j) == i < j /\ j \in written /\ \A k \in written : k <= i \/ j <= k

\* A slave executes the federated SQL of the master in the order of its log and
\* leaves nothing out, whatever is lost, late, retried, purged or restarted; it
\* may execute a record again, but only before the next one.
InOrder ==
    \A z \in Zone : \A k \in 1..(Len(executed[z]) - 1) :
        \/ executed[z][k + 1] = executed[z][k]
        \/ Follows(executed[z][k], executed[z][k + 1])

\* A record is executed again only after it could not be stored: a request
\* that is sent again, or handled late, does not execute its SQL twice.
ExecutedOnce ==
    \A z \in Zone :
        Cardinality({k \in 1..(Len(executed[z]) - 1) : executed[z][k + 1] = executed[z][k]})
            <= faults[z]

\* The purge of the master has reached the slave: its last record, the one the
\* master takes for its last, or the one before the record to send is gone.
Outdated(z) ==
    \/ LastFederated(fed_log[z]) \notin log
    \/ zone[z].last \notin log \cup {None}
    \/ zone[z].next # None /\ PreviousFederated(log, zone[z].next) = None

\* Once its thread is woken a slave gets to the end of the master's log, unless
\* the purge has reached it or the master restarts, which forgets what was pending.
\* A last record its database did not take is sent again only with the next one.
SlavesCatchUp ==
    \A z \in Zone, n \in 0..MaxRestart :
        (thread[z].pending /\ restarts = n)
        ~> \/ restarts > n
           \/ Outdated(z)
           \/ LastFederated(fed_log[z]) = LastFederated(log)
           \/ zone[z].last = LastFederated(log) /\ refused[z] + faults[z] > 0
=============================================================================
