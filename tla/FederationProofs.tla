-------------------------- MODULE FederationProofs --------------------------
(***************************************************************************)
(* Slaves execute the records of the master in the order of its log, for   *)
(* any number of slaves, any retention, and any losses, delays, restarts   *)
(* and failures of their databases.                                        *)
(***************************************************************************)
EXTENDS Federation, FiniteSetTheorems, TLAPS

\* Of the numbers of S below i, if any, one is the highest.
Chain(S) ==
    \A i \in Nat : Below(S, i) # {} =>
        \E m \in Below(S, i) : \A k \in Below(S, i) : k <= m

IsLast(S, m) == m \in S /\ \A k \in S : k <= m

\* The master's log is the upper end of all it has written.
LogInv ==
    /\ next_index \in Nat \ {0}
    /\ written \subseteq Nat /\ \A i \in written : 0 < i /\ i < next_index
    /\ log \subseteq written /\ IsFiniteSet(log) /\ Chain(log)
    /\ \A i \in log, j \in written : i < j => j \in log

\* A request carries a record and the one before it, or none.
Sound(r) ==
    /\ {"index", "prev"} \subseteq DOMAIN r
    /\ r.prev \in Nat
    /\ r.prev = None \/ Follows(r.prev, r.index)

RequestInv ==
    /\ DOMAIN net = Zone /\ DOMAIN handler = Zone
    /\ \A z \in Zone : \A r \in net[z] \cup handler[z] : Sound(r)

Newest(z) == executed[z][Len(executed[z])]

\* What slave z has executed last is the last record it has stored or the next.
SlaveInv(z) ==
    /\ fed_log[z] \subseteq Nat \ {0} /\ IsFiniteSet(fed_log[z])
    /\ executed[z] \in Seq(Nat) /\ Len(executed[z]) > 0
    /\ \E m \in fed_log[z] :
          /\ IsLast(fed_log[z], m)
          /\ \/ handler[z] = {} /\ Newest(z) = m
             \/ handler[z] = {} /\ Follows(m, Newest(z))
             \/ \E r : handler[z] = {r} /\ r.index = Newest(z) /\ Follows(m, Newest(z))
    /\ \A k \in 1..(Len(executed[z]) - 1) :
          \/ executed[z][k + 1] = executed[z][k]
          \/ Follows(executed[z][k], executed[z][k + 1])

\* The inductive invariant.
OrderInv ==
    /\ LogInv
    /\ RequestInv
    /\ DOMAIN fed_log = Zone /\ DOMAIN executed = Zone
    /\ \A z \in Zone : SlaveInv(z)

-----------------------------------------------------------------------------
(* The federated index.                                                    *)

LEMMA HighestIsLast ==
    ASSUME NEW S, S \subseteq Nat, NEW m, IsLast(S, m)
    PROVE  LastFederated(S) = m
<1>1. Highest(S) = m
  <2>1. Highest(S) \in S /\ \A j \in S : j <= Highest(S)
    BY DEF Highest, IsLast
  <2>2. m \in S /\ m \in Nat /\ Highest(S) \in Nat
    BY <2>1 DEF IsLast
  <2>3. m <= Highest(S) /\ Highest(S) <= m
    BY <2>1, <2>2 DEF IsLast
  <2> QED BY <2>2, <2>3
<1> QED BY <1>1 DEF LastFederated, IsLast

\* What previous_federated returns for a record of the log is the record before,
\* of all the master has written.
LEMMA PreviousFollows ==
    ASSUME LogInv, NEW i
    PROVE  /\ PreviousFederated(log, i) \in Nat
           /\ \/ PreviousFederated(log, i) = None
              \/ Follows(PreviousFederated(log, i), i)
<1>1. CASE i \in log /\ Below(log, i) # {}
  <2> DEFINE p == Highest(Below(log, i))
  <2>1. i \in Nat /\ log \subseteq Nat
    BY <1>1 DEF LogInv
  <2>2. p \in Below(log, i) /\ \A k \in Below(log, i) : k <= p
    <3>1. PICK m \in Below(log, i) : \A k \in Below(log, i) : k <= m
      BY <1>1, <2>1 DEF LogInv, Chain
    <3> QED BY <3>1 DEF Highest
  <2> HIDE DEF p
  <2>3. p \in log /\ p \in Nat /\ p < i
    BY <2>1, <2>2 DEF Below
  <2>4. ASSUME NEW k \in written PROVE k <= p \/ i <= k
    <3>1. k \in Nat
      BY DEF LogInv
    <3>2. CASE p < k /\ k < i
      <4>1. k \in log
        BY <2>3, <3>2 DEF LogInv
      <4>2. k \in Below(log, i)
        BY <4>1, <3>2 DEF Below
      <4> QED BY <4>2, <2>2
    <3> QED BY <3>1, <3>2, <2>1, <2>3
  <2>5. Follows(p, i)
    BY <1>1, <2>3, <2>4 DEF Follows, LogInv
  <2>6. PreviousFederated(log, i) = p
    BY <1>1 DEF PreviousFederated, p
  <2> QED BY <2>3, <2>5, <2>6
<1>2. CASE ~ (i \in log /\ Below(log, i) # {})
  BY <1>2 DEF PreviousFederated, None
<1> QED BY <1>1, <1>2

\* A purge keeps the last record and with a record all that follow it.
LEMMA PurgedIsEnd ==
    ASSUME NEW S, S \subseteq Nat, IsFiniteSet(S), NEW n \in Nat \ {0}
    PROVE  /\ Purged(S, n) \subseteq S /\ IsFiniteSet(Purged(S, n))
           /\ \A m : IsLast(S, m) => IsLast(Purged(S, n), m)
           /\ \A i \in Purged(S, n), j \in S : i < j => j \in Purged(S, n)
<1>1. Purged(S, n) \subseteq S
  BY DEF Purged
<1>2. IsFiniteSet(Purged(S, n))
  BY <1>1, FS_Subset
<1>3. ASSUME NEW m, IsLast(S, m) PROVE IsLast(Purged(S, n), m)
  <2>1. Above(S, m) = {}
    <3>1. \A k \in S : k \in Nat /\ m \in Nat /\ ~ (k > m)
      BY <1>3 DEF IsLast
    <3> QED BY <3>1 DEF Above
  <2>2. Cardinality(Above(S, m)) = 0
    BY <2>1, FS_EmptySet
  <2>3. m \in Purged(S, n)
    BY <2>2, <1>3 DEF Purged, IsLast
  <2> QED BY <2>3, <1>1, <1>3 DEF IsLast
<1>4. ASSUME NEW i \in Purged(S, n), NEW j \in S, i < j PROVE j \in Purged(S, n)
  <2>1. Above(S, i) \subseteq S /\ Above(S, j) \subseteq Above(S, i)
    <3>1. i \in Nat /\ j \in Nat /\ \A k \in S : k \in Nat
      BY <1>1
    <3>2. \A k \in S : k > j => k > i
      BY <3>1, <1>4
    <3> QED BY <3>2 DEF Above
  <2>2. IsFiniteSet(Above(S, i)) /\ IsFiniteSet(Above(S, j))
    BY <2>1, FS_Subset
  <2>3. Cardinality(Above(S, j)) <= Cardinality(Above(S, i))
    BY <2>1, <2>2, FS_Subset
  <2>4. Cardinality(Above(S, i)) < n
    BY DEF Purged
  <2>5. Cardinality(Above(S, i)) \in Nat /\ Cardinality(Above(S, j)) \in Nat
    BY <2>2, FS_CardinalityType
  <2>6. Cardinality(Above(S, j)) < n
    BY <2>3, <2>4, <2>5
  <2> QED BY <2>6 DEF Purged
<1> QED BY <1>1, <1>2, <1>3, <1>4

-----------------------------------------------------------------------------
(* The master's log.                                                       *)

\* A record and the one after it stay neighbours when records are written.
LEMMA FollowsKept ==
    ASSUME LogInv, written' = written \/ written' = written \cup {next_index}
    PROVE  \A i, j : i \in Nat /\ Follows(i, j) => Follows(i, j)'
<1> SUFFICES ASSUME NEW i \in Nat, NEW j, Follows(i, j) PROVE Follows(i, j)'
  OBVIOUS
<1>1. i < j /\ j \in written /\ \A k \in written : k <= i \/ j <= k
  BY DEF Follows
<1>2. j \in Nat /\ j < next_index /\ next_index \in Nat
  <2>1. written \subseteq Nat /\ next_index \in Nat /\ \A k \in written : k < next_index
    BY DEF LogInv
  <2> QED BY <1>1, <2>1
<1>3. ASSUME NEW k \in written' PROVE k <= i \/ j <= k
  <2>1. CASE k \in written
    BY <1>1, <2>1
  <2>2. CASE k = next_index
    BY <1>2, <2>2
  <2> QED BY <2>1, <2>2
<1> QED BY <1>1, <1>3 DEF Follows

LEMMA LogStep ==
    ASSUME LogInv, [Next]_vars
    PROVE  LogInv' /\ (written' = written \/ written' = written \cup {next_index})
<1>1. CASE Write
  <2>1. /\ next_index \in Nat \ {0} /\ next_index' = next_index + 1
        /\ log' = log \cup {next_index} /\ written' = written \cup {next_index}
    BY <1>1 DEF Write, LogInv
  <2>2. written' \subseteq Nat /\ \A i \in written' : 0 < i /\ i < next_index'
    BY <2>1 DEF LogInv
  <2>3. log' \subseteq written' /\ IsFiniteSet(log')
    BY <2>1, FS_AddElement DEF LogInv
  <2>4. Chain(log')
    <3> SUFFICES ASSUME NEW i \in Nat, Below(log', i) # {}
                 PROVE  \E m \in Below(log', i) : \A k \in Below(log', i) : k <= m
      BY DEF Chain
    <3>1. \A k \in log : k \in Nat /\ k < next_index
      BY DEF LogInv
    <3>2. CASE next_index < i
      <4>1. next_index \in Below(log', i)
        BY <2>1, <3>2 DEF Below
      <4>2. \A k \in Below(log', i) : k <= next_index
        BY <2>1, <3>1 DEF Below
      <4> QED BY <4>1, <4>2
    <3>3. CASE ~ (next_index < i)
      <4>1. Below(log', i) = Below(log, i)
        BY <2>1, <3>3 DEF Below
      <4> QED BY <4>1 DEF LogInv, Chain
    <3> QED BY <3>2, <3>3
  <2>5. \A i \in log', j \in written' : i < j => j \in log'
    <3>1. \A j \in written : j \in Nat /\ j < next_index
      BY DEF LogInv
    <3> QED BY <2>1, <3>1 DEF LogInv
  <2> QED BY <2>1, <2>2, <2>3, <2>4, <2>5 DEF LogInv
<1>2. CASE WriteLocal
  <2>1. /\ next_index \in Nat \ {0} /\ next_index' = next_index + 1
        /\ log' = log /\ written' = written
    BY <1>2 DEF WriteLocal, LogInv
  <2>2. \A i \in written : 0 < i /\ i < next_index'
    BY <2>1 DEF LogInv
  <2> QED BY <2>1, <2>2 DEF LogInv, Chain
<1>3. CASE PurgeMaster
  <2>1. log \subseteq Nat /\ IsFiniteSet(log)
    BY DEF LogInv
  <2>2. PICK n \in Nat \ {0} : log' = Purged(log, n)
    <3>1. \A n \in Retention..Cardinality(log) : n \in Nat \ {0}
      BY <2>1, FS_CardinalityType, FederationAssumption
    <3> QED BY <1>3, <3>1 DEF PurgeMaster
  <2>3. /\ log' \subseteq log /\ IsFiniteSet(log')
        /\ \A i \in log', j \in log : i < j => j \in log'
    BY <2>1, <2>2, PurgedIsEnd
  <2>4. Chain(log')
    <3> SUFFICES ASSUME NEW i \in Nat, Below(log', i) # {}
                 PROVE  \E m \in Below(log', i) : \A k \in Below(log', i) : k <= m
      BY DEF Chain
    <3>1. Below(log', i) \subseteq Below(log, i)
      BY <2>3 DEF Below
    <3>2. PICK m \in Below(log, i) : \A k \in Below(log, i) : k <= m
      BY <3>1 DEF LogInv, Chain
    <3>3. PICK k \in Below(log', i) : k \in Nat /\ k <= m /\ m \in Nat
      BY <2>1, <2>3, <3>1, <3>2 DEF Below
    <3>4. m \in Below(log', i)
      <4>1. CASE k = m
        BY <4>1
      <4>2. CASE k < m
        BY <4>2, <2>3, <3>2, <3>3 DEF Below
      <4> QED BY <3>3, <4>1, <4>2
    <3> QED BY <3>1, <3>2, <3>4
  <2>5. next_index' = next_index /\ written' = written
    BY <1>3 DEF PurgeMaster
  <2> QED BY <2>3, <2>4, <2>5 DEF LogInv
<1>4. CASE UNCHANGED <<log, next_index, written>>
  BY <1>4 DEF LogInv, Chain
<1>5. CASE Replicate \/ Restart
  BY <1>4, <1>5 DEF Replicate, Restart
<1>6. CASE \E z \in Zone : ThreadStep(z)
  <2>1. UNCHANGED masterVars
    BY <1>6 DEF ThreadStep, GetNextRecord, Send, GiveUp, TakeAnswer
  <2> QED BY <1>4, <2>1 DEF masterVars
<1>7. CASE \E z \in Zone : SlaveStep(z)
  <2>1. UNCHANGED masterVars
    BY <1>7 DEF SlaveStep, Apply, Store, PurgeSlave, RestartSlave
  <2> QED BY <1>4, <2>1 DEF masterVars
<1>8. CASE UNCHANGED vars
  BY <1>4, <1>8 DEF vars, masterVars
<1> QED BY <1>1, <1>2, <1>3, <1>5, <1>6, <1>7, <1>8 DEF Next

-----------------------------------------------------------------------------
(* Requests.                                                               *)

LEMMA SoundKept ==
    ASSUME LogInv, written' = written \/ written' = written \cup {next_index}
    PROVE  \A r : Sound(r) => Sound(r)'
BY FollowsKept DEF Sound

LEMMA ForgottenSound ==
    ASSUME NEW rs, \A r \in rs : Sound(r)
    PROVE  \A r \in Forgotten(rs) \cup NotWaited(rs) : Sound(r)
<1>1. ASSUME NEW r \in rs PROVE Sound([r EXCEPT !.waited = FALSE])
  <2> DEFINE q == [r EXCEPT !.waited = FALSE]
  <2>1. DOMAIN q = DOMAIN r /\ q.index = r.index /\ q.prev = r.prev
    BY DEF Sound
  <2> HIDE DEF q
  <2>2. Sound(q)
    BY <2>1 DEF Sound
  <2> QED BY <2>2 DEF q
<1> QED BY <1>1 DEF Forgotten, NotWaited

LEMMA RequestStep ==
    ASSUME LogInv, RequestInv, [Next]_vars
    PROVE  RequestInv'
<1> DEFINE Kept == /\ DOMAIN net' = Zone /\ DOMAIN handler' = Zone
                   /\ \A z \in Zone : \A r \in net'[z] \cup handler'[z] : Sound(r)
<1>1. SUFFICES Kept
  BY LogStep, SoundKept DEF RequestInv
<1>2. CASE UNCHANGED <<net, handler>>
  BY <1>2 DEF RequestInv
<1>3. CASE Restart
  <2>1. ASSUME NEW z \in Zone
        PROVE  /\ net'[z] \cup handler'[z]
                     \subseteq Forgotten(net[z]) \cup NotWaited(net[z]) \cup Forgotten(handler[z])
    BY <1>3 DEF Restart
  <2>2. DOMAIN net' = Zone /\ DOMAIN handler' = Zone
    BY <1>3 DEF Restart
  <2> QED BY <2>1, <2>2, ForgottenSound DEF RequestInv
<1>4. ASSUME NEW z \in Zone, Send(z) PROVE Kept
  <2> DEFINE q == Request(thread[z].record, PreviousFederated(log, thread[z].record), TRUE)
  <2>1. Sound(q)
    <3>1. q.index = thread[z].record /\ q.prev = PreviousFederated(log, thread[z].record)
          /\ {"index", "prev"} \subseteq DOMAIN q
      BY DEF Request
    <3> QED BY <3>1, PreviousFollows DEF Sound
  <2>2. net' = [net EXCEPT ![z] = @ \cup {q}] /\ handler' = handler
    BY <1>4 DEF Send, slaveVars
  <2> HIDE DEF q
  <2> QED BY <2>1, <2>2 DEF RequestInv
<1>5. ASSUME NEW z \in Zone, GiveUp(z) PROVE Kept
  <2>1. /\ DOMAIN net' = Zone /\ DOMAIN handler' = Zone
        /\ net'[z] \subseteq Forgotten(net[z]) \cup NotWaited(net[z])
        /\ handler'[z] = Forgotten(handler[z])
        /\ \A y \in Zone \ {z} : net'[y] = net[y] /\ handler'[y] = handler[y]
    BY <1>5 DEF GiveUp, RequestInv
  <2> QED BY <2>1, ForgottenSound DEF RequestInv
<1>6. ASSUME NEW z \in Zone, NEW r \in net[z], Apply(z, r) PROVE Kept
  <2>1. /\ net' = [net EXCEPT ![z] = @ \ {r}]
        /\ handler' = handler \/ handler' = [handler EXCEPT ![z] = {r}]
    BY <1>6 DEF Apply, slaveVars
  <2> QED BY <2>1 DEF RequestInv
<1>7. ASSUME NEW z \in Zone, net' = net, handler' = [handler EXCEPT ![z] = {}] PROVE Kept
  BY <1>7 DEF RequestInv
<1>8. CASE Write \/ WriteLocal \/ Replicate \/ PurgeMaster
  BY <1>2, <1>8 DEF Write, WriteLocal, Replicate, PurgeMaster, slaveVars
<1>9. ASSUME NEW z \in Zone, ThreadStep(z) PROVE Kept
  <2>1. CASE GetNextRecord(z) \/ TakeAnswer(z)
    BY <1>2, <2>1 DEF GetNextRecord, TakeAnswer, slaveVars
  <2> QED BY <1>4, <1>5, <1>9, <2>1 DEF ThreadStep
<1>10. ASSUME NEW z \in Zone, SlaveStep(z) PROVE Kept
  <2>1. CASE PurgeSlave(z)
    BY <1>2, <2>1 DEF PurgeSlave
  <2>2. CASE RestartSlave(z)
    BY <1>7, <2>2 DEF RestartSlave
  <2>3. CASE \E r \in handler[z] : Store(z, r)
    BY <1>7, <2>3 DEF Store
  <2> QED BY <1>6, <1>10, <2>1, <2>2, <2>3 DEF SlaveStep
<1>11. CASE UNCHANGED vars
  BY <1>2, <1>11 DEF vars, slaveVars
<1> HIDE DEF Kept
<1> QED BY <1>3, <1>8, <1>9, <1>10, <1>11 DEF Next

-----------------------------------------------------------------------------
(* Slaves.                                                                 *)

\* A step in which slave z neither executes nor stores a record.
LEMMA SlaveKept ==
    ASSUME LogInv, written' = written \/ written' = written \cup {next_index}, RequestInv,
           NEW z \in Zone, SlaveInv(z), executed'[z] = executed[z],
           fed_log'[z] \subseteq fed_log[z],
           \A m : IsLast(fed_log[z], m) => IsLast(fed_log'[z], m),
           handler'[z] \in {handler[z], Forgotten(handler[z]), {}}
    PROVE  SlaveInv(z)'
<1>1. fed_log'[z] \subseteq Nat \ {0} /\ IsFiniteSet(fed_log'[z])
  BY FS_Subset DEF SlaveInv
<1>2. executed'[z] \in Seq(Nat) /\ Len(executed'[z]) > 0 /\ Newest(z)' = Newest(z)
  BY DEF SlaveInv, Newest
<1>3. ASSUME NEW k \in 1..(Len(executed'[z]) - 1)
      PROVE  (executed[z][k + 1] = executed[z][k] \/ Follows(executed[z][k], executed[z][k + 1]))'
  <2>1. executed[z][k] \in Nat
    BY <1>2
  <2>2. executed[z][k + 1] = executed[z][k] \/ Follows(executed[z][k], executed[z][k + 1])
    BY DEF SlaveInv
  <2> QED BY <2>1, <2>2, FollowsKept DEF Follows
<1>4. PICK m \in fed_log[z] :
          /\ IsLast(fed_log[z], m)
          /\ \/ handler[z] = {} /\ Newest(z) = m
             \/ handler[z] = {} /\ Follows(m, Newest(z))
             \/ \E r : handler[z] = {r} /\ r.index = Newest(z) /\ Follows(m, Newest(z))
  BY DEF SlaveInv
<1>5. m \in fed_log'[z] /\ IsLast(fed_log'[z], m)
  BY <1>4 DEF IsLast
<1>6. Follows(m, Newest(z)) => Follows(m, Newest(z))'
  <2>1. m \in Nat
    BY <1>1, <1>5
  <2>2. \A j : Follows(m, j) => Follows(m, j)'
    BY <2>1, FollowsKept
  <2> QED BY <1>2, <2>2 DEF Follows
<1>7. CASE handler[z] = {}
  <2>1. handler'[z] = {}
    BY <1>7 DEF Forgotten
  <2> QED BY <1>1, <1>2, <1>3, <1>4, <1>5, <1>6, <1>7, <2>1 DEF SlaveInv
<1>8. ASSUME NEW r, handler[z] = {r}, r.index = Newest(z), Follows(m, Newest(z))
      PROVE  SlaveInv(z)'
  <2> DEFINE q == [r EXCEPT !.waited = FALSE]
  <2>1. q.index = r.index
    BY <1>8 DEF RequestInv, Sound
  <2>2. Forgotten(handler[z]) = {q}
    BY <1>8 DEF Forgotten
  <2> HIDE DEF q
  <2>3. handler'[z] \in {{r}, {q}, {}}
    BY <1>8, <2>2
  <2>4. \/ handler'[z] = {}
        \/ \E x : handler'[z] = {x} /\ x.index = Newest(z)
    BY <1>8, <2>1, <2>3
  <2> QED BY <1>1, <1>2, <1>3, <1>5, <1>6, <1>8, <2>4 DEF SlaveInv
<1> QED BY <1>4, <1>7, <1>8

\* The record slave z accepts is the one after its last.
LEMMA AcceptedIsNext ==
    ASSUME LogInv, RequestInv, NEW z \in Zone, SlaveInv(z), NEW r \in net[z], Accepts(z, r),
           NEW m, IsLast(fed_log[z], m)
    PROVE  Follows(m, r.index) /\ r.index \in Nat /\ m \in Nat
<1>1. fed_log[z] \subseteq Nat \ {0}
  BY DEF SlaveInv
<1>2. r.prev = m /\ m \in Nat \ {0}
  BY <1>1, HighestIsLast DEF Accepts, IsLast
<1>3. Follows(m, r.index)
  BY <1>2 DEF RequestInv, Sound, None
<1>4. r.index \in written /\ written \subseteq Nat
  BY <1>3 DEF Follows, LogInv
<1> QED BY <1>2, <1>3, <1>4

\* The record slave z has executed and stores becomes its last.
LEMMA StoredIsLast ==
    ASSUME LogInv, NEW z \in Zone, SlaveInv(z), NEW r \in handler[z]
    PROVE  /\ r.index = Newest(z) /\ r.index \in Nat \ {0}
           /\ IsLast(fed_log[z] \cup {r.index}, r.index)
<1>1. PICK m \in fed_log[z] : /\ IsLast(fed_log[z], m) /\ r.index = Newest(z)
                              /\ Follows(m, Newest(z))
  BY DEF SlaveInv
<1>2. r.index \in Nat \ {0}
  <2>1. r.index \in written
    BY <1>1 DEF Follows
  <2>2. \A i \in written : i \in Nat /\ 0 < i
    BY DEF LogInv
  <2> QED BY <2>1, <2>2
<1>3. \A k \in fed_log[z] : k \in Nat /\ k <= m
  BY <1>1 DEF SlaveInv, IsLast
<1>4. m \in Nat /\ m < r.index
  BY <1>1, <1>3 DEF Follows
<1> QED BY <1>1, <1>2, <1>3, <1>4 DEF IsLast

\* Slave z executes record r: the one it executed last, or the next.
LEMMA SlaveExecutes ==
    ASSUME LogInv, RequestInv, written' = written,
           NEW z \in Zone, SlaveInv(z), NEW r \in net[z], handler[z] = {}, Accepts(z, r),
           executed'[z] = Append(executed[z], r.index),
           handler'[z] = {r}, fed_log'[z] = fed_log[z]
    PROVE  SlaveInv(z)'
<1> DEFINE e == Newest(z)
<1>1. executed[z] \in Seq(Nat) /\ Len(executed[z]) > 0 /\ fed_log[z] \subseteq Nat \ {0}
  BY DEF SlaveInv
<1>2. PICK m \in fed_log[z] : IsLast(fed_log[z], m) /\ (e = m \/ Follows(m, e))
  BY DEF SlaveInv
<1>4. Follows(m, r.index) /\ r.index \in Nat /\ m \in Nat
  BY <1>2, AcceptedIsNext
<1>6. r.index = e \/ Follows(e, r.index)
  <2>1. CASE e = m
    BY <1>4, <2>1
  <2>2. CASE Follows(m, e)
    <3>1. e \in Nat
      BY <1>1 DEF Newest
    <3>2. /\ e \in written /\ m < e /\ (r.index <= m \/ e <= r.index)
          /\ r.index \in written /\ m < r.index /\ (e <= m \/ r.index <= e)
      BY <1>4, <2>2 DEF Follows
    <3> QED BY <1>4, <3>1, <3>2
  <2> QED BY <1>2, <2>1, <2>2
<1> HIDE DEF e
<1>7. /\ executed'[z] \in Seq(Nat) /\ Len(executed'[z]) = Len(executed[z]) + 1
      /\ Len(executed'[z]) > 0 /\ Newest(z)' = r.index
  BY <1>1, <1>4 DEF Newest
<1>8. ASSUME NEW k \in 1..(Len(executed'[z]) - 1)
      PROVE  executed'[z][k + 1] = executed'[z][k] \/ Follows(executed'[z][k], executed'[z][k + 1])
  <2>1. CASE k = Len(executed[z])
    BY <1>1, <1>4, <1>6, <1>7, <2>1 DEF Newest, e
  <2>2. CASE k # Len(executed[z])
    <3>1. k \in 1..(Len(executed[z]) - 1) /\ executed'[z][k] = executed[z][k]
          /\ executed'[z][k + 1] = executed[z][k + 1]
      BY <1>1, <1>4, <1>7, <2>2
    <3> QED BY <3>1 DEF SlaveInv
  <2> QED BY <2>1, <2>2
<1>9. \A i, j : Follows(i, j) <=> Follows(i, j)'
  BY DEF Follows
<1>10. fed_log'[z] \subseteq Nat \ {0} /\ IsFiniteSet(fed_log'[z])
  BY DEF SlaveInv
<1> QED BY <1>2, <1>4, <1>7, <1>8, <1>9, <1>10 DEF SlaveInv

\* Slave z stores the record it has executed.
LEMMA SlaveStores ==
    ASSUME LogInv, written' = written,
           NEW z \in Zone, SlaveInv(z), NEW r \in handler[z],
           executed'[z] = executed[z], handler'[z] = {},
           fed_log'[z] = fed_log[z] \cup {r.index}
    PROVE  SlaveInv(z)'
<1>1. r.index = Newest(z) /\ r.index \in Nat \ {0} /\ IsLast(fed_log'[z], r.index)
  BY StoredIsLast
<1>3. fed_log'[z] \subseteq Nat \ {0} /\ IsFiniteSet(fed_log'[z])
  <2>1. fed_log[z] \subseteq Nat \ {0} /\ IsFiniteSet(fed_log[z])
    BY DEF SlaveInv
  <2> QED BY <1>1, <2>1, FS_AddElement
<1>5. \A i, j : Follows(i, j) <=> Follows(i, j)'
  BY DEF Follows
<1>6. Newest(z)' = r.index
  BY <1>1 DEF Newest
<1>7. r.index \in fed_log'[z]
  OBVIOUS
<1>8. /\ executed'[z] \in Seq(Nat) /\ Len(executed'[z]) > 0
      /\ \A k \in 1..(Len(executed'[z]) - 1) :
            (executed[z][k + 1] = executed[z][k] \/ Follows(executed[z][k], executed[z][k + 1]))'
  BY <1>5 DEF SlaveInv
<1> QED BY <1>1, <1>3, <1>6, <1>7, <1>8 DEF SlaveInv

LEMMA SlaveStepKeeps ==
    ASSUME OrderInv, [Next]_vars
    PROVE  /\ DOMAIN fed_log' = Zone /\ DOMAIN executed' = Zone
           /\ \A z \in Zone : SlaveInv(z)'
<1> DEFINE Kept == /\ DOMAIN fed_log' = Zone /\ DOMAIN executed' = Zone
                   /\ \A z \in Zone : SlaveInv(z)'
<1> SUFFICES Kept
  OBVIOUS
<1> USE DEF OrderInv
<1>1. written' = written \/ written' = written \cup {next_index}
  BY LogStep
<1>2. ASSUME NEW z \in Zone, executed'[z] = executed[z], fed_log'[z] = fed_log[z],
             handler'[z] \in {handler[z], Forgotten(handler[z]), {}}
      PROVE  SlaveInv(z)'
  BY <1>1, <1>2, SlaveKept
<1>3. ASSUME executed' = executed, fed_log' = fed_log,
             \A z \in Zone : handler'[z] \in {handler[z], Forgotten(handler[z]), {}}
      PROVE  Kept
  BY <1>2, <1>3
<1>4. CASE UNCHANGED <<executed, fed_log, handler>>
  BY <1>3, <1>4
<1>5. CASE Restart
  <2>1. \A z \in Zone : handler'[z] = Forgotten(handler[z])
    BY <1>5 DEF Restart
  <2> QED BY <1>3, <1>5, <2>1 DEF Restart
<1>6. CASE Write \/ WriteLocal \/ Replicate \/ PurgeMaster
  BY <1>4, <1>6 DEF Write, WriteLocal, Replicate, PurgeMaster, slaveVars
<1>7. ASSUME NEW z \in Zone, ThreadStep(z) PROVE Kept
  <2>1. CASE GetNextRecord(z) \/ TakeAnswer(z) \/ Send(z)
    BY <1>4, <2>1 DEF GetNextRecord, TakeAnswer, Send, slaveVars
  <2>2. CASE GiveUp(z)
    <3>1. \A y \in Zone : handler'[y] \in {handler[y], Forgotten(handler[y]), {}}
      BY <2>2 DEF GiveUp, RequestInv
    <3> QED BY <1>3, <2>2, <3>1 DEF GiveUp
  <2> QED BY <1>7, <2>1, <2>2 DEF ThreadStep
<1>8. ASSUME NEW z \in Zone, NEW r \in net[z], Apply(z, r) PROVE Kept
  <2>1. CASE executed' = executed
    BY <1>4, <1>8, <2>1 DEF Apply, slaveVars
  <2>2. CASE executed' # executed
    <3>1. /\ Accepts(z, r) /\ handler[z] = {} /\ fed_log' = fed_log /\ written' = written
          /\ executed' = [executed EXCEPT ![z] = Append(@, r.index)]
          /\ handler' = [handler EXCEPT ![z] = {r}]
      BY <1>8, <2>2 DEF Apply, slaveVars, masterVars
    <3>2. SlaveInv(z)'
      <4>1. executed'[z] = Append(executed[z], r.index) /\ handler'[z] = {r}
        BY <3>1 DEF RequestInv
      <4> QED BY <3>1, <4>1, SlaveExecutes
    <3>3. \A y \in Zone \ {z} : executed'[y] = executed[y] /\ handler'[y] = handler[y]
      BY <3>1 DEF RequestInv
    <3> QED BY <1>2, <3>1, <3>2, <3>3
  <2> QED BY <2>1, <2>2
<1>9. ASSUME NEW z \in Zone, NEW r \in handler[z], Store(z, r) PROVE Kept
  <2>1. /\ handler' = [handler EXCEPT ![z] = {}] /\ executed' = executed /\ written' = written
        /\ fed_log' = fed_log \/ fed_log' = [fed_log EXCEPT ![z] = @ \cup {r.index}]
    BY <1>9 DEF Store, masterVars
  <2>2. handler'[z] = {} /\ \A y \in Zone \ {z} : handler'[y] = handler[y]
    BY <2>1 DEF RequestInv
  <2>3. CASE fed_log' = fed_log
    BY <1>3, <2>1, <2>2, <2>3
  <2>4. CASE fed_log' = [fed_log EXCEPT ![z] = @ \cup {r.index}]
    <3>1. /\ fed_log'[z] = fed_log[z] \cup {r.index}
          /\ \A y \in Zone \ {z} : fed_log'[y] = fed_log[y]
      BY <2>4
    <3>2. SlaveInv(z)'
      BY <2>1, <2>2, <3>1, SlaveStores
    <3> QED BY <1>2, <2>1, <2>2, <2>4, <3>1, <3>2
  <2> QED BY <2>1, <2>3, <2>4
<1>10. ASSUME NEW z \in Zone, PurgeSlave(z) PROVE Kept
  <2>1. handler' = handler /\ executed' = executed
    BY <1>10 DEF PurgeSlave
  <2>2. fed_log[z] \subseteq Nat /\ IsFiniteSet(fed_log[z])
    BY DEF SlaveInv
  <2>3. PICK n \in Nat \ {0} : fed_log' = [fed_log EXCEPT ![z] = Purged(@, n)]
    <3>1. \A n \in Retention..Cardinality(fed_log[z]) : n \in Nat \ {0}
      BY <2>2, FS_CardinalityType, FederationAssumption
    <3> QED BY <1>10, <3>1 DEF PurgeSlave
  <2>4. fed_log'[z] = Purged(fed_log[z], n) /\ \A y \in Zone \ {z} : fed_log'[y] = fed_log[y]
    BY <2>3
  <2>5. /\ fed_log'[z] \subseteq fed_log[z]
        /\ \A m : IsLast(fed_log[z], m) => IsLast(fed_log'[z], m)
    BY <2>2, <2>4, PurgedIsEnd
  <2>6. SlaveInv(z)'
    BY <1>1, <2>1, <2>5, SlaveKept
  <2> QED BY <1>2, <2>1, <2>3, <2>4, <2>6
<1>11. ASSUME NEW z \in Zone, RestartSlave(z) PROVE Kept
  <2>1. handler' = [handler EXCEPT ![z] = {}]
    BY <1>11 DEF RestartSlave
  <2>2. \A y \in Zone : handler'[y] \in {handler[y], Forgotten(handler[y]), {}}
    BY <2>1 DEF RequestInv
  <2> QED BY <1>3, <1>11, <2>2 DEF RestartSlave
<1>12. CASE UNCHANGED vars
  BY <1>4, <1>12 DEF vars, slaveVars
<1> HIDE DEF Kept
<1> QED BY <1>5, <1>6, <1>7, <1>8, <1>9, <1>10, <1>11, <1>12 DEF Next, SlaveStep

-----------------------------------------------------------------------------
(* The theorem.                                                            *)

LEMMA OrderInvInit == Init => OrderInv
<1> SUFFICES ASSUME Init PROVE OrderInv
  OBVIOUS
<1>1. LogInv
  <2>1. /\ log = 1..Imported /\ written = 1..Imported /\ next_index = Imported + 1
        /\ Imported \in Nat \ {0}
    BY FederationAssumption DEF Init
  <2>2. IsFiniteSet(log)
    BY <2>1, FS_Interval
  <2>3. Chain(log)
    <3> SUFFICES ASSUME NEW i \in Nat, Below(log, i) # {}
                 PROVE  \E m \in Below(log, i) : \A k \in Below(log, i) : k <= m
      BY DEF Chain
    <3>1. i > 1
      BY <2>1 DEF Below
    <3>2. CASE i > Imported
      <4>1. Imported \in Below(log, i) /\ \A k \in Below(log, i) : k <= Imported
        BY <2>1, <3>2 DEF Below
      <4> QED BY <4>1
    <3>3. CASE i <= Imported
      <4>1. i - 1 \in Below(log, i) /\ \A k \in Below(log, i) : k <= i - 1
        BY <2>1, <3>1, <3>3 DEF Below
      <4> QED BY <4>1
    <3> QED BY <2>1, <3>2, <3>3
  <2> QED BY <2>1, <2>2, <2>3 DEF LogInv
<1>2. RequestInv
  BY DEF Init, RequestInv
<1>3. PICK m \in [Zone -> 1..Imported] :
          fed_log = [z \in Zone |-> 1..m[z]] /\ executed = [z \in Zone |-> <<m[z]>>]
  BY DEF Init
<1>4. ASSUME NEW z \in Zone PROVE SlaveInv(z)
  <2>1. m[z] \in Nat \ {0}
    BY FederationAssumption
  <2>2. fed_log[z] = 1..m[z] /\ executed[z] = <<m[z]>> /\ handler[z] = {}
    BY <1>3 DEF Init
  <2>3. IsFiniteSet(fed_log[z])
    BY <2>1, <2>2, FS_Interval
  <2>4. m[z] \in fed_log[z] /\ IsLast(fed_log[z], m[z]) /\ fed_log[z] \subseteq Nat \ {0}
    BY <2>1, <2>2 DEF IsLast
  <2>5. executed[z] \in Seq(Nat) /\ Len(executed[z]) = 1 /\ Newest(z) = m[z]
    BY <2>1, <2>2 DEF Newest
  <2> QED BY <2>2, <2>3, <2>4, <2>5 DEF SlaveInv
<1> QED BY <1>1, <1>2, <1>3, <1>4 DEF OrderInv

\* Whatever is lost, late, retried, purged or restarted, a slave executes the
\* federated records in the order of the master's log, leaves none out, and
\* executes none again after a later one: the check of apply_log_record against
\* the last federated record is enough.
THEOREM SlavesInOrder == Spec => []InOrder
<1>1. Init => OrderInv
  BY OrderInvInit
<1>2. OrderInv /\ [Next]_vars => OrderInv'
  BY LogStep, RequestStep, SlaveStepKeeps DEF OrderInv
<1>3. OrderInv => InOrder
  BY DEF OrderInv, SlaveInv, InOrder
<1> QED BY <1>1, <1>2, <1>3, PTL DEF Spec

-----------------------------------------------------------------------------
(* No repetition without a fault.                                          *)

Repeats(z) == {k \in 1..(Len(executed[z]) - 1) : executed[z][k + 1] = executed[z][k]}

\* Slave z owes a repetition to a fault: what it executed last is not stored,
\* and nobody is about to store it.
Owes(z) == handler[z] = {} /\ ~ IsLast(fed_log[z], Newest(z))

OnceInv(z) ==
    /\ faults[z] \in Nat /\ IsFiniteSet(Repeats(z))
    /\ Cardinality(Repeats(z)) <= faults[z]
    /\ Owes(z) => Cardinality(Repeats(z)) < faults[z]

CountInv == DOMAIN faults = Zone /\ \A z \in Zone : OnceInv(z)

\* What a step may do to slave z: nothing of interest, execute, store, or fail to.
Idles(z) ==
    /\ executed'[z] = executed[z] /\ faults'[z] = faults[z]
    /\ \A m : IsLast(fed_log[z], m) => IsLast(fed_log'[z], m)
    /\ handler'[z] = {} => handler[z] = {}

Executes(z) ==
    /\ handler[z] = {} /\ handler'[z] # {} /\ faults'[z] = faults[z]
    /\ \E r \in net[z] : Accepts(z, r) /\ executed'[z] = Append(executed[z], r.index)

Stores(z) ==
    /\ executed'[z] = executed[z] /\ faults'[z] = faults[z]
    /\ IsLast(fed_log'[z], Newest(z))

Fails(z) == executed'[z] = executed[z] /\ faults'[z] = faults[z] + 1

LEMMA OnceKept ==
    ASSUME OrderInv, NEW z \in Zone, OnceInv(z), Idles(z) \/ Executes(z) \/ Stores(z) \/ Fails(z)
    PROVE  OnceInv(z)'
<1>0. LogInv /\ RequestInv /\ SlaveInv(z)
  BY DEF OrderInv
<1> DEFINE c == Cardinality(Repeats(z))
<1>1. c \in Nat /\ faults[z] \in Nat /\ IsFiniteSet(Repeats(z)) /\ c <= faults[z]
      /\ (Owes(z) => c < faults[z])
  BY FS_CardinalityType DEF OnceInv
<1> HIDE DEF c
<1>2. ASSUME executed'[z] = executed[z]
      PROVE  Repeats(z)' = Repeats(z) /\ Newest(z)' = Newest(z)
  BY <1>2 DEF Repeats, Newest
<1>3. CASE Idles(z)
  <2>1. Owes(z)' => Owes(z)
    BY <1>2, <1>3 DEF Idles, Owes
  <2> QED BY <1>1, <1>2, <1>3, <2>1 DEF Idles, OnceInv, c
<1>4. CASE Stores(z)
  <2>1. ~ Owes(z)'
    BY <1>2, <1>4 DEF Stores, Owes
  <2> QED BY <1>1, <1>2, <1>4, <2>1 DEF Stores, OnceInv, c
<1>5. CASE Fails(z)
  <2>1. faults'[z] = faults[z] + 1 /\ Repeats(z)' = Repeats(z)
    BY <1>2, <1>5 DEF Fails
  <2>2. faults'[z] \in Nat /\ c < faults'[z] /\ c <= faults'[z]
    BY <1>1, <2>1
  <2> QED BY <1>1, <2>1, <2>2 DEF OnceInv, c
<1>6. CASE Executes(z)
  <2>1. PICK r \in net[z] : Accepts(z, r) /\ executed'[z] = Append(executed[z], r.index)
    BY <1>6 DEF Executes
  <2>2. PICK m \in fed_log[z] : IsLast(fed_log[z], m)
    BY <1>0 DEF SlaveInv
  <2>3. Follows(m, r.index) /\ r.index \in Nat /\ m \in Nat
    BY <1>0, <2>1, <2>2, AcceptedIsNext
  <2> DEFINE n == Len(executed[z])
  <2>4. executed[z] \in Seq(Nat) /\ n \in Nat /\ n > 0
    BY <1>0 DEF SlaveInv
  <2>5. /\ Len(executed'[z]) = n + 1 /\ executed'[z][n + 1] = r.index
        /\ \A k \in 1..n : executed'[z][k] = executed[z][k]
    BY <2>1, <2>3, <2>4
  <2> HIDE DEF n
  <2>6. Repeats(z)' \subseteq Repeats(z) \cup {n}
    <3> SUFFICES ASSUME NEW k \in Repeats(z)', k # n PROVE k \in Repeats(z)
      OBVIOUS
    <3>1. k \in 1..((n + 1) - 1) /\ executed'[z][k + 1] = executed'[z][k]
      BY <2>5 DEF Repeats
    <3>2. k \in 1..(n - 1) /\ k \in 1..n /\ k + 1 \in 1..n
      BY <2>4, <3>1
    <3>3. executed[z][k + 1] = executed[z][k]
      BY <2>5, <3>1, <3>2
    <3> QED BY <3>2, <3>3 DEF Repeats, n
  <2>7. n \in Repeats(z)' => r.index = Newest(z)
    BY <2>4, <2>5 DEF Repeats, Newest, n
  <2>8. ~ Owes(z)'
    BY <1>6 DEF Executes, Owes
  <2>9. IsFiniteSet(Repeats(z)') /\ Cardinality(Repeats(z)') \in Nat
        /\ Cardinality(Repeats(z)') <= faults[z]
    <3>1. CASE n \in Repeats(z)'
      <4>1. ~ IsLast(fed_log[z], Newest(z))
        <5>1. m < Newest(z) /\ Newest(z) \in Nat
          BY <2>3, <2>7, <3>1 DEF Follows
        <5>2. \A k \in fed_log[z] : k <= m
          BY <2>2 DEF IsLast
        <5> QED BY <2>3, <5>1, <5>2 DEF IsLast
      <4>2. c < faults[z]
        BY <1>1, <1>6, <4>1 DEF Executes, Owes
      <4>3. IsFiniteSet(Repeats(z) \cup {n})
            /\ Cardinality(Repeats(z) \cup {n}) \in {c, c + 1}
        BY <1>1, FS_AddElement DEF c
      <4>4. /\ IsFiniteSet(Repeats(z)')
            /\ Cardinality(Repeats(z)') <= Cardinality(Repeats(z) \cup {n})
        BY <2>6, <4>3, FS_Subset
      <4>5. Cardinality(Repeats(z)') \in Nat
        BY <4>4, FS_CardinalityType
      <4> QED BY <1>1, <4>2, <4>3, <4>4, <4>5
    <3>2. CASE n \notin Repeats(z)'
      <4>1. Repeats(z)' \subseteq Repeats(z)
        BY <2>6, <3>2
      <4>2. IsFiniteSet(Repeats(z)') /\ Cardinality(Repeats(z)') <= c
        BY <1>1, <4>1, FS_Subset DEF c
      <4>3. Cardinality(Repeats(z)') \in Nat
        BY <4>2, FS_CardinalityType
      <4> QED BY <1>1, <4>2, <4>3
    <3> QED BY <3>1, <3>2
  <2>10. faults'[z] = faults[z]
    BY <1>6 DEF Executes
  <2> QED BY <1>1, <2>8, <2>9, <2>10 DEF OnceInv
<1> QED BY <1>3, <1>4, <1>5, <1>6

\* Every step is one of these for every slave.
LEMMA StepOfSlave ==
    ASSUME OrderInv, CountInv, [Next]_vars
    PROVE  /\ DOMAIN faults' = Zone
           /\ \A z \in Zone : Idles(z) \/ Executes(z) \/ Stores(z) \/ Fails(z)
<1> DEFINE Kept == /\ DOMAIN faults' = Zone
                   /\ \A z \in Zone : Idles(z) \/ Executes(z) \/ Stores(z) \/ Fails(z)
<1> SUFFICES Kept
  OBVIOUS
<1>0. /\ DOMAIN fed_log = Zone /\ DOMAIN executed = Zone /\ DOMAIN faults = Zone
      /\ DOMAIN handler = Zone /\ LogInv /\ \A z \in Zone : SlaveInv(z)
  BY DEF OrderInv, RequestInv, CountInv
<1>1. ASSUME NEW z \in Zone, executed'[z] = executed[z], fed_log'[z] = fed_log[z],
             faults'[z] = faults[z], handler'[z] \in {handler[z], Forgotten(handler[z])}
      PROVE  Idles(z)
  BY <1>1 DEF Idles, Forgotten
<1>2. CASE UNCHANGED slaveVars
  BY <1>0, <1>1, <1>2 DEF slaveVars
<1>3. CASE Restart
  <2>1. \A z \in Zone : handler'[z] = Forgotten(handler[z])
    BY <1>3 DEF Restart
  <2> QED BY <1>0, <1>1, <1>3, <2>1 DEF Restart
<1>4. CASE Write \/ WriteLocal \/ Replicate \/ PurgeMaster
  BY <1>2, <1>4 DEF Write, WriteLocal, Replicate, PurgeMaster
<1>5. ASSUME NEW z \in Zone, ThreadStep(z) PROVE Kept
  <2>1. CASE GetNextRecord(z) \/ TakeAnswer(z) \/ Send(z)
    BY <1>2, <2>1 DEF GetNextRecord, TakeAnswer, Send
  <2>2. CASE GiveUp(z)
    <3>1. \A y \in Zone : handler'[y] \in {handler[y], Forgotten(handler[y])}
      BY <1>0, <2>2 DEF GiveUp
    <3> QED BY <1>0, <1>1, <2>2, <3>1 DEF GiveUp
  <2> QED BY <1>5, <2>1, <2>2 DEF ThreadStep
<1>6. ASSUME NEW z \in Zone, NEW r \in net[z], Apply(z, r) PROVE Kept
  <2>1. CASE handler' = handler /\ executed' = executed
    <3>1. fed_log' = fed_log /\ faults' = faults
      BY <1>6 DEF Apply, slaveVars
    <3> QED BY <1>0, <1>1, <2>1, <3>1
  <2>2. CASE ~ (handler' = handler /\ executed' = executed)
    <3>1. /\ Accepts(z, r) /\ handler[z] = {} /\ fed_log' = fed_log /\ faults' = faults
          /\ executed' = [executed EXCEPT ![z] = Append(@, r.index)]
          /\ handler' = [handler EXCEPT ![z] = {r}]
      BY <1>6, <2>2 DEF Apply, slaveVars
    <3>2. /\ executed'[z] = Append(executed[z], r.index) /\ handler'[z] = {r}
          /\ \A y \in Zone \ {z} : executed'[y] = executed[y] /\ handler'[y] = handler[y]
      BY <1>0, <3>1
    <3>3. Executes(z)
      BY <3>1, <3>2 DEF Executes
    <3> QED BY <1>0, <1>1, <3>1, <3>2, <3>3
  <2> QED BY <2>1, <2>2
<1>7. ASSUME NEW z \in Zone, NEW r \in handler[z], Store(z, r) PROVE Kept
  <2>1. handler' = [handler EXCEPT ![z] = {}] /\ executed' = executed
    BY <1>7 DEF Store
  <2>2. \A y \in Zone \ {z} : handler'[y] = handler[y]
    BY <1>0, <2>1
  <2>3. CASE fed_log' = [fed_log EXCEPT ![z] = @ \cup {r.index}] /\ faults' = faults
    <3>1. /\ fed_log'[z] = fed_log[z] \cup {r.index}
          /\ \A y \in Zone \ {z} : fed_log'[y] = fed_log[y]
      BY <1>0, <2>3
    <3>2. r.index = Newest(z) /\ IsLast(fed_log'[z], r.index)
      BY <1>0, <3>1, StoredIsLast
    <3>3. Stores(z)
      BY <2>1, <2>3, <3>2 DEF Stores
    <3> QED BY <1>0, <1>1, <2>1, <2>2, <2>3, <3>1, <3>3
  <2>4. CASE fed_log' = fed_log /\ faults' = [faults EXCEPT ![z] = @ + 1]
    <3>1. Fails(z) /\ \A y \in Zone \ {z} : faults'[y] = faults[y]
      BY <1>0, <2>1, <2>4 DEF Fails
    <3> QED BY <1>0, <1>1, <2>1, <2>2, <2>4, <3>1
  <2> QED BY <1>7, <2>3, <2>4 DEF Store
<1>8. ASSUME NEW z \in Zone, PurgeSlave(z) PROVE Kept
  <2>1. handler' = handler /\ executed' = executed /\ faults' = faults
    BY <1>8 DEF PurgeSlave
  <2>2. fed_log[z] \subseteq Nat /\ IsFiniteSet(fed_log[z])
    BY <1>0 DEF SlaveInv
  <2>3. PICK n \in Nat \ {0} : fed_log' = [fed_log EXCEPT ![z] = Purged(@, n)]
    <3>1. \A n \in Retention..Cardinality(fed_log[z]) : n \in Nat \ {0}
      BY <2>2, FS_CardinalityType, FederationAssumption
    <3> QED BY <1>8, <3>1 DEF PurgeSlave
  <2>4. fed_log'[z] = Purged(fed_log[z], n) /\ \A y \in Zone \ {z} : fed_log'[y] = fed_log[y]
    BY <1>0, <2>3
  <2>5. \A m : IsLast(fed_log[z], m) => IsLast(fed_log'[z], m)
    BY <2>2, <2>4, PurgedIsEnd
  <2>6. Idles(z)
    BY <2>1, <2>5 DEF Idles
  <2> QED BY <1>0, <1>1, <2>1, <2>4, <2>6
<1>9. ASSUME NEW z \in Zone, RestartSlave(z) PROVE Kept
  <2>1. /\ handler' = [handler EXCEPT ![z] = {}] /\ faults' = [faults EXCEPT ![z] = @ + 1]
        /\ executed' = executed /\ fed_log' = fed_log
    BY <1>9 DEF RestartSlave
  <2>2. Fails(z) /\ \A y \in Zone \ {z} : faults'[y] = faults[y] /\ handler'[y] = handler[y]
    BY <1>0, <2>1 DEF Fails
  <2> QED BY <1>0, <1>1, <2>1, <2>2
<1>10. CASE UNCHANGED vars
  BY <1>2, <1>10 DEF vars
<1> HIDE DEF Kept
<1> QED BY <1>3, <1>4, <1>5, <1>6, <1>7, <1>8, <1>9, <1>10 DEF Next, SlaveStep

LEMMA CountInvInit == Init => CountInv
<1> SUFFICES ASSUME Init, NEW z \in Zone PROVE OnceInv(z)
  BY DEF Init, CountInv
<1>1. PICK m \in [Zone -> 1..Imported] :
          fed_log = [y \in Zone |-> 1..m[y]] /\ executed = [y \in Zone |-> <<m[y]>>]
  BY DEF Init
<1>2. m[z] \in Nat \ {0} /\ fed_log[z] = 1..m[z] /\ executed[z] = <<m[z]>>
  BY <1>1, FederationAssumption
<1>3. Repeats(z) = {} /\ Newest(z) = m[z]
  BY <1>2 DEF Repeats, Newest
<1>4. IsLast(fed_log[z], Newest(z))
  BY <1>2, <1>3 DEF IsLast
<1>5. faults[z] = 0 /\ Cardinality(Repeats(z)) = 0 /\ IsFiniteSet(Repeats(z))
  BY <1>3, FS_EmptySet DEF Init
<1> QED BY <1>4, <1>5 DEF OnceInv, Owes

\* A slave executes a record again only when it failed to store it: requests that
\* are repeated or late never do, because the handler compares the record before
\* with its own last one under fed_mutex.
THEOREM SlavesExecuteOnce == Spec => []ExecutedOnce
<1>1. Init => OrderInv /\ CountInv
  BY OrderInvInit, CountInvInit
<1>2. OrderInv /\ CountInv /\ [Next]_vars => OrderInv' /\ CountInv'
  <2>1. OrderInv /\ [Next]_vars => OrderInv'
    BY LogStep, RequestStep, SlaveStepKeeps DEF OrderInv
  <2>2. ASSUME OrderInv, CountInv, [Next]_vars PROVE CountInv'
    BY <2>2, StepOfSlave, OnceKept DEF CountInv
  <2> QED BY <2>1, <2>2
<1>3. CountInv => ExecutedOnce
  BY DEF CountInv, OnceInv, Repeats, ExecutedOnce
<1> QED BY <1>1, <1>2, <1>3, PTL DEF Spec
=============================================================================
