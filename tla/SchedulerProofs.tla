-------------------------- MODULE SchedulerProofs --------------------------
(***************************************************************************)
(* The limits of concurrent actions hold for any number of VMs, hosts,     *)
(* clusters and plans.  An action is counted when its state is APPLYING,   *)
(* which start_action writes after the call of the operation: the argument *)
(* is that between the two nobody else changes a plan that is locked.      *)
(***************************************************************************)
EXTENDS Scheduler, FiniteSetTheorems, TLAPS

\* The action being started is one of the plan that is still to do.
PlanInv(p) ==
    /\ {"state", "actions"} \subseteq DOMAIN plan[p]
    /\ \E n \in Nat : Numbers(p) = 1..n
    /\ \A i \in Numbers(p) : {"host", "state"} \subseteq DOMAIN plan[p].actions[i]
    /\ exec[p] \in Int
    /\ exec[p] > 0 => exec[p] \in ActionsIn(p, "READY")

LimitInv ==
    /\ DOMAIN plan = PlanId /\ DOMAIN exec = PlanId
    /\ \A r \in reports : r.state # "APPLYING"
    /\ \A p \in PlanId : PlanInv(p)
    /\ WithinLimits

\* What a step may do to plan p: start nothing, or call one operation for which
\* there is room.
StartsNothing(p) ==
    /\ Started(p)' \subseteq Started(p)
    /\ \A i \in Started(p)' : plan'[p].actions[i].host = plan[p].actions[i].host

CallsOne(p) ==
    /\ plan'[p] = plan[p]
    /\ \E i \in Numbers(p) : HasRoom(p, i) /\ exec[p] = Loop /\ exec'[p] = i

\* The limits of a plan survive both.
LEMMA LimitsKept ==
    ASSUME NEW p \in PlanId, PlanInv(p), WithinLimits, StartsNothing(p) \/ CallsOne(p)
    PROVE  /\ Cardinality(Started(p)') <= MaxActionsPerCluster
           /\ \A h \in Host : Cardinality(StartedOn(p, h)') <= MaxActionsPerHost
<1>1. PICK n \in Nat : Numbers(p) = 1..n
  BY DEF PlanInv
<1>2. IsFiniteSet(Numbers(p))
  BY <1>1, FS_Interval
<1>3. /\ IsFiniteSet(Started(p)) /\ \A h \in Host : IsFiniteSet(StartedOn(p, h))
      /\ IsFiniteSet(ActionsIn(p, "APPLYING")) /\ \A h \in Host : IsFiniteSet(OnHost(p, h))
  <2>1. Started(p) \subseteq Numbers(p) /\ ActionsIn(p, "APPLYING") \subseteq Numbers(p)
    BY DEF Started, ActionsIn
  <2>2. \A h \in Host : StartedOn(p, h) \subseteq Numbers(p) /\ OnHost(p, h) \subseteq Numbers(p)
    BY <2>1 DEF StartedOn, OnHost
  <2> QED BY <1>2, <2>1, <2>2, FS_Subset
<1>4. Cardinality(Started(p)) \in Nat /\ Cardinality(Started(p)) <= MaxActionsPerCluster
  BY <1>3, FS_CardinalityType DEF WithinLimits
<1>5. ASSUME NEW h \in Host
      PROVE  Cardinality(StartedOn(p, h)) \in Nat /\ Cardinality(StartedOn(p, h)) <= MaxActionsPerHost
  BY <1>3, FS_CardinalityType DEF WithinLimits
<1>6. MaxActionsPerHost \in Nat /\ MaxActionsPerCluster \in Nat
  BY SchedulerAssumption
<1>7. CASE StartsNothing(p)
  <2>1. Cardinality(Started(p)') <= MaxActionsPerCluster
    <3>1. IsFiniteSet(Started(p)') /\ Cardinality(Started(p)') <= Cardinality(Started(p))
      BY <1>3, <1>7, FS_Subset DEF StartsNothing
    <3> QED BY <1>4, <1>6, <3>1, FS_CardinalityType
  <2>2. ASSUME NEW h \in Host PROVE Cardinality(StartedOn(p, h)') <= MaxActionsPerHost
    <3>1. StartedOn(p, h)' \subseteq StartedOn(p, h)
      BY <1>7 DEF StartsNothing, StartedOn
    <3>2. /\ IsFiniteSet(StartedOn(p, h)')
          /\ Cardinality(StartedOn(p, h)') <= Cardinality(StartedOn(p, h))
      BY <1>3, <3>1, FS_Subset
    <3> QED BY <1>5, <1>6, <3>2, FS_CardinalityType
  <2> QED BY <2>1, <2>2
<1>8. CASE CallsOne(p)
  <2>1. PICK i \in Numbers(p) : HasRoom(p, i) /\ exec[p] = Loop /\ exec'[p] = i
    BY <1>8 DEF CallsOne
  <2>2. plan'[p] = plan[p]
    BY <1>8 DEF CallsOne
  <2>3. Started(p)' = ActionsIn(p, "APPLYING") \cup {i}
    BY <2>1, <2>2 DEF Started, ActionsIn, Numbers
  <2>4. Cardinality(Started(p)') <= MaxActionsPerCluster
    <3> DEFINE a == Cardinality(ActionsIn(p, "APPLYING"))
    <3>1. a \in Nat /\ a < MaxActionsPerCluster
      BY <1>3, <2>1, FS_CardinalityType DEF HasRoom
    <3>2. Cardinality(Started(p)') \in {a, a + 1}
      BY <1>3, <2>3, FS_AddElement
    <3> HIDE DEF a
    <3> QED BY <1>6, <3>1, <3>2
  <2>5. ASSUME NEW h \in Host PROVE Cardinality(StartedOn(p, h)') <= MaxActionsPerHost
    <3>1. CASE plan[p].actions[i].host = h
      <4> DEFINE a == Cardinality(OnHost(p, h))
      <4>1. StartedOn(p, h)' = OnHost(p, h) \cup {i}
        BY <2>2, <2>3, <3>1 DEF StartedOn, OnHost
      <4>2. a \in Nat /\ a < MaxActionsPerHost
        BY <1>3, <2>1, <3>1, FS_CardinalityType DEF HasRoom
      <4>3. Cardinality(StartedOn(p, h)') \in {a, a + 1}
        BY <1>3, <4>1, FS_AddElement
      <4> HIDE DEF a
      <4> QED BY <1>6, <4>2, <4>3
    <3>2. CASE plan[p].actions[i].host # h
      <4>1. StartedOn(p, h)' \subseteq StartedOn(p, h)
        BY <2>2, <2>3, <3>2 DEF StartedOn, Started
      <4>2. /\ IsFiniteSet(StartedOn(p, h)')
            /\ Cardinality(StartedOn(p, h)') <= Cardinality(StartedOn(p, h))
        BY <1>3, <4>1, FS_Subset
      <4> QED BY <1>5, <1>6, <4>2, FS_CardinalityType
    <3> QED BY <3>1, <3>2
  <2> QED BY <2>4, <2>5
<1> QED BY <1>7, <1>8

Fine(p) == PlanInv(p)' /\ (StartsNothing(p) \/ CallsOne(p))

LEMMA Untouched ==
    ASSUME NEW p \in PlanId, PlanInv(p), plan'[p] = plan[p], exec'[p] = exec[p]
    PROVE  Fine(p)
  BY DEF Fine, PlanInv, StartsNothing, Started, ActionsIn, Numbers

\* Labels of actions change, and nothing becomes APPLYING that was not started.
LEMMA Relabelled ==
    ASSUME NEW p \in PlanId, PlanInv(p), {"state", "actions"} \subseteq DOMAIN plan'[p],
           Numbers(p)' = Numbers(p), exec'[p] \in {Idle, Loop},
           \A j \in Numbers(p) :
               /\ {"host", "state"} \subseteq DOMAIN plan'[p].actions[j]
               /\ plan'[p].actions[j].host = plan[p].actions[j].host
               /\ plan'[p].actions[j].state = "APPLYING" => j \in Started(p)
    PROVE  Fine(p)
<1>1. exec'[p] \in Int /\ ~ (exec'[p] > 0) /\ exec'[p] \notin Numbers(p)
  BY DEF PlanInv, Idle, Loop
<1>2. PlanInv(p)'
  BY <1>1 DEF PlanInv
<1>3. Started(p)' \subseteq Started(p) /\ Started(p)' \subseteq Numbers(p)
  BY <1>1 DEF Started, ActionsIn
<1>4. StartsNothing(p)
  BY <1>3 DEF StartsNothing
<1> QED BY <1>2, <1>4 DEF Fine

\* One action gets another state.
LEMMA OneRelabelled ==
    ASSUME NEW p \in PlanId, PlanInv(p), NEW i \in Numbers(p), NEW st,
           {"state", "actions"} \subseteq DOMAIN plan'[p],
           plan'[p].actions = [plan[p].actions EXCEPT ![i].state = st],
           exec'[p] \in {Idle, Loop}, st = "APPLYING" => i \in Started(p)
    PROVE  Fine(p)
<1>1. Numbers(p)' = Numbers(p)
  BY DEF Numbers
<1>2. ASSUME NEW j \in Numbers(p)
      PROVE  /\ {"host", "state"} \subseteq DOMAIN plan'[p].actions[j]
             /\ plan'[p].actions[j].host = plan[p].actions[j].host
             /\ plan'[p].actions[j].state = "APPLYING" => j \in Started(p)
  <2>1. CASE j = i
    <3>1. plan'[p].actions[i] = [plan[p].actions[i] EXCEPT !.state = st]
      BY DEF Numbers
    <3>2. {"host", "state"} \subseteq DOMAIN plan[p].actions[i]
      BY DEF PlanInv
    <3> QED BY <2>1, <3>1, <3>2
  <2>2. CASE j # i
    <3>1. plan'[p].actions[j] = plan[p].actions[j]
      BY <2>2 DEF Numbers
    <3> QED BY <3>1 DEF PlanInv, Started, ActionsIn
  <2> QED BY <2>1, <2>2
<1> QED BY <1>1, <1>2, Relabelled

\* The plan is replaced or deleted while nobody executes it.
LEMMA Replaced ==
    ASSUME NEW p \in PlanId, exec'[p] = Idle, {"state", "actions"} \subseteq DOMAIN plan'[p],
           NEW n \in Nat, DOMAIN plan'[p].actions = 1..n,
           \A i \in 1..n : /\ {"host", "state"} \subseteq DOMAIN plan'[p].actions[i]
                           /\ plan'[p].actions[i].state = "READY"
    PROVE  Fine(p)
<1>1. exec'[p] \in Int /\ ~ (exec'[p] > 0) /\ exec'[p] \notin 1..n
  BY DEF Idle
<1>2. Numbers(p)' = 1..n
  BY DEF Numbers
<1>3. PlanInv(p)'
  BY <1>1, <1>2 DEF PlanInv
<1>4. Started(p)' = {}
  BY <1>1, <1>2 DEF Started, ActionsIn
<1> QED BY <1>3, <1>4 DEF Fine, StartsNothing

LEMMA CompletedKeepsActions ==
    ASSUME NEW pl, {"state", "actions"} \subseteq DOMAIN pl
    PROVE  /\ DOMAIN CheckCompleted(pl) = DOMAIN pl
           /\ CheckCompleted(pl).actions = pl.actions
  BY DEF CheckCompleted

\* What the driver may answer.
LEMMA PlanShape ==
    ASSUME NEW actions \in Plans
    PROVE  \E n \in Nat :
              /\ DOMAIN actions = 1..n
              /\ \A i \in 1..n : /\ {"host", "state"} \subseteq DOMAIN actions[i]
                                 /\ actions[i].state = "READY"
<1>1. PICK n \in 0..Cardinality(Vm) : actions \in [1..n -> {Action(v, h) : v \in Vm, h \in Host}]
  BY DEF Plans
<1>2. n \in Nat
  BY SchedulerAssumption, FS_CardinalityType
<1>3. ASSUME NEW i \in 1..n
      PROVE  {"host", "state"} \subseteq DOMAIN actions[i] /\ actions[i].state = "READY"
  <2>1. PICK v \in Vm, h \in Host : actions[i] = Action(v, h)
    BY <1>1
  <2> QED BY <2>1 DEF Action
<1> QED BY <1>1, <1>2, <1>3

\* AddPlan as it is used by the answers of the driver.
LEMMA AddPlanFine ==
    ASSUME LimitInv, NEW p \in PlanId, NEW actions \in Plans, NEW st, AddPlan(p, actions, st)
    PROVE  DOMAIN plan' = PlanId /\ exec' = exec /\ reports' = reports /\ \A q \in PlanId : Fine(q)
<1>0. DOMAIN plan = PlanId /\ \A q \in PlanId : PlanInv(q)
  BY DEF LimitInv
<1>1. exec' = exec /\ reports' = reports /\ exec[p] = Idle
  BY DEF AddPlan, Unlocked
<1>2. CASE plan' = plan
  BY <1>0, <1>1, <1>2, Untouched
<1>3. CASE plan' = [plan EXCEPT ![p] = [state |-> st, actions |-> actions]]
  <2>1. plan'[p] = [state |-> st, actions |-> actions]
    BY <1>0, <1>3
  <2>2. PICK n \in Nat : /\ DOMAIN actions = 1..n
                         /\ \A i \in 1..n : /\ {"host", "state"} \subseteq DOMAIN actions[i]
                                            /\ actions[i].state = "READY"
    BY PlanShape
  <2>3. Fine(p)
    BY <1>1, <2>1, <2>2, Replaced
  <2>4. \A q \in PlanId \ {p} : plan'[q] = plan[q]
    BY <1>0, <1>3
  <2> QED BY <1>0, <1>1, <1>3, <2>3, <2>4, Untouched
<1> QED BY <1>2, <1>3 DEF AddPlan

\* execute_plan: it takes the lock, starts what there is room for and releases it.
LEMMA ExecuteFine ==
    ASSUME LimitInv, NEW p \in PlanId, ExecuteStep(p)
    PROVE  /\ DOMAIN plan' = PlanId /\ DOMAIN exec' = PlanId /\ reports' = reports
           /\ \A q \in PlanId : Fine(q)
<1>0. DOMAIN plan = PlanId /\ DOMAIN exec = PlanId /\ \A q \in PlanId : PlanInv(q)
  BY DEF LimitInv
<1>1. {"state", "actions"} \subseteq DOMAIN plan[p]
  BY <1>0 DEF PlanInv
<1> DEFINE Goal == /\ DOMAIN plan' = PlanId /\ DOMAIN exec' = PlanId /\ reports' = reports
                   /\ \A q \in PlanId : Fine(q)
<1>2. ASSUME DOMAIN plan' = PlanId, DOMAIN exec' = PlanId, reports' = reports, Fine(p),
             \A q \in PlanId \ {p} : plan'[q] = plan[q] /\ exec'[q] = exec[q]
      PROVE  Goal
  BY <1>0, <1>2, Untouched
<1> HIDE DEF Goal
<1>3. ASSUME NEW late \in SUBSET ActionsIn(p, "APPLYING"), BeginExecute(p, late) PROVE Goal
  <2>1. /\ plan' = [plan EXCEPT ![p] = TimeoutActions(plan[p], late)]
        /\ exec' = [exec EXCEPT ![p] = Loop] /\ reports' = reports
    BY <1>3 DEF BeginExecute
  <2>2. plan'[p] = TimeoutActions(plan[p], late) /\ exec'[p] = Loop
    BY <1>0, <2>1
  <2>3. /\ DOMAIN plan'[p] = DOMAIN plan[p] /\ Numbers(p)' = Numbers(p)
        /\ \A j \in Numbers(p) : plan'[p].actions[j] =
              IF j \in late THEN [plan[p].actions[j] EXCEPT !.state = "TIMEOUT"] ELSE plan[p].actions[j]
    BY <1>1, <2>2 DEF TimeoutActions, Numbers
  <2>4. ASSUME NEW j \in Numbers(p)
        PROVE  /\ {"host", "state"} \subseteq DOMAIN plan'[p].actions[j]
               /\ plan'[p].actions[j].host = plan[p].actions[j].host
               /\ plan'[p].actions[j].state = "APPLYING" => j \in Started(p)
    <3>1. {"host", "state"} \subseteq DOMAIN plan[p].actions[j]
      BY <1>0 DEF PlanInv
    <3> QED BY <2>3, <3>1 DEF Started, ActionsIn
  <2>5. Fine(p)
    BY <1>0, <1>1, <2>2, <2>3, <2>4, Relabelled
  <2> QED BY <1>0, <1>2, <2>1, <2>5
<1>4. ASSUME NEW i \in Numbers(p), CallAction(p, i) PROVE Goal
  <2>0. exec[p] = Loop /\ HasRoom(p, i) /\ reports' = reports
    BY <1>4 DEF CallAction
  <2>1. CASE plan' = [plan EXCEPT ![p].actions[i].state = "ERROR"] /\ exec' = exec
    <3>1. /\ DOMAIN plan'[p] = DOMAIN plan[p]
          /\ plan'[p].actions = [plan[p].actions EXCEPT ![i].state = "ERROR"]
      BY <1>0, <1>1, <2>1
    <3>2. Fine(p)
      BY <1>0, <1>1, <2>0, <2>1, <3>1, OneRelabelled
    <3> QED BY <1>0, <1>2, <2>0, <2>1, <3>2
  <2>2. CASE plan' = plan /\ exec' = [exec EXCEPT ![p] = i]
    <3>1. exec'[p] = i /\ plan'[p] = plan[p]
      BY <1>0, <2>2
    <3>2. CallsOne(p)
      BY <2>0, <3>1 DEF CallsOne
    <3>3. PlanInv(p)'
      <4>1. i \in Int /\ i \in ActionsIn(p, "READY")
        BY <1>0, <1>4 DEF CallAction, IsNext, PlanInv
      <4> QED BY <1>0, <3>1, <4>1 DEF PlanInv, ActionsIn, Numbers
    <3> QED BY <1>0, <1>2, <2>0, <2>2, <3>2, <3>3 DEF Fine
  <2> QED BY <1>4, <2>1, <2>2 DEF CallAction
<1>5. ASSUME NEW i \in Numbers(p), TagAction(p, i) PROVE Goal
  <2>1. /\ plan' = [plan EXCEPT ![p].actions[i].state = "APPLYING"]
        /\ exec' = [exec EXCEPT ![p] = Loop] /\ reports' = reports /\ exec[p] = i
    BY <1>5 DEF TagAction
  <2>2. /\ DOMAIN plan'[p] = DOMAIN plan[p] /\ exec'[p] = Loop
        /\ plan'[p].actions = [plan[p].actions EXCEPT ![i].state = "APPLYING"]
    BY <1>0, <1>1, <2>1
  <2>3. i \in Started(p)
    BY <2>1 DEF Started
  <2>4. Fine(p)
    BY <1>0, <1>1, <2>2, <2>3, OneRelabelled
  <2> QED BY <1>0, <1>2, <2>1, <2>4
<1>6. ASSUME EndExecute(p) PROVE Goal
  <2>1. /\ plan' = [plan EXCEPT ![p] = CheckCompleted(plan[p])]
        /\ exec' = [exec EXCEPT ![p] = Idle] /\ reports' = reports
    BY <1>6 DEF EndExecute
  <2>2. plan'[p] = CheckCompleted(plan[p]) /\ exec'[p] = Idle
    BY <1>0, <2>1
  <2>3. DOMAIN plan'[p] = DOMAIN plan[p] /\ plan'[p].actions = plan[p].actions
    BY <1>1, <2>2, CompletedKeepsActions
  <2>4. Fine(p)
    BY <1>0, <1>1, <2>2, <2>3, Relabelled DEF Numbers, PlanInv, Started, ActionsIn
  <2> QED BY <1>0, <1>2, <2>1, <2>4
<1>7. Goal
  BY <1>3, <1>4, <1>5, <1>6 DEF ExecuteStep
<1> QED BY <1>7 DEF Goal

\* start_plan and the deletion of a plan, while it is not executed.
LEMMA UserFine ==
    ASSUME LimitInv, NEW p \in Cluster, StartPlan(p) \/ DeletePlan(p)
    PROVE  DOMAIN plan' = PlanId /\ exec' = exec /\ reports' = reports /\ \A q \in PlanId : Fine(q)
<1>0. p \in PlanId /\ DOMAIN plan = PlanId /\ \A q \in PlanId : PlanInv(q)
  BY DEF LimitInv, PlanId
<1>1. {"state", "actions"} \subseteq DOMAIN plan[p]
  BY <1>0 DEF PlanInv
<1>2. exec' = exec /\ reports' = reports /\ exec[p] = Idle
  BY DEF StartPlan, DeletePlan, Unlocked
<1>3. DOMAIN plan' = PlanId /\ \A q \in PlanId \ {p} : plan'[q] = plan[q]
  BY <1>0 DEF StartPlan, DeletePlan
<1>4. CASE StartPlan(p)
  <2>1. DOMAIN plan'[p] = DOMAIN plan[p] /\ plan'[p].actions = plan[p].actions
    BY <1>0, <1>1, <1>4 DEF StartPlan
  <2>2. Fine(p)
    BY <1>0, <1>1, <1>2, <2>1, Relabelled DEF Numbers, PlanInv, Started, ActionsIn
  <2> QED BY <1>0, <1>2, <1>3, <2>2, Untouched
<1>5. CASE DeletePlan(p)
  <2>1. plan'[p] = [state |-> "NONE", actions |-> <<>>]
    BY <1>0, <1>5 DEF DeletePlan
  <2>2. {"state", "actions"} \subseteq DOMAIN plan'[p] /\ DOMAIN plan'[p].actions = 1..0
    BY <2>1
  <2>3. 0 \in Nat /\ exec'[p] = Idle
        /\ \A i \in 1..0 : /\ {"host", "state"} \subseteq DOMAIN plan'[p].actions[i]
                           /\ plan'[p].actions[i].state = "READY"
    BY <1>2
  <2>4. Fine(p)
    BY <1>0, <2>2, <2>3, Replaced
  <2> QED BY <1>0, <1>2, <1>3, <2>4, Untouched
<1> QED BY <1>4, <1>5

\* PlanManager::action_finished, which waits for the lock.
LEMMA ReportFine ==
    ASSUME LimitInv, NEW r \in reports, TakeReport(r)
    PROVE  /\ DOMAIN plan' = PlanId /\ exec' = exec /\ reports' \subseteq reports
           /\ \A q \in PlanId : Fine(q)
<1>0. DOMAIN plan = PlanId /\ r.state # "APPLYING" /\ \A q \in PlanId : PlanInv(q)
  BY DEF LimitInv
<1> DEFINE p == r.plan
           i == r.action
           pl == [plan[p] EXCEPT !.actions[i].state = r.state]
<1>1. exec' = exec /\ reports' \subseteq reports /\ exec[p] = Idle
  BY DEF TakeReport, Unlocked
<1>2. CASE plan' = plan
  BY <1>0, <1>1, <1>2, Untouched
<1>3. CASE Finishes(r) /\ plan' = [plan EXCEPT ![p] = CheckCompleted(pl)]
  <2>1. DOMAIN plan' = PlanId /\ \A q \in PlanId \ {p} : plan'[q] = plan[q]
    BY <1>0, <1>3
  <2>2. ASSUME p \in PlanId PROVE Fine(p)
    <3>1. i \in Numbers(p) /\ {"state", "actions"} \subseteq DOMAIN plan[p]
      BY <1>0, <1>3, <2>2 DEF Finishes, PlanInv
    <3>2. DOMAIN pl = DOMAIN plan[p] /\ pl.actions = [plan[p].actions EXCEPT ![i].state = r.state]
      BY <3>1
    <3>3. plan'[p] = CheckCompleted(pl)
      BY <1>0, <1>3, <2>2
    <3> HIDE DEF pl
    <3>4. DOMAIN plan'[p] = DOMAIN plan[p] /\ plan'[p].actions = pl.actions
      BY <3>1, <3>2, <3>3, CompletedKeepsActions
    <3> HIDE DEF p, i
    <3> QED BY <1>0, <1>1, <2>2, <3>1, <3>2, <3>4, OneRelabelled
  <2> QED BY <1>0, <1>1, <2>1, <2>2, Untouched
<1> QED BY <1>2, <1>3 DEF TakeReport

LEMMA LimitStep == LimitInv /\ [Next]_vars => LimitInv'
<1> SUFFICES ASSUME LimitInv, [Next]_vars PROVE LimitInv'
  OBVIOUS
<1>0. /\ DOMAIN plan = PlanId /\ DOMAIN exec = PlanId /\ \A r \in reports : r.state # "APPLYING"
      /\ \A q \in PlanId : PlanInv(q)
  BY DEF LimitInv
<1> DEFINE Goal == /\ DOMAIN plan' = PlanId /\ DOMAIN exec' = PlanId
                   /\ \A r \in reports' : r.state # "APPLYING"
                   /\ \A q \in PlanId : Fine(q)
<1>1. ASSUME plan' = plan, exec' = exec, \A r \in reports' : r.state # "APPLYING" PROVE Goal
  BY <1>0, <1>1, Untouched
<1>2. Placement \in PlanId /\ Cluster \subseteq PlanId
  BY DEF PlanId
<1>3. ASSUME NEW actions \in Plans, PlaceAnswer(actions) PROVE Goal
  BY <1>0, <1>2, <1>3, AddPlanFine DEF PlaceAnswer
<1>4. ASSUME NEW p \in Cluster, NEW actions \in Plans, NEW st \in {"READY", "APPLYING"},
             ClusterAnswer(p, actions, st)
      PROVE  Goal
  BY <1>0, <1>2, <1>4, AddPlanFine DEF ClusterAnswer
<1>5. ASSUME NEW p \in Cluster, StartPlan(p) \/ DeletePlan(p) PROVE Goal
  BY <1>0, <1>5, UserFine
<1>6. ASSUME NEW p \in PlanId, ExecuteStep(p) PROVE Goal
  BY <1>0, <1>6, ExecuteFine
<1>7. ASSUME PlaceTimer PROVE Goal
  <2>1. plan' = plan /\ exec' = exec /\ reports' = reports
    BY <1>7 DEF PlaceTimer
  <2> QED BY <1>0, <1>1, <2>1
<1>8. ASSUME NEW v \in Vm, Succeed(v) \/ \E st \in {"ERROR", "DONE"} : Fail(v, st) PROVE Goal
  <2>1. plan' = plan /\ exec' = exec
    BY <1>8 DEF Succeed, Fail
  <2>2. PICK st \in {"ERROR", "DONE"} : ReportEnd(v, st)
    BY <1>8 DEF Succeed, Fail
  <2>3. \A r \in reports' : r.state # "APPLYING"
    BY <1>0, <2>2 DEF ReportEnd
  <2> QED BY <1>1, <2>1, <2>3
<1>9. ASSUME NEW v \in Vm, UserAction(v) \/ Resubmit(v) PROVE Goal
  <2>1. plan' = plan /\ exec' = exec /\ reports' = reports
    BY <1>9 DEF UserAction, Resubmit
  <2> QED BY <1>0, <1>1, <2>1
<1>10. ASSUME NEW r \in reports, TakeReport(r) PROVE Goal
  BY <1>0, <1>10, ReportFine
<1>11. ASSUME UNCHANGED vars PROVE Goal
  <2>1. plan' = plan /\ exec' = exec /\ reports' = reports
    BY <1>11 DEF vars
  <2> QED BY <1>0, <1>1, <2>1
<1> HIDE DEF Goal
<1>12. Goal
  BY <1>3, <1>4, <1>5, <1>6, <1>7, <1>8, <1>9, <1>10, <1>11 DEF Next
<1> USE DEF Goal
<1>13. WithinLimits'
  <2> SUFFICES ASSUME NEW p \in PlanId
               PROVE  /\ Cardinality(Started(p)') <= MaxActionsPerCluster
                      /\ \A h \in Host : Cardinality(StartedOn(p, h)') <= MaxActionsPerHost
    BY DEF WithinLimits
  <2>1. PlanInv(p) /\ WithinLimits /\ (StartsNothing(p) \/ CallsOne(p))
    BY <1>0, <1>12 DEF LimitInv, Fine
  <2> QED BY <2>1, LimitsKept
<1> QED BY <1>12, <1>13 DEF LimitInv, Fine

LEMMA LimitInit == Init => LimitInv
<1> SUFFICES ASSUME Init PROVE LimitInv
  OBVIOUS
<1>1. /\ plan = [p \in PlanId |-> [state |-> "NONE", actions |-> <<>>]]
      /\ exec = [p \in PlanId |-> -1] /\ reports = {}
  BY DEF Init, Idle
<1>2. ASSUME NEW p \in PlanId PROVE Numbers(p) = 1..0 /\ Started(p) = {} /\ exec[p] = -1
  BY <1>1 DEF Numbers, Started, ActionsIn
<1>3. ASSUME NEW p \in PlanId PROVE PlanInv(p)
  <2>1. {"state", "actions"} \subseteq DOMAIN plan[p]
    BY <1>1
  <2>2. \E n \in Nat : Numbers(p) = 1..n
    BY <1>2
  <2>3. \A i \in Numbers(p) : FALSE
    BY <1>2
  <2>4. exec[p] \in Int /\ ~ (exec[p] > 0)
    BY <1>2
  <2> QED BY <2>1, <2>2, <2>3, <2>4 DEF PlanInv
<1>4. WithinLimits
  <2>1. \A p \in PlanId : Started(p) = {} /\ \A h \in Host : StartedOn(p, h) = {}
    BY <1>2 DEF StartedOn
  <2>2. Cardinality({}) = 0 /\ MaxActionsPerHost \in Nat /\ MaxActionsPerCluster \in Nat
    BY FS_EmptySet, SchedulerAssumption
  <2>3. Cardinality({}) <= MaxActionsPerHost /\ Cardinality({}) <= MaxActionsPerCluster
    BY <2>2
  <2> QED BY <2>1, <2>3 DEF WithinLimits
<1> QED BY <1>1, <1>3, <1>4 DEF LimitInv

\* No plan ever has more actions under way than MAX_ACTIONS_PER_CLUSTER, nor more
\* on a host than MAX_ACTIONS_PER_HOST, whoever calls execute_plans, reports the
\* end of an operation, or replaces or deletes the plan in between.
THEOREM LimitsHold == Spec => []WithinLimits
<1>1. LimitInv => WithinLimits
  BY DEF LimitInv
<1> QED BY <1>1, LimitInit, LimitStep, PTL DEF Spec
=============================================================================
