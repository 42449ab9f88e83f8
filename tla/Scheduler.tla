----------------------------- MODULE Scheduler -----------------------------
(***************************************************************************)
(* Scheduling in oned: the placement window of SchedulerManager, the plans *)
(* of PlanManager and their execution on virtual machines.                 *)
(*                                                                         *)
(* Pending VMs are collected in a window and sent to the scheduler driver; *)
(* its answer becomes the placement plan.  Clusters have plans of their    *)
(* own.  A plan is a list of actions, carried out under limits: an action  *)
(* calls the VM's operation and then writes plan and action number into    *)
(* the VM's history record, from where the end of the operation is         *)
(* reported back.  The number stays there for as long as the record is the *)
(* VM's current one, and every plan numbers its actions from the start.    *)
(*                                                                         *)
(* A plan is locked while it is executed and while a report is taken; the  *)
(* end of an operation is seen under the VM's lock only, so it may come    *)
(* before the VM has its number, and its report may wait for the plan.     *)
(***************************************************************************)
EXTENDS Integers, Sequences, FiniteSets

CONSTANTS Vm, Host,
          Cluster,              \* clusters, each with a plan
          Placement,            \* the plan of new VMs, -1 in the code
          MaxActionsPerHost,
          MaxActionsPerCluster,
          MaxWndLength,         \* SCHED_MAX_WND_LENGTH
          NoTag                 \* a history record without plan

PlanId == Cluster \cup {Placement}

ASSUME SchedulerAssumption ==
    /\ IsFiniteSet(Vm)
    /\ Placement \notin Cluster
    /\ NoTag \notin PlanId \X Nat
    /\ MaxActionsPerHost \in Nat \ {0}
    /\ MaxActionsPerCluster \in Nat \ {0}
    /\ MaxWndLength \in Nat \ {0}

VARIABLES plan,     \* state and actions of each plan
          exec,     \* per plan: Idle, Loop, or the number of the action being started
          vm,       \* state of each VM and the tag in its history record
          reports,  \* ends of operations waiting for the lock of their plan
          wnd,      \* wnd_length; the window is open when it is not 0
          ask       \* the driver has a place request to answer

Idle == -1
Loop == 0

vars == <<plan, exec, vm, reports, wnd, ask>>

-----------------------------------------------------------------------------
(* Plans.                                                                  *)

Action(v, h) == [vm |-> v, host |-> h, state |-> "READY"]

Numbers(p) == DOMAIN plan[p].actions

ActionsIn(p, st) == {i \in Numbers(p) : plan[p].actions[i].state = st}

\* Plan::get_next_action takes the first.
IsNext(p, i) == i \in ActionsIn(p, "READY") /\ \A j \in ActionsIn(p, "READY") : i <= j

\* Plan::count_actions and the limits of execute_plan.
OnHost(p, h) == {i \in ActionsIn(p, "APPLYING") : plan[p].actions[i].host = h}

\* The bug of one too many.
Mut_HasRoom(p, i) ==
    /\ Cardinality(OnHost(p, plan[p].actions[i].host)) <= MaxActionsPerHost
    /\ Cardinality(ActionsIn(p, "APPLYING")) <= MaxActionsPerCluster

HasRoom(p, i) ==
    /\ Cardinality(OnHost(p, plan[p].actions[i].host)) < MaxActionsPerHost
    /\ Cardinality(ActionsIn(p, "APPLYING")) < MaxActionsPerCluster

\* Plan::check_completed: a plan with nothing to do or under way is over; an
\* error decides over a time-out whatever their order.
CheckCompleted(pl) ==
    LET sts == {pl.actions[i].state : i \in DOMAIN pl.actions}
    IN IF sts \cap {"READY", "APPLYING"} # {} THEN pl
       ELSE [pl EXCEPT !.state = IF "ERROR" \in sts THEN "ERROR"
                                 ELSE IF "TIMEOUT" \in sts THEN "TIMEOUT" ELSE "DONE"]


\* Plan::timeout_actions: the actions in late have been under way for too long.
TimeoutActions(pl, late) ==
    [pl EXCEPT !.actions =
        [i \in DOMAIN pl.actions |->
            IF i \in late THEN [pl.actions[i] EXCEPT !.state = "TIMEOUT"] ELSE pl.actions[i]]]

\* Nobody holds the lock of the plan.
Unlocked(p) == exec[p] = Idle

\* PlanManager::add_plan up to execute_plans; a plan in progress is not replaced.
AddPlan(p, actions, st) ==
    /\ Unlocked(p)
    /\ IF actions = <<>> \/ plan[p].state = "APPLYING"
       THEN UNCHANGED plan
       ELSE plan' = [plan EXCEPT ![p] = [state |-> st, actions |-> actions]]
    /\ UNCHANGED <<exec, vm, reports, wnd>>

\* PlanManager::start_plan, for the plan of a cluster.
StartPlan(p) ==
    /\ Unlocked(p) /\ plan[p].state = "READY"
    /\ plan' = [plan EXCEPT ![p].state = "APPLYING"]
    /\ UNCHANGED <<exec, vm, reports, wnd, ask>>

\* The bug of taking the plan without its lock.
Mut_DeletePlan(p) ==
    /\ plan[p].state # "NONE"
    /\ plan' = [plan EXCEPT ![p] = [state |-> "NONE", actions |-> <<>>]]
    /\ UNCHANGED <<exec, vm, reports, wnd, ask>>

\* ClusterAPI::PlanDelete, whatever the plan is doing.
DeletePlan(p) ==
    /\ Unlocked(p) /\ plan[p].state # "NONE"
    /\ plan' = [plan EXCEPT ![p] = [state |-> "NONE", actions |-> <<>>]]
    /\ UNCHANGED <<exec, vm, reports, wnd, ask>>

-----------------------------------------------------------------------------
(* Execution.                                                              *)

\* execute_plan takes the lock: called from the timer, and at the end of add_plan
\* and start_plan, for every plan that is applying.
BeginExecute(p, late) ==
    /\ Unlocked(p) /\ plan[p].state = "APPLYING"
    /\ plan' = [plan EXCEPT ![p] = TimeoutActions(@, late)]
    /\ exec' = [exec EXCEPT ![p] = Loop]
    /\ UNCHANGED <<vm, reports, wnd, ask>>

\* What the operation of an action of p needs of its VM: deploy, or migrate.
Startable(p, v) == vm[v].st = IF p = Placement THEN "pending" ELSE "running"

\* start_action, the call: it is refused, or the operation runs from here on,
\* with a new history record.
CallAction(p, i) ==
    LET v == plan[p].actions[i].vm
    IN /\ exec[p] = Loop /\ IsNext(p, i) /\ HasRoom(p, i)
       /\ \/ /\ plan' = [plan EXCEPT ![p].actions[i].state = "ERROR"]
             /\ UNCHANGED <<vm, exec>>
          \/ /\ Startable(p, v)
             /\ vm' = [vm EXCEPT ![v] = [st |-> "busy", tag |-> NoTag]]
             /\ exec' = [exec EXCEPT ![p] = i]
             /\ UNCHANGED plan
       /\ UNCHANGED <<reports, wnd, ask>>


\* start_action, after the call: the VM gets the number, finished or not.
TagAction(p, i) ==
    /\ exec[p] = i /\ i \in Numbers(p)
    /\ vm' = [vm EXCEPT ![plan[p].actions[i].vm].tag = <<p, i>>]
    /\ plan' = [plan EXCEPT ![p].actions[i].state = "APPLYING"]
    /\ exec' = [exec EXCEPT ![p] = Loop]
    /\ UNCHANGED <<reports, wnd, ask>>

\* The loop ends, with nothing left to start or no room for what is next.
EndExecute(p) ==
    /\ exec[p] = Loop
    /\ \A i \in Numbers(p) : IsNext(p, i) => ~ HasRoom(p, i)
    /\ plan' = [plan EXCEPT ![p] = CheckCompleted(@)]
    /\ exec' = [exec EXCEPT ![p] = Idle]
    /\ UNCHANGED <<vm, reports, wnd, ask>>

-----------------------------------------------------------------------------
(* Placement requests.                                                     *)

Pending == {v \in Vm : vm[v].st = "pending"}

\* SchedulerManagerDriver::place sends the VMs that are pending, if there are any.
\* Requests the driver has not answered yet count as one.
Place == ask' = (ask \/ Pending' # {})

\* SchedulerManager::trigger_place for a VM that became pending.
TriggerPlace ==
    IF wnd + 1 < MaxWndLength
    THEN wnd' = wnd + 1 /\ UNCHANGED ask
    ELSE wnd' = 0 /\ Place


\* SchedulerManager::timer_action, when the window or the retry time is over.
PlaceTimer ==
    /\ wnd > 0 \/ Pending # {}
    /\ UNCHANGED <<plan, exec, vm, reports>>
    /\ wnd' = 0
    /\ Place

\* SchedulerManager::place_finished.
PlaceFinished == IF wnd = 0 THEN Place ELSE UNCHANGED ask

\* The driver answers a request: PLACE with a plan, or a failure (no actions).
\* The VMs it lists were pending when it was asked and may be so no more.
PlaceAnswer(actions) ==
    /\ ask
    /\ ask' = FALSE
    /\ AddPlan(Placement, actions, "APPLYING")

\* OPTIMIZE: the plan of a cluster, applied at once when its automation is FULL.
ClusterAnswer(p, actions, st) ==
    /\ AddPlan(p, actions, st)
    /\ UNCHANGED ask

-----------------------------------------------------------------------------
(* Virtual machines.                                                       *)

\* The end of an operation is reported with the tag the VM has at that moment.
\* The life-cycle manager is one thread: it takes the next end when the plan has
\* the report of the last.
ReportEnd(v, st) ==
    reports' = IF vm[v].tag = NoTag THEN reports
               ELSE reports \cup {[plan |-> vm[v].tag[1], action |-> vm[v].tag[2],
                                  state |-> st]}

\* deploy_success_action and the like.
Succeed(v) ==
    /\ vm[v].st = "busy" /\ reports = {}
    /\ vm' = [vm EXCEPT ![v].st = "running"]
    /\ ReportEnd(v, "DONE")
    /\ UNCHANGED <<plan, exec, wnd, ask>>

\* deploy_failure_action reports an error; prolog_failure_action reports success.
Fail(v, st) ==
    /\ vm[v].st = "busy" /\ reports = {} /\ st \in {"ERROR", "DONE"}
    /\ vm' = [vm EXCEPT ![v].st = "failed"]
    /\ ReportEnd(v, st)
    /\ UNCHANGED <<plan, exec, wnd, ask>>

\* A user's operation on a VM that runs, or a recovery, in the same history record.
UserAction(v) ==
    /\ vm[v].st \in {"running", "failed"}
    /\ vm' = [vm EXCEPT ![v].st = "busy"]
    /\ UNCHANGED <<plan, exec, reports, wnd, ask>>

\* A VM is to be placed again: resumed after undeploy, or recreated.  Nothing
\* ends in its old history record any more; it is deployed with a new one.
Resubmit(v) ==
    /\ vm[v].st \in {"running", "failed"}
    /\ vm' = [vm EXCEPT ![v].st = "pending", ![v].tag = NoTag]
    /\ TriggerPlace
    /\ UNCHANGED <<plan, exec, reports>>

\* Plan::action_finished changes an action under way or timed out.
Finishes(r) ==
    /\ r.action \in Numbers(r.plan)
    /\ plan[r.plan].actions[r.action].state \in {"APPLYING", "TIMEOUT"}

\* PlanManager::action_finished.
TakeReport(r) ==
    LET p == r.plan
    IN /\ r \in reports /\ Unlocked(p)
       /\ reports' = reports \ {r}
       /\ UNCHANGED <<exec, vm, wnd>>
       /\ IF Finishes(r)
          THEN /\ plan' = [plan EXCEPT
                     ![p] = CheckCompleted([@ EXCEPT !.actions[r.action].state = r.state])]
               /\ IF p = Placement /\ plan'[p].state # "APPLYING"
                  THEN PlaceFinished ELSE UNCHANGED ask
          ELSE UNCHANGED <<plan, ask>>

-----------------------------------------------------------------------------

\* Plans list every VM at most once.
Plans ==
    {a \in UNION {[1..n -> {Action(v, h) : v \in Vm, h \in Host}] : n \in 0..Cardinality(Vm)} :
        \A i, j \in DOMAIN a : a[i].vm = a[j].vm => i = j}

Init ==
    /\ plan = [p \in PlanId |-> [state |-> "NONE", actions |-> <<>>]]
    /\ exec = [p \in PlanId |-> Idle]
    /\ vm \in [Vm -> {[st |-> st, tag |-> NoTag] : st \in {"pending", "running"}}]
    /\ reports = {}
    /\ wnd = 0
    /\ ask = FALSE

ExecuteStep(p) ==
    \/ \E late \in SUBSET ActionsIn(p, "APPLYING") : BeginExecute(p, late)
    \/ \E i \in Numbers(p) : CallAction(p, i) \/ TagAction(p, i)
    \/ EndExecute(p)

Next ==
    \/ \E actions \in Plans : PlaceAnswer(actions)
    \/ \E p \in Cluster, actions \in Plans, st \in {"READY", "APPLYING"} :
          ClusterAnswer(p, actions, st)
    \/ \E p \in Cluster : StartPlan(p) \/ DeletePlan(p)
    \/ \E p \in PlanId : ExecuteStep(p)
    \/ PlaceTimer
    \/ \E v \in Vm : Succeed(v) \/ UserAction(v) \/ Resubmit(v)
    \/ \E v \in Vm, st \in {"ERROR", "DONE"} : Fail(v, st)
    \/ \E r \in reports : TakeReport(r)

Spec == Init /\ [][Next]_vars

\* Timers fire, plans are executed, and what is under way for long gets late.
Fairness ==
    /\ WF_vars(PlaceTimer)
    /\ \A p \in PlanId : WF_vars(ExecuteStep(p))
    /\ \A p \in PlanId : SF_vars(BeginExecute(p, ActionsIn(p, "APPLYING")))

\* The driver finds a place for every VM of a request again and again.
DriverFairness ==
    \A v \in Vm :
        SF_vars(\E actions \in Plans :
                   /\ plan[Placement].state # "APPLYING"
                   /\ \E i \in DOMAIN actions : actions[i].vm = v
                   /\ PlaceAnswer(actions))

LiveSpec == Spec /\ Fairness /\ DriverFairness

-----------------------------------------------------------------------------
(* Properties.                                                             *)

ActionState == {"READY", "APPLYING", "DONE", "ERROR", "TIMEOUT"}

Tag == (PlanId \X Nat) \cup {NoTag}

TypeOK ==
    /\ plan \in [PlanId -> [state : ActionState \cup {"NONE"},
                            actions : Seq([vm : Vm, host : Host, state : ActionState])]]
    /\ exec \in [PlanId -> Nat \cup {Idle}]
    /\ \A p \in PlanId : exec[p] > 0 => exec[p] \in ActionsIn(p, "READY")
    /\ vm \in [Vm -> [st : {"pending", "running", "busy", "failed"}, tag : Tag]]
    /\ reports \subseteq [plan : PlanId, action : Nat, state : {"DONE", "ERROR"}]
    /\ wnd \in 0..(MaxWndLength - 1)
    /\ ask \in BOOLEAN

\* What plan p has under way, the action whose operation was just called included.
Started(p) == ActionsIn(p, "APPLYING") \cup ({exec[p]} \cap Numbers(p))

StartedOn(p, h) == {i \in Started(p) : plan[p].actions[i].host = h}

\* MAX_ACTIONS_PER_HOST and MAX_ACTIONS_PER_CLUSTER bound what a plan has under
\* way, the action whose operation was just called included, while reports,
\* time-outs and several callers of execute_plans come in between.
WithinLimits ==
    \A p \in PlanId :
        /\ Cardinality(Started(p)) <= MaxActionsPerCluster
        /\ \A h \in Host : Cardinality(StartedOn(p, h)) <= MaxActionsPerHost


=============================================================================
