-------------------------- MODULE SchedulerHistory --------------------------
(***************************************************************************)
(* Scheduler with what the program does not keep: the action that started  *)
(* the operation a VM is busy with, and the plans that were added while    *)
(* something of an earlier plan with their number was left.                *)
(***************************************************************************)
EXTENDS Scheduler

VARIABLES work,     \* per VM: plan and number of the action under way, or NoTag
          mixed     \* plans whose numbers may be taken for those of an earlier plan

historyVars == <<vars, work, mixed>>

Starts(p, v) ==
    exec[p] = Loop /\ exec'[p] \in Numbers(p) /\ plan[p].actions[exec'[p]].vm = v

\* A VM or a report carries a number of p, or an operation p started is under way.
Left(p) ==
    \/ \E v \in Vm : \E t \in {vm[v].tag, work[v]} : t # NoTag /\ t[1] = p
    \/ \E r \in reports : r.plan = p

\* The step gives p new actions.
IsAdded(p) ==
    /\ plan'[p].actions \notin {plan[p].actions, <<>>}
    /\ \A i \in DOMAIN plan'[p].actions : plan'[p].actions[i].state = "READY"

Record ==
    /\ work' = [v \in Vm |->
          IF vm'[v].st # "busy" THEN NoTag
          ELSE LET ps == {p \in PlanId : Starts(p, v)}
               IN IF ps = {} THEN work[v]
                  ELSE LET p == CHOOSE q \in ps : TRUE IN <<p, exec'[p]>>]
    /\ mixed' = {p \in PlanId : IF IsAdded(p) THEN Left(p) ELSE p \in mixed}

HistoryInit == Init /\ work = [v \in Vm |-> NoTag] /\ mixed = {}

HistoryNext == Next /\ Record

HistorySpec == HistoryInit /\ [][HistoryNext]_historyVars

-----------------------------------------------------------------------------

=============================================================================
