---------------------------- MODULE MCScheduler ----------------------------
(***************************************************************************)
(* SchedulerHistory for TLC.  BoundedSpec counts the plans that are added  *)
(* and stops at MaxPlans, and leaves VMs to the plans.                     *)
(***************************************************************************)
EXTENDS SchedulerHistory, TLC

CONSTANT MaxPlans

VARIABLE added

\* A user starts an operation, or has the VM placed again.
IsUsers ==
    \E v \in Vm :
        /\ vm[v].st \in {"running", "failed"} /\ vm'[v].st \in {"busy", "pending"}
        /\ \A p \in PlanId : ~ Starts(p, v)

BoundedInit == HistoryInit /\ added = 0

BoundedNext ==
    /\ HistoryNext
    /\ ~ IsUsers
    /\ added' = added + Cardinality({p \in PlanId : IsAdded(p)})
    /\ added' <= MaxPlans

BoundedSpec == BoundedInit /\ [][BoundedNext]_<<historyVars, added>>

Perms == Permutations(Vm)
=============================================================================
