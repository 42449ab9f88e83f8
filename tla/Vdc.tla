-------------------------------- MODULE Vdc --------------------------------
(***************************************************************************)
(* Virtual data centers of oned (Vdc.cc, VdcAPI.cc) and the access rules   *)
(* they keep in the ACL manager.  A VDC gives its groups access to its     *)
(* resources; it does so by adding and deleting rules as groups and        *)
(* resources come and go.  Rules have no owner: a rule that two grants     *)
(* need exists once, and the first grant that ends deletes it.             *)
(*                                                                         *)
(* A VDC is edited under its lock, rules included, so every operation is   *)
(* one step.  Dropping a group, host, datastore or cluster is several: the *)
(* object goes first, then one VDC after the other is told.                *)
(***************************************************************************)
EXTENDS Integers

CONSTANTS Vdc,        \* VDC ids
          Group,      \* group ids
          Resource,   \* records [kind, zone, id]
          All         \* Vdc::ALL_RESOURCES

VARIABLES live,       \* the VDCs of the pool
          used,       \* ids handed out so far; ids are never reused
          groups,     \* Vdc::groups
          resources,  \* Vdc::clusters, hosts, datastores and vnets
          rules,      \* the rules AclManager holds for groups of VDCs
          objects,    \* groups and resources that exist; ALL always does
          sweep       \* <<object, vdc>>: VDCs a drop has still to visit

vdcVars == <<live, used, groups, resources, rules, objects, sweep>>

Kinds == {"CLUSTER", "HOST", "NET", "DATASTORE"}

ASSUME VdcAssumption ==
    /\ \A r \in Resource : r.kind \in Kinds
    /\ Group \cap Resource = {}

-----------------------------------------------------------------------------
(* Rules.                                                                  *)

\* A resource set of clusters has a rule for each kind of object in a cluster.
RuleTypes(kind) ==
    IF kind = "CLUSTER" THEN {"HOST", "NET", "DATASTORE"} ELSE {kind}

\* The target of a rule: everything, the objects of a cluster, or one object.
MaskPrefix(r) ==
    IF r.id = All THEN "all" ELSE IF r.kind = "CLUSTER" THEN "cluster" ELSE "id"

RulesFor(g, r) ==
    {[group |-> g, type |-> t, by |-> MaskPrefix(r), id |-> r.id, zone |-> r.zone] :
        t \in RuleTypes(r.kind)}

RulesOf(G, R) == UNION {RulesFor(g, r) : g \in G, r \in R}

-----------------------------------------------------------------------------
(* Operations on one VDC.                                                  *)

Contents(v) == groups[v] \cup resources[v]

Allocate(v) ==
    /\ v \notin used
    /\ live' = live \cup {v}
    /\ used' = used \cup {v}
    /\ UNCHANGED <<groups, resources, rules, objects, sweep>>

\* The bug of dropping the row only.
Mut_DropVdc(v) ==
    /\ v \in live
    /\ live' = live \ {v}
    /\ UNCHANGED <<used, groups, resources, rules, objects, sweep>>

DropVdc(v) ==
    /\ v \in live
    /\ live' = live \ {v}
    /\ groups' = [groups EXCEPT ![v] = {}]
    /\ resources' = [resources EXCEPT ![v] = {}]
    /\ rules' = rules \ RulesOf(groups[v], resources[v])
    /\ UNCHANGED <<used, objects, sweep>>

\* The bug of a new group without the rules for what the VDC already has.
Mut_AddGroup(v, g) ==
    /\ v \in live /\ g \notin groups[v]
    /\ groups' = [groups EXCEPT ![v] = @ \cup {g}]
    /\ UNCHANGED <<live, used, resources, rules, objects>>

AddGroup(v, g) ==
    /\ v \in live /\ g \notin groups[v]
    /\ groups' = [groups EXCEPT ![v] = @ \cup {g}]
    /\ rules' = rules \cup RulesOf({g}, resources[v])
    /\ UNCHANGED <<live, used, resources, objects>>

DelGroup(v, g) ==
    /\ v \in live /\ g \in groups[v]
    /\ groups' = [groups EXCEPT ![v] = @ \ {g}]
    /\ rules' = rules \ RulesOf({g}, resources[v])
    /\ UNCHANGED <<live, used, resources, objects>>

\* Adding ALL removes the other resources of the set in that zone.
Cleared(v, r) ==
    {x \in resources[v] : r.id = All /\ x.kind = r.kind /\ x.zone = r.zone /\ x.id # All}

AddResource(v, r) ==
    /\ v \in live /\ r \notin resources[v]
    /\ resources' = [resources EXCEPT ![v] = (@ \cup {r}) \ Cleared(v, r)]
    /\ rules' = (rules \cup RulesOf(groups[v], {r})) \ RulesOf(groups[v], Cleared(v, r))
    /\ UNCHANGED <<live, used, groups, objects>>

\* The bug of forgetting that the groups of the VDC lose the resource.
Mut_DelResource(v, r) ==
    /\ v \in live /\ r \in resources[v]
    /\ resources' = [resources EXCEPT ![v] = @ \ {r}]
    /\ UNCHANGED <<live, used, groups, rules, objects>>

DelResource(v, r) ==
    /\ v \in live /\ r \in resources[v]
    /\ resources' = [resources EXCEPT ![v] = @ \ {r}]
    /\ rules' = rules \ RulesOf(groups[v], {r})
    /\ UNCHANGED <<live, used, groups, objects>>

\* One call of VdcAPI::edit_group or edit_resource past its checks.
Add(v, x) ==
    \/ x \in Group /\ AddGroup(v, x)
    \/ x \in Resource /\ AddResource(v, x)

Del(v, x) ==
    \/ x \in Group /\ DelGroup(v, x)
    \/ x \in Resource /\ DelResource(v, x)

-----------------------------------------------------------------------------
(* Dropping an object VDCs may hold.                                       *)

\* GroupAPI::drop deletes the rules of the group and ClusterAPI::drop those of
\* the cluster, in every zone, before any VDC is visited; for a host or a datastore no rule
\* goes before its VDC is.
DropsRule(x, rule) ==
    \/ x \in Group /\ rule.group = x
    \/ x \in Resource /\ x.kind = "CLUSTER" /\ rule.by = "cluster" /\ rule.id = x.id

Droppable(x) ==
    \/ x \in Group
    \/ x \in Resource /\ x.id # All /\ x.kind \in {"HOST", "DATASTORE", "CLUSTER"}

DropObject(x) ==
    /\ x \in objects /\ Droppable(x)
    /\ objects' = objects \ {x}
    /\ sweep' = sweep \cup {<<x, v>> : v \in live}
    /\ rules' = {rule \in rules : ~ DropsRule(x, rule)}
    /\ UNCHANGED <<live, used, groups, resources>>

\* The loop over the pool reaches v: a VDC that is gone or that does not hold
\* the object is passed over.
Sweep(x, v) ==
    /\ <<x, v>> \in sweep
    /\ sweep' = sweep \ {<<x, v>>}
    /\ \/ Del(v, x)
       \/ /\ v \notin live \/ x \notin Contents(v)
          /\ UNCHANGED <<live, used, groups, resources, rules, objects>>

-----------------------------------------------------------------------------
(* The VDCs alone.                                                         *)

Init ==
    /\ live = {}
    /\ used = {}
    /\ groups = [v \in Vdc |-> {}]
    /\ resources = [v \in Vdc |-> {}]
    /\ rules = {}
    /\ objects = Group \cup Resource
    /\ sweep = {}

Next ==
    \/ \E v \in Vdc : Allocate(v) \/ DropVdc(v)
    \/ \E v \in Vdc, x \in Group \cup Resource :
          \/ (Add(v, x) \/ Del(v, x)) /\ UNCHANGED sweep
          \/ Sweep(x, v)
    \/ \E x \in Group \cup Resource : DropObject(x)

Spec == Init /\ [][Next]_vdcVars

-----------------------------------------------------------------------------
(* Properties.                                                             *)

VdcTypeOK ==
    /\ live \subseteq used /\ used \subseteq Vdc
    /\ groups \in [Vdc -> SUBSET Group]
    /\ resources \in [Vdc -> SUBSET Resource]
    /\ rules \subseteq RulesOf(Group, Resource)
    /\ objects \subseteq Group \cup Resource
    /\ sweep \subseteq (Group \cup Resource) \X Vdc
    /\ \A v \in Vdc \ live : Contents(v) = {}

\* No rule outlives what it was made for: every rule of a group belongs to a
\* resource of some VDC the group is in.  Deletions of groups, resources and
\* VDCs, the clearing that ALL implies and the visits of a drop all take their
\* rules along, in any order.
NoOrphanRule ==
    \A rule \in rules : \E v \in live : rule \in RulesOf(groups[v], resources[v])

\* What a VDC grants is granted: for a group of a VDC and a resource of it,
\* both existing, every rule is there.  ResourceSet::add and add_group update
\* the rules with the set; this holds as long as no two grants share a rule.
GrantsHaveRules ==
    \A v \in live : RulesOf(groups[v] \cap objects, resources[v] \cap objects) \subseteq rules
=============================================================================
