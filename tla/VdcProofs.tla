----------------------------- MODULE VdcProofs -----------------------------
(***************************************************************************)
(* No access rule outlives its grant, for any number of VDCs, groups,      *)
(* resources and requests.                                                 *)
(***************************************************************************)
EXTENDS VdcUpdate, TLAPS

\* The inductive invariant: NoOrphanRule and the types its proof needs.
RuleInv ==
    /\ live \subseteq Vdc
    /\ groups \in [Vdc -> SUBSET Group]
    /\ resources \in [Vdc -> SUBSET Resource]
    /\ NoOrphanRule

\* A VDC justifies a rule by one of its groups and one of its resources.
LEMMA RulesOfMember ==
    ASSUME NEW G, NEW R, NEW rule
    PROVE  rule \in RulesOf(G, R) <=> \E g \in G, r \in R : rule \in RulesFor(g, r)
BY DEF RulesOf

\* A step on one VDC preserves the invariant when every rule it leaves was made
\* by it or was justified by this VDC and still is.
LEMMA StepOnOne ==
    ASSUME RuleInv, NEW v \in live, live' \subseteq live,
           live \ {v} \subseteq live',
           groups' \in [Vdc -> SUBSET Group],
           resources' \in [Vdc -> SUBSET Resource],
           \A w \in Vdc \ {v} : groups'[w] = groups[w] /\ resources'[w] = resources[w],
           \A rule \in rules' :
              \/ rule \in rules /\ rule \notin RulesOf(groups[v], resources[v])
              \/ v \in live' /\ rule \in RulesOf(groups'[v], resources'[v])
    PROVE  RuleInv'
<1>1. NoOrphanRule'
  <2> SUFFICES ASSUME NEW rule \in rules'
               PROVE  \E w \in live' : rule \in RulesOf(groups'[w], resources'[w])
    BY DEF NoOrphanRule, RulesOf, RulesFor, MaskPrefix, RuleTypes
  <2>1. CASE v \in live' /\ rule \in RulesOf(groups'[v], resources'[v])
    BY <2>1
  <2>2. CASE rule \in rules /\ rule \notin RulesOf(groups[v], resources[v])
    <3>1. PICK w \in live : rule \in RulesOf(groups[w], resources[w])
      BY <2>2 DEF RuleInv, NoOrphanRule
    <3>2. w # v /\ w \in live' /\ w \in Vdc \ {v}
      BY <3>1, <2>2 DEF RuleInv
    <3>3. groups'[w] = groups[w] /\ resources'[w] = resources[w]
      BY <3>2
    <3> QED
      BY <3>1, <3>2, <3>3
  <2> QED
    BY <2>1, <2>2
<1>2. live' \subseteq Vdc
  BY DEF RuleInv
<1> QED
  BY <1>1, <1>2 DEF RuleInv

\* Vdc::drop takes all rules of the VDC along.
LEMMA DropVdcRules ==
    ASSUME RuleInv, NEW v, DropVdc(v)
    PROVE  RuleInv'
<1>1. v \in live /\ v \in Vdc
  BY DEF DropVdc, RuleInv
<1>2. live' = live \ {v} /\ rules' = rules \ RulesOf(groups[v], resources[v])
  BY DEF DropVdc
<1>3. groups' \in [Vdc -> SUBSET Group] /\ resources' \in [Vdc -> SUBSET Resource]
  BY <1>1 DEF DropVdc, RuleInv
<1>4. \A w \in Vdc \ {v} : groups'[w] = groups[w] /\ resources'[w] = resources[w]
  BY <1>1 DEF DropVdc, RuleInv
<1> QED
  BY <1>1, <1>2, <1>3, <1>4, StepOnOne

\* Vdc::add_group adds rules for resources of the VDC only.
LEMMA AddGroupRules ==
    ASSUME RuleInv, NEW v, NEW g \in Group, AddGroup(v, g)
    PROVE  RuleInv'
<1>1. v \in live /\ v \in Vdc /\ live' = live
  BY DEF AddGroup, RuleInv
<1>2. /\ groups' \in [Vdc -> SUBSET Group] /\ groups'[v] = groups[v] \cup {g}
      /\ resources' = resources
  BY <1>1 DEF AddGroup, RuleInv
<1>3. \A w \in Vdc \ {v} : groups'[w] = groups[w] /\ resources'[w] = resources[w]
  BY <1>1 DEF AddGroup, RuleInv
<1>4. ASSUME NEW rule \in rules'
      PROVE  \/ rule \in rules /\ rule \notin RulesOf(groups[v], resources[v])
             \/ rule \in RulesOf(groups'[v], resources'[v])
  <2>1. rule \in rules \/ rule \in RulesOf({g}, resources[v])
    BY <1>4 DEF AddGroup
  <2>2. CASE rule \in RulesOf({g}, resources[v])
    BY <2>2, <1>2, RulesOfMember
  <2>3. CASE rule \in RulesOf(groups[v], resources[v])
    <3>1. \E h \in groups[v], r \in resources[v] : rule \in RulesFor(h, r)
      BY <2>3, RulesOfMember
    <3>2. \E h \in groups'[v], r \in resources'[v] : rule \in RulesFor(h, r)
      BY <3>1, <1>2
    <3> QED
      BY <3>2, RulesOfMember
  <2> QED
    BY <2>1, <2>2, <2>3
<1> QED
  BY <1>1, <1>2, <1>3, <1>4, StepOnOne DEF RuleInv

\* Vdc::del_group deletes the rules the group had from the VDC.
LEMMA DelGroupRules ==
    ASSUME RuleInv, NEW v, NEW g \in Group, DelGroup(v, g)
    PROVE  RuleInv'
<1>1. v \in live /\ v \in Vdc /\ live' = live
  BY DEF DelGroup, RuleInv
<1>2. /\ groups' \in [Vdc -> SUBSET Group] /\ groups'[v] = groups[v] \ {g}
      /\ resources' = resources
  BY <1>1 DEF DelGroup, RuleInv
<1>3. \A w \in Vdc \ {v} : groups'[w] = groups[w] /\ resources'[w] = resources[w]
  BY <1>1 DEF DelGroup, RuleInv
<1>4. ASSUME NEW rule \in rules'
      PROVE  \/ rule \in rules /\ rule \notin RulesOf(groups[v], resources[v])
             \/ rule \in RulesOf(groups'[v], resources'[v])
  <2>1. rule \in rules /\ rule \notin RulesOf({g}, resources[v])
    BY <1>4 DEF DelGroup
  <2>2. CASE rule \in RulesOf(groups[v], resources[v])
    BY <2>1, <2>2, <1>2, RulesOfMember
  <2> QED
    BY <2>1, <2>2
<1> QED
  BY <1>1, <1>2, <1>3, <1>4, StepOnOne DEF RuleInv

\* ResourceSet::add adds the rules of the resource and deletes those of what
\* ALL clears.
LEMMA AddResourceRules ==
    ASSUME RuleInv, NEW v, NEW r \in Resource, AddResource(v, r)
    PROVE  RuleInv'
<1> DEFINE out == Cleared(v, r)
<1>1. v \in live /\ v \in Vdc /\ live' = live
  BY DEF AddResource, RuleInv
<1>2. /\ resources' \in [Vdc -> SUBSET Resource]
      /\ resources'[v] = (resources[v] \cup {r}) \ out
      /\ groups' = groups
  BY <1>1 DEF AddResource, RuleInv
<1>3. \A w \in Vdc \ {v} : groups'[w] = groups[w] /\ resources'[w] = resources[w]
  BY <1>1 DEF AddResource, RuleInv
<1>4. r \notin out
  BY DEF AddResource, Cleared
<1>5. ASSUME NEW rule \in rules'
      PROVE  \/ rule \in rules /\ rule \notin RulesOf(groups[v], resources[v])
             \/ rule \in RulesOf(groups'[v], resources'[v])
  <2>1. /\ rule \in rules \/ rule \in RulesOf(groups[v], {r})
        /\ rule \notin RulesOf(groups[v], out)
    BY <1>5 DEF AddResource
  <2> HIDE DEF out
  <2>2. CASE rule \in RulesOf(groups[v], {r})
    BY <2>2, <1>2, <1>4, RulesOfMember
  <2>3. CASE rule \in RulesOf(groups[v], resources[v])
    BY <2>1, <2>3, <1>2, RulesOfMember
  <2> QED
    BY <2>1, <2>2, <2>3
<1> QED
  BY <1>1, <1>2, <1>3, <1>5, StepOnOne DEF RuleInv

\* ResourceSet::del deletes the rules all groups had for the resource.
LEMMA DelResourceRules ==
    ASSUME RuleInv, NEW v, NEW r \in Resource, DelResource(v, r)
    PROVE  RuleInv'
<1>1. v \in live /\ v \in Vdc /\ live' = live
  BY DEF DelResource, RuleInv
<1>2. /\ resources' \in [Vdc -> SUBSET Resource]
      /\ resources'[v] = resources[v] \ {r}
      /\ groups' = groups
  BY <1>1 DEF DelResource, RuleInv
<1>3. \A w \in Vdc \ {v} : groups'[w] = groups[w] /\ resources'[w] = resources[w]
  BY <1>1 DEF DelResource, RuleInv
<1>4. ASSUME NEW rule \in rules'
      PROVE  \/ rule \in rules /\ rule \notin RulesOf(groups[v], resources[v])
             \/ rule \in RulesOf(groups'[v], resources'[v])
  <2>1. rule \in rules /\ rule \notin RulesOf(groups[v], {r})
    BY <1>4 DEF DelResource
  <2>2. CASE rule \in RulesOf(groups[v], resources[v])
    BY <2>1, <2>2, <1>2, RulesOfMember
  <2> QED
    BY <2>1, <2>2
<1> QED
  BY <1>1, <1>2, <1>3, <1>4, StepOnOne DEF RuleInv

\* What a step needs that touches neither VDCs nor their contents.
LEMMA FewerRules ==
    ASSUME RuleInv, live \subseteq live', live' \subseteq Vdc,
           groups' = groups, resources' = resources, rules' \subseteq rules
    PROVE  RuleInv'
<1>1. ASSUME NEW rule \in rules'
      PROVE  \E w \in live' : rule \in RulesOf(groups'[w], resources'[w])
  BY <1>1 DEF RuleInv, NoOrphanRule
<1>2. NoOrphanRule'
  BY <1>1 DEF NoOrphanRule, RulesOf, RulesFor, MaskPrefix, RuleTypes
<1> QED
  BY <1>2 DEF RuleInv

\* Every edit of a VDC, by a request or by the visit of a drop.
LEMMA EditRules ==
    ASSUME RuleInv, NEW v, NEW x, Add(v, x) \/ Del(v, x)
    PROVE  RuleInv'
<1>1. CASE x \in Group /\ AddGroup(v, x)
  BY <1>1, AddGroupRules
<1>2. CASE x \in Resource /\ AddResource(v, x)
  BY <1>2, AddResourceRules
<1>3. CASE x \in Group /\ DelGroup(v, x)
  BY <1>3, DelGroupRules
<1>4. CASE x \in Resource /\ DelResource(v, x)
  BY <1>4, DelResourceRules
<1> QED
  BY <1>1, <1>2, <1>3, <1>4 DEF Add, Del

\* Each step of oned on VDCs, alone or with FireEdge on top, preserves it.
LEMMA NextRules ==
    ASSUME RuleInv, [Next]_vdcVars
    PROVE  RuleInv'
<1>1. ASSUME NEW v \in Vdc, Allocate(v) PROVE RuleInv'
  BY <1>1, FewerRules DEF Allocate, RuleInv
<1>2. ASSUME NEW v \in Vdc, DropVdc(v) PROVE RuleInv'
  BY <1>2, DropVdcRules
<1>3. ASSUME NEW v \in Vdc, NEW x, Sweep(x, v) PROVE RuleInv'
  <2>1. CASE Del(v, x)
    BY <2>1, EditRules
  <2>2. CASE UNCHANGED <<live, used, groups, resources, rules, objects>>
    BY <2>2, FewerRules DEF RuleInv
  <2> QED
    BY <1>3, <2>1, <2>2 DEF Sweep
<1>4. ASSUME NEW x, DropObject(x) PROVE RuleInv'
  BY <1>4, FewerRules DEF DropObject, RuleInv
<1>5. CASE UNCHANGED vdcVars
  BY <1>5, FewerRules DEF vdcVars, RuleInv
<1> QED
  BY <1>1, <1>2, <1>3, <1>4, <1>5, EditRules DEF Next

\* The routes of FireEdge change VDCs only by operations of oned.
LEMMA UpdateIsNext ==
    ASSUME RuleInv, [UpdateNext]_vars
    PROVE  [Next]_vdcVars
<1>1. ASSUME NEW q \in Request, Handle(q) PROVE [Next]_vdcVars
  <2>1. ASSUME NEW v \in Vdc, HandleAllocate(q, v) PROVE Next
    BY <2>1 DEF HandleAllocate, Next
  <2>2. ASSUME NEW c \in req[q].calls, Edit(q, c) PROVE [Next]_vdcVars
    <3> DEFINE v == req[q].vdc
    <3>1. CASE UNCHANGED <<live, used, groups, resources, rules, objects>>
      BY <2>2, <3>1 DEF Edit, vdcVars
    <3>2. ASSUME Add(v, c.what) \/ Del(v, c.what) PROVE Next
      <4>1. v \in Vdc /\ c.what \in Group \cup Resource
        BY <3>2 DEF Add, Del, AddGroup, AddResource, DelGroup, DelResource, RuleInv
      <4>2. UNCHANGED sweep
        BY <2>2 DEF Edit
      <4> HIDE DEF v
      <4> QED
        BY <3>2, <4>1, <4>2 DEF Next
    <3>3. Add(v, c.what) \/ Del(v, c.what)
            \/ UNCHANGED <<live, used, groups, resources, rules, objects>>
      BY <2>2 DEF Edit
    <3> QED
      BY <3>1, <3>2, <3>3
  <2>3. ASSUME NEW c \in req[q].calls, Check(q, c) PROVE UNCHANGED vdcVars
    BY <2>3 DEF Check
  <2>4. CASE RefuseAllocate(q) \/ HandleUpdate(q) \/ HandleInfo(q)
    BY <2>4 DEF RefuseAllocate, HandleUpdate, HandleInfo
  <2> QED
    BY <1>1, <2>1, <2>2, <2>3, <2>4 DEF Handle
<1>2. ASSUME NEW q, NEW v, NEW want, StartCreate(q, want) \/ StartUpdate(q, v, want)
      PROVE  UNCHANGED vdcVars
  BY <1>2 DEF StartCreate, StartUpdate
<1>3. ASSUME NEW q, NEW c, LoseCall(q, c) PROVE UNCHANGED vdcVars
  BY <1>3 DEF LoseCall
<1>4. ASSUME NEW v \in Vdc, Drop(v) PROVE Next
  BY <1>4 DEF Drop, Next
<1>5. ASSUME NEW x \in Group \cup Resource, Remove(x) PROVE Next
  BY <1>5 DEF Remove, Next
<1>6. ASSUME NEW x \in Group \cup Resource, NEW v \in Vdc, Visit(x, v) PROVE Next
  BY <1>6 DEF Visit, Next
<1>7. CASE UNCHANGED vars
  BY <1>7 DEF vars, vdcVars
<1> QED
  BY <1>1, <1>2, <1>3, <1>4, <1>5, <1>6, <1>7 DEF UpdateNext

\* In oned no access rule of a group outlives what it was made for: Vdc's
\* operations, the clearing ALL implies and the visits of drops delete their
\* rules in every order.
THEOREM NoOrphanInOned == Spec => []NoOrphanRule
<1>1. Init => RuleInv
  BY DEF Init, RuleInv, NoOrphanRule
<1>2. RuleInv /\ [Next]_vdcVars => RuleInv'
  BY NextRules
<1>3. RuleInv => NoOrphanRule
  BY DEF RuleInv
<1> QED
  BY <1>1, <1>2, <1>3, PTL DEF Spec

\* The same with createVdc and updateVdc of FireEdge sending their additions
\* and deletions concurrently, failing and being lost.
THEOREM NoOrphanUnderFireEdge == UpdateSpec => []NoOrphanRule
<1>1. UpdateInit => RuleInv
  <2> SUFFICES ASSUME UpdateInit PROVE RuleInv
    OBVIOUS
  <2>1. PICK has \in Wants[First] :
          /\ groups = [v \in Vdc |-> IF v = First THEN has \cap Group ELSE {}]
          /\ resources = [v \in Vdc |-> IF v = First THEN has \cap Resource ELSE {}]
          /\ rules = RulesOf(has \cap Group, has \cap Resource)
    BY DEF UpdateInit
  <2>2. First \in Vdc /\ live = {First}
    BY VdcUpdateAssumption DEF UpdateInit
  <2>3. groups \in [Vdc -> SUBSET Group] /\ resources \in [Vdc -> SUBSET Resource]
    BY <2>1
  <2>4. groups[First] = has \cap Group /\ resources[First] = has \cap Resource
    BY <2>1, <2>2
  <2> QED
    BY <2>1, <2>2, <2>3, <2>4 DEF RuleInv, NoOrphanRule
<1>2. RuleInv /\ [UpdateNext]_vars => RuleInv'
  BY UpdateIsNext, NextRules
<1>3. RuleInv => NoOrphanRule
  BY DEF RuleInv
<1> QED
  BY <1>1, <1>2, <1>3, PTL DEF UpdateSpec
=============================================================================
