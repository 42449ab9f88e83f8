----------------------------- MODULE VdcUpdate -----------------------------
(***************************************************************************)
(* The VDC routes of FireEdge (routes/api/vdc/functions.js) on top of oned.*)
(* createVdc allocates a VDC, sends all its additions at once and answers  *)
(* without waiting for them.  updateVdc reads the VDC, sends the           *)
(* difference to what the request wants as one call per group or resource, *)
(* all at once, and answers with the last callback.  The calls of all      *)
(* requests run concurrently in oned.                                      *)
(*                                                                         *)
(* When a call of an update failed, the last callback calls `join' on an   *)
(* object that has none: the exception is not caught, the FireEdge process *)
(* ends and is started again, and every request in it loses its callbacks. *)
(* What they had sent may still be handled by oned, or not.                *)
(***************************************************************************)
EXTENDS Vdc, FiniteSets

CONSTANTS MaxRequest,\* bound on HTTP requests, numbered as they come in
          Wants,     \* for each VDC, the contents a request may ask for
          First,     \* the VDC that exists when the behaviour starts
          NoVdc,     \* the VDC of a creation that has no id yet
          MaxDrop    \* bound on VDCs, groups and resources dropped

ASSUME VdcUpdateAssumption ==
    /\ First \in Vdc /\ NoVdc \notin Vdc
    /\ Wants \in [Vdc -> SUBSET SUBSET (Group \cup Resource)]
    /\ MaxRequest \in Nat /\ MaxDrop \in Nat

VARIABLES req,       \* the requests of FireEdge
          raced      \* history: objects dropped while an addition of them was past its check

Request == 1..MaxRequest

vars == <<live, used, groups, resources, rules, objects, sweep, req, raced>>

\* A call is an addition or deletion; "sent" until oned has checked its object.
CallOf(op, x) == [op |-> op, what |-> x, st |-> "sent"]

Active == {"create", "update", "info", "calls"}

Running(q) == req[q].pc \in Active

\* A request of a FireEdge process that ended: its calls are still under way.
Orphaned(q) == req[q].pc = "lost" /\ req[q].calls # {}

-----------------------------------------------------------------------------
(* Requests.                                                               *)

Arrives(q) == req[q].pc = "idle" /\ \A p \in 1..(q - 1) : req[p].pc # "idle"

StartCreate(q, want) ==
    /\ Arrives(q)
    /\ req' = [req EXCEPT ![q].pc = "create", ![q].kind = "create", ![q].want = want]
    /\ UNCHANGED <<vdcVars, raced>>

\* VDC_ALLOCATE and its callback: additions go out, the answer does not wait.
HandleAllocate(q, v) ==
    /\ req[q].pc = "create" /\ req[q].want \in Wants[v]
    /\ Allocate(v)
    /\ req' = [req EXCEPT ![q].pc = "calls", ![q].vdc = v, ![q].answer = "ok",
                          ![q].calls = {CallOf("add", x) : x \in req[q].want}]
    /\ UNCHANGED raced

\* VdcPool::allocate may refuse, for one when the name is taken: badRequest.
RefuseAllocate(q) ==
    /\ req[q].pc = "create"
    /\ req' = [req EXCEPT ![q].pc = "done", ![q].answer = "error"]
    /\ UNCHANGED <<vdcVars, raced>>

StartUpdate(q, v, want) ==
    /\ Arrives(q)
    /\ v \in used
    /\ req' = [req EXCEPT ![q].pc = "update", ![q].kind = "update", ![q].vdc = v,
                          ![q].want = want]
    /\ UNCHANGED <<vdcVars, raced>>

\* VDC_UPDATE sets the template and VDC_INFO follows; badRequest if the VDC is gone.
HandleUpdate(q) ==
    /\ req[q].pc = "update"
    /\ req' = IF req[q].vdc \in live
              THEN [req EXCEPT ![q].pc = "info"]
              ELSE [req EXCEPT ![q].pc = "done", ![q].answer = "error"]
    /\ UNCHANGED <<vdcVars, raced>>

\* resourcesForDelete, resourcesForAdd, groupsForVDC: by comparison with VDC_INFO.
ForDelete(has, want) == has \ want

\* The bug of adding what is already there.
Mut_ForAdd(has, want) == want

ForAdd(has, want) == want \ has

CallsFor(has, want) ==
    {CallOf("del", x) : x \in ForDelete(has, want)}
        \cup {CallOf("add", x) : x \in ForAdd(has, want)}


\* callbackInfo; the generateResult at its end answers when nothing was sent.
HandleInfo(q) ==
    /\ req[q].pc = "info"
    /\ LET v     == req[q].vdc
           calls == CallsFor(Contents(v), req[q].want)
       IN req' = CASE v \notin live ->
                        [req EXCEPT ![q].pc = "done", ![q].answer = "error"]
                   [] v \in live /\ calls = {} ->
                        [req EXCEPT ![q].pc = "done", ![q].answer = "ok"]
                   [] v \in live /\ calls # {} ->
                        [req EXCEPT ![q].pc = "calls", ![q].calls = calls]
    /\ UNCHANGED <<vdcVars, raced>>

-----------------------------------------------------------------------------
(* Calls and their callbacks.                                              *)

\* The exception of callbackRequest: the process ends with all its requests.
Exit(rs) ==
    [q \in Request |-> IF rs[q].pc \in Active THEN [rs[q] EXCEPT !.pc = "lost"] ELSE rs[q]]

\* callbackRequest, when every call has been counted.
LastCallback(rs, q) ==
    IF rs[q].kind = "create" THEN [rs EXCEPT ![q].pc = "done"]
    ELSE IF rs[q].failed THEN Exit(rs)
    ELSE [rs EXCEPT ![q].pc = "done", ![q].answer = "ok"]

\* The bug of answering with the first callback.
Mut_Callback(q, c, ok) ==
    LET rs == [req EXCEPT ![q].calls = @ \ {c}, ![q].failed = @ \/ ~ok]
    IN req' = IF rs[q].pc = "calls" THEN LastCallback(rs, q) ELSE rs

\* The callback of call c, which succeeded or not.
Callback(q, c, ok) ==
    LET rs == [req EXCEPT ![q].calls = @ \ {c}, ![q].failed = @ \/ ~ok]
    IN req' = IF rs[q].pc = "calls" /\ rs[q].calls = {} THEN LastCallback(rs, q) ELSE rs

\* The bug of adding what is gone.
Mut_Exists(x) == TRUE

\* The object of an addition must exist; this is checked before the VDC is locked.
Exists(x) == x \in objects

Check(q, c) ==
    /\ c \in req[q].calls /\ c.op = "add" /\ c.st = "sent"
    /\ IF req[q].vdc \in live /\ Exists(c.what)
       THEN req' = [req EXCEPT ![q].calls = (@ \ {c}) \cup {[c EXCEPT !.st = "checked"]}]
       ELSE Callback(q, c, FALSE)
    /\ UNCHANGED <<vdcVars, raced>>

\* The VDC is locked, edited and saved; a deletion has no object to check.
Edit(q, c) ==
    LET v   == req[q].vdc
        can == v \in live /\ (c.op = "add" <=> c.what \notin Contents(v))
    IN /\ c \in req[q].calls /\ (c.op = "add" => c.st = "checked")
       /\ \/ can /\ c.op = "add" /\ Add(v, c.what)
          \/ can /\ c.op = "del" /\ Del(v, c.what)
          \/ ~can /\ UNCHANGED <<live, used, groups, resources, rules, objects>>
       /\ Callback(q, c, can)
       /\ UNCHANGED <<sweep, raced>>

\* A call the ended process had not got out, or whose connection broke.
LoseCall(q, c) ==
    /\ Orphaned(q)
    /\ c \in req[q].calls /\ c.st = "sent"
    /\ req' = [req EXCEPT ![q].calls = @ \ {c}]
    /\ UNCHANGED <<vdcVars, raced>>

-----------------------------------------------------------------------------
(* Administrators at work meanwhile.                                       *)

Dropped == (Group \cup Resource) \ objects

MayDrop == Cardinality(Dropped) + Cardinality(used \ live) < MaxDrop

Drop(v) == MayDrop /\ DropVdc(v) /\ UNCHANGED <<req, raced>>

PastCheck(x) ==
    \E q \in Request : \E c \in req[q].calls :
        c.op = "add" /\ c.what = x /\ c.st = "checked"

Remove(x) ==
    /\ MayDrop
    /\ DropObject(x)
    /\ raced' = IF PastCheck(x) THEN raced \cup {x} ELSE raced
    /\ UNCHANGED req

Visit(x, v) == Sweep(x, v) /\ UNCHANGED <<req, raced>>

-----------------------------------------------------------------------------

\* FireEdge and oned are up, one VDC is there, as some earlier request left it.
UpdateInit ==
    /\ live = {First} /\ used = {First}
    /\ \E has \in Wants[First] :
          /\ groups = [v \in Vdc |-> IF v = First THEN has \cap Group ELSE {}]
          /\ resources = [v \in Vdc |-> IF v = First THEN has \cap Resource ELSE {}]
          /\ rules = RulesOf(has \cap Group, has \cap Resource)
    /\ objects = Group \cup Resource
    /\ sweep = {}
    /\ req = [q \in Request |-> [pc |-> "idle", kind |-> "none", vdc |-> NoVdc, want |-> {},
                                calls |-> {}, failed |-> FALSE, answer |-> "none"]]
    /\ raced = {}

Handle(q) ==
    \/ \E v \in Vdc : HandleAllocate(q, v)
    \/ RefuseAllocate(q)
    \/ HandleUpdate(q)
    \/ HandleInfo(q)
    \/ \E c \in req[q].calls : Check(q, c) \/ Edit(q, c)

UpdateNext ==
    \/ \E q \in Request : \E v \in Vdc : \E want \in Wants[v] :
          StartCreate(q, want) \/ StartUpdate(q, v, want)
    \/ \E q \in Request : Handle(q)
    \/ \E q \in Request : \E c \in req[q].calls : LoseCall(q, c)
    \/ \E v \in Vdc : Drop(v)
    \/ \E x \in Group \cup Resource : Remove(x) \/ (\E v \in Vdc : Visit(x, v))

\* oned answers what it is asked, within the time FireEdge waits.
UpdateSpec ==
    /\ UpdateInit /\ [][UpdateNext]_vars
    /\ \A q \in Request : WF_vars(Handle(q))

-----------------------------------------------------------------------------
(* Properties.                                                             *)

TypeOK ==
    /\ VdcTypeOK
    /\ req \in [Request -> [pc : Active \cup {"idle", "done", "lost"},
                            kind : {"none", "create", "update"},
                            vdc : Vdc \cup {NoVdc},
                            want : SUBSET (Group \cup Resource),
                            calls : SUBSET [op : {"add", "del"}, what : Group \cup Resource,
                                            st : {"sent", "checked"}],
                            failed : BOOLEAN,
                            answer : {"none", "ok", "error"}]]
    /\ raced \subseteq Dropped

RequestsFor(v) == {q \in Request : req[q].vdc = v}

\* When every request for a VDC has finished and none of their calls failed,
\* the VDC has what all of them want and nothing that none of them wants,
\* however their calls interleaved in oned: updates computed from a VDC that
\* others change meanwhile lose nothing silently, only by failing.
AgreedContents ==
    \A v \in live : LET Q == RequestsFor(v) IN
        (/\ Q # {} /\ Dropped = {}
         /\ \A q \in Q : req[q].pc = "done" /\ ~ req[q].failed)
        => /\ \A x \in Group \cup Resource : (\A q \in Q : x \in req[q].want) => x \in Contents(v)
           /\ \A x \in Contents(v) : \E q \in Q : x \in req[q].want

\* A call fails only for a reason outside its request: another request for the
\* same VDC, the VDC or an object dropped.  The exception is an update to ALL:
\* adding ALL clears the single resources, and when it is handled before the
\* deletions of these, which were sent first, they fail.
LoneRequestSucceeds ==
    \A q \in Request :
        req[q].failed =>
            \/ RequestsFor(req[q].vdc) # {q}
            \/ req[q].vdc \notin live
            \/ Dropped # {}
            \/ req[q].kind = "update" /\ \E r \in req[q].want \cap Resource : r.id = All

\* Once the drop of a group, host, datastore or cluster has visited the VDCs,
\* none of them holds it, unless an addition was between its check and its
\* edit when the object went.
RemovedLeaves ==
    \A x \in Dropped \ raced : \A v \in live : x \in Contents(v) => <<x, v>> \in sweep

=============================================================================
