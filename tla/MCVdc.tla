------------------------------- MODULE MCVdc -------------------------------
(***************************************************************************)
(* VdcUpdate for TLC: a VDC of group g1 that updates change, and one of    *)
(* group g2 that a request may create.  No two grants share a rule.        *)
(***************************************************************************)
EXTENDS VdcUpdate, TLC

CONSTANTS v1, v2, g1, g2

MCAll == -10

C1   == [kind |-> "CLUSTER", zone |-> 0, id |-> 1]
H1   == [kind |-> "HOST", zone |-> 0, id |-> 1]
HAll == [kind |-> "HOST", zone |-> 0, id |-> MCAll]

MCResource == {C1, H1, HAll}

MCWants == (v1 :> {{g1, H1}, {g1, HAll}, {H1}}) @@ (v2 :> {{g2, C1}})
=============================================================================
