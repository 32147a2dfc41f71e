---------------------------- MODULE MCCausality -----------------------------
(* Three replicas for TLC: r1 counts by 2, so that its second count wraps   *)
(* around, r2 by 1 and by 0, r3 takes 1 and inserts x.                      *)
EXTENDS Causality, TLC

CONSTANTS r1, r2, r3, x

IncrementsOf == (r1 :> {2}) @@ (r2 :> {0, 1}) @@ (r3 :> {})
DecrementsOf == (r1 :> {}) @@ (r2 :> {}) @@ (r3 :> {1})
InsertionsOf == (r1 :> {}) @@ (r2 :> {}) @@ (r3 :> {x})
=============================================================================
