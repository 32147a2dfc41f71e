---------------------------- MODULE VectorClock -----------------------------
(***************************************************************************)
(* crdt-core's VectorClock: a HashMap from replica ids to u64 counters in  *)
(* which an absent entry counts as zero.                                   *)
(***************************************************************************)
EXTENDS Naturals, HashMap

Larger(a, b) == IF a >= b THEN a ELSE b

NewClock == EmptyMap

Get(clock, replica) == GetOr(clock, replica, 0)

Increment(clock, replica) == Insert(clock, replica, Get(clock, replica) + 1)

(* An observed counter of zero leaves no entry behind. *)
Observe(clock, replica, counter) ==
  IF counter = 0 THEN clock
  ELSE Insert(clock, replica, Larger(Get(clock, replica), counter))

(* Mutant: the other clock's entries win. *)
ClockMergeOverwrites(clock, other) ==
  LET carried == {r \in DOMAIN other : other[r] # 0}
  IN  [r \in DOMAIN clock \cup carried |->
         IF r \in carried THEN other[r] ELSE clock[r]]

(* Element-wise maximum; zero entries of other are skipped. *)
ClockMerge(clock, other) ==
  LET carried == {r \in DOMAIN other : other[r] # 0}
  IN  [r \in DOMAIN clock \cup carried |->
         IF r \in carried THEN Larger(Get(clock, r), other[r]) ELSE clock[r]]

(* Mutant: only the left clock's keys are compared. *)
PartialCmpLeftKeys(a, b) ==
  LET less    == \E r \in DOMAIN a : Get(a, r) < Get(b, r)
      greater == \E r \in DOMAIN a : Get(a, r) > Get(b, r)
  IN  IF less THEN (IF greater THEN "None" ELSE "Less")
      ELSE IF greater THEN "Greater" ELSE "Equal"

(* partial_cmp over the union of the keys; "None" is Rust's None, and the   *)
(* loop's early return changes when that is found, not whether.             *)
PartialCmp(a, b) ==
  LET keys    == DOMAIN a \cup DOMAIN b
      less    == \E r \in keys : Get(a, r) < Get(b, r)
      greater == \E r \in keys : Get(a, r) > Get(b, r)
  IN  CASE less /\ greater   -> "None"
        [] less /\ ~greater  -> "Less"
        [] ~less /\ greater  -> "Greater"
        [] ~less /\ ~greater -> "Equal"

HappensBefore(a, b)  == PartialCmp(a, b) = "Less"
ConcurrentWith(a, b) == PartialCmp(a, b) = "None"
=============================================================================
