------------------------- MODULE VectorClockProofs --------------------------
(***************************************************************************)
(* What the operations of HashMap and VectorClock return.                  *)
(***************************************************************************)
EXTENDS VectorClock, TLAPS

(* Membership in Maps, the set of finite maps, is about domain and values. *)
LEMMA MapsMember ==
  ASSUME NEW K, NEW V, NEW f
  PROVE  f \in Maps(K, V) <=> DOMAIN f \subseteq K /\ f \in [DOMAIN f -> V]
  BY DEF Maps

(* The map that holds nothing is a map. *)
LEMMA EmptyMapType ==
  ASSUME NEW K, NEW V
  PROVE  EmptyMap \in Maps(K, V) /\ DOMAIN EmptyMap = {}
  BY MapsMember DEF EmptyMap

(* HashMap::insert keeps the types of keys and values. *)
LEMMA InsertType ==
  ASSUME NEW K, NEW V, NEW m \in Maps(K, V), NEW k \in K, NEW v \in V
  PROVE  Insert(m, k, v) \in Maps(K, V)
<1>1. m \in [DOMAIN m -> V] /\ DOMAIN m \subseteq K
  BY MapsMember
<1>2. Insert(m, k, v) \in [DOMAIN m \cup {k} -> V]
  BY <1>1 DEF Insert
<1> QED
  BY <1>1, <1>2, MapsMember

(* So does or_insert. *)
LEMMA OrInsertAllType ==
  ASSUME NEW K, NEW V, NEW m \in Maps(K, V), NEW o \in Maps(K, V)
  PROVE  OrInsertAll(m, o) \in Maps(K, V)
<1>1. /\ m \in [DOMAIN m -> V] /\ DOMAIN m \subseteq K
      /\ o \in [DOMAIN o -> V] /\ DOMAIN o \subseteq K
  BY MapsMember
<1>2. OrInsertAll(m, o) \in [DOMAIN m \cup DOMAIN o -> V]
  BY <1>1 DEF OrInsertAll
<1> QED
  BY <1>1, <1>2, MapsMember

-----------------------------------------------------------------------------
(* The clock of a merge stays within a bound both clocks keep. *)
LEMMA ClockMergeType ==
  ASSUME NEW R, NEW N \in Nat, NEW m \in Maps(R, 0 .. N), NEW o \in Maps(R, 0 .. N)
  PROVE  ClockMerge(m, o) \in Maps(R, 0 .. N)
<1> DEFINE carried == {r \in DOMAIN o : o[r] # 0}
           f == ClockMerge(m, o)
<1>1. /\ m \in [DOMAIN m -> 0 .. N] /\ DOMAIN m \subseteq R
      /\ o \in [DOMAIN o -> 0 .. N] /\ DOMAIN o \subseteq R
  BY MapsMember
<1>2. f \in [DOMAIN m \cup carried -> 0 .. N]
  BY <1>1 DEF ClockMerge, Larger, Get, GetOr
<1>3. DOMAIN f \subseteq R /\ f \in [DOMAIN f -> 0 .. N]
  BY <1>1, <1>2
<1> QED
  BY <1>3, MapsMember

(* Increment keeps a clock within its bound as long as the bound is not    *)
(* reached.                                                                *)
LEMMA IncrementType ==
  ASSUME NEW R, NEW N \in Nat, NEW m \in Maps(R, 0 .. N), NEW r \in R, Get(m, r) < N
  PROVE  Increment(m, r) \in Maps(R, 0 .. N)
<1>1. m \in [DOMAIN m -> 0 .. N]
  BY MapsMember
<1>2. Get(m, r) + 1 \in 0 .. N
  BY <1>1 DEF Get, GetOr
<1> QED
  BY <1>2, InsertType DEF Increment

(* A clock no entry of which exceeds the other's compares below or equal.  *)
NotAbove(a, b) == \A r \in DOMAIN a \cup DOMAIN b : Get(a, r) <= Get(b, r)

(* Entries are naturals, absent ones zero. *)
LEMMA GetType ==
  ASSUME NEW R, NEW N \in Nat, NEW m \in Maps(R, 0 .. N), NEW r
  PROVE  Get(m, r) \in Nat
<1>1. m \in [DOMAIN m -> 0 .. N]
  BY MapsMember
<1> QED
  BY <1>1 DEF Get, GetOr

LEMMA NotAboveCompares ==
  ASSUME NEW R, NEW N \in Nat, NEW a \in Maps(R, 0 .. N), NEW b \in Maps(R, 0 .. N),
         NotAbove(a, b)
  PROVE  PartialCmp(a, b) \in {"Less", "Equal"}
<1>1. \A r : Get(a, r) \in Nat /\ Get(b, r) \in Nat
  BY GetType
<1>2. ~ \E r \in DOMAIN a \cup DOMAIN b : Get(a, r) > Get(b, r)
  BY <1>1 DEF NotAbove
<1> QED
  BY <1>2 DEF PartialCmp

(* Increment raises the replica's entry by one and leaves the others. *)
LEMMA GetIncrement ==
  ASSUME NEW R, NEW N \in Nat, NEW m \in Maps(R, 0 .. N), NEW r, NEW x
  PROVE  Get(Increment(m, r), x) = IF x = r THEN Get(m, r) + 1 ELSE Get(m, x)
<1> DEFINE f == Increment(m, r)
<1>1. DOMAIN f = DOMAIN m \cup {r}
  BY DEF Increment, Insert
<1>2. \A y \in DOMAIN m \cup {r} : f[y] = IF y = r THEN Get(m, r) + 1 ELSE m[y]
  BY DEF Increment, Insert
<1> HIDE DEF f
<1>3. Get(f, x) = IF x = r THEN Get(m, r) + 1 ELSE Get(m, x)
  BY <1>1, <1>2 DEF Get, GetOr
<1> QED
  BY <1>3 DEF f

(* A merge takes the larger of the two entries, for every replica. *)
LEMMA GetClockMerge ==
  ASSUME NEW R, NEW N \in Nat, NEW m \in Maps(R, 0 .. N), NEW o \in Maps(R, 0 .. N),
         NEW x
  PROVE  Get(ClockMerge(m, o), x) = Larger(Get(m, x), Get(o, x))
<1> DEFINE carried == {r \in DOMAIN o : o[r] # 0}
           f == ClockMerge(m, o)
<1>1. Get(m, x) \in Nat /\ Get(o, x) \in Nat
  BY GetType
<1>2. DOMAIN f = DOMAIN m \cup carried
  BY DEF ClockMerge
<1>3. \A y \in DOMAIN m \cup carried :
        f[y] = IF y \in carried THEN Larger(Get(m, y), o[y]) ELSE m[y]
  BY DEF ClockMerge
<1>4. x \in carried => o[x] = Get(o, x)
  BY DEF Get, GetOr
<1>5. x \notin carried => Get(o, x) = 0
  BY DEF Get, GetOr
<1> HIDE DEF f, carried
<1>6. CASE x \in carried
  BY <1>2, <1>3, <1>4, <1>6 DEF Get, GetOr, f
<1>7. CASE x \notin carried
  <2>1. Get(f, x) = Get(m, x)
    BY <1>2, <1>3, <1>7 DEF Get, GetOr
  <2> QED
    BY <1>1, <1>5, <1>7, <2>1 DEF Larger, f
<1> QED
  BY <1>6, <1>7

(* An event moves no entry down. *)
LEMMA IncrementAbove ==
  ASSUME NEW R, NEW N \in Nat, NEW m \in Maps(R, 0 .. N), NEW r
  PROVE  NotAbove(m, Increment(m, r))
<1>1. \A x : Get(m, x) \in Nat
  BY GetType
<1>2. \A x : Get(Increment(m, r), x) = IF x = r THEN Get(m, r) + 1 ELSE Get(m, x)
  BY GetIncrement
<1> QED
  BY <1>1, <1>2 DEF NotAbove

(* Nor does a merge. *)
LEMMA ClockMergeAbove ==
  ASSUME NEW R, NEW N \in Nat, NEW m \in Maps(R, 0 .. N), NEW o \in Maps(R, 0 .. N)
  PROVE  NotAbove(m, ClockMerge(m, o))
<1>1. \A x : Get(m, x) \in Nat /\ Get(o, x) \in Nat
  BY GetType
<1>2. \A x : Get(ClockMerge(m, o), x) = Larger(Get(m, x), Get(o, x))
  BY GetClockMerge
<1> QED
  BY <1>1, <1>2 DEF NotAbove, Larger

(* partial_cmp compares all entries, absent ones as zero. *)
LEMMA ComparesEntries ==
  ASSUME NEW R, NEW N \in Nat, NEW a \in Maps(R, 0 .. N), NEW b \in Maps(R, 0 .. N)
  PROVE  /\ HappensBefore(a, b) <=> NotAbove(a, b) /\ ~NotAbove(b, a)
         /\ ConcurrentWith(a, b) <=> ~NotAbove(a, b) /\ ~NotAbove(b, a)
         /\ PartialCmp(a, b) = "Equal" <=> NotAbove(a, b) /\ NotAbove(b, a)
<1> DEFINE keys    == DOMAIN a \cup DOMAIN b
           less    == \E r \in keys : Get(a, r) < Get(b, r)
           greater == \E r \in keys : Get(a, r) > Get(b, r)
<1>1. \A r : Get(a, r) \in Nat /\ Get(b, r) \in Nat
  BY GetType
<1>2. NotAbove(a, b) <=> ~greater
  BY <1>1 DEF NotAbove
<1>3. NotAbove(b, a) <=> ~less
  BY <1>1 DEF NotAbove
<1>4. /\ less /\ greater => PartialCmp(a, b) = "None"
      /\ less /\ ~greater => PartialCmp(a, b) = "Less"
      /\ ~less /\ greater => PartialCmp(a, b) = "Greater"
      /\ ~less /\ ~greater => PartialCmp(a, b) = "Equal"
  BY DEF PartialCmp
<1> QED
  BY <1>2, <1>3, <1>4 DEF HappensBefore, ConcurrentWith
(* observe takes in one event as a merge of a clock with that entry would. *)
LEMMA GetObserve ==
  ASSUME NEW R, NEW N \in Nat, NEW m \in Maps(R, 0 .. N), NEW r, NEW n \in Nat,
         NEW x
  PROVE  Get(Observe(m, r, n), x)
           = IF x = r THEN Larger(Get(m, r), n) ELSE Get(m, x)
<1> DEFINE f == Observe(m, r, n)
<1>1. Get(m, r) \in Nat
  BY GetType
<1>2. CASE n = 0
  BY <1>1, <1>2 DEF Observe, Larger
<1>3. CASE n # 0
  <2>1. f = [y \in DOMAIN m \cup {r} |-> IF y = r THEN Larger(Get(m, r), n) ELSE m[y]]
    BY <1>3 DEF Observe, Insert
  <2> HIDE DEF f
  <2>2. Get(f, x) = IF x = r THEN Larger(Get(m, r), n) ELSE Get(m, x)
    BY <2>1 DEF Get, GetOr
  <2> QED
    BY <2>2 DEF f
<1> QED
  BY <1>2, <1>3
=============================================================================
