-------------------------- MODULE TodoStateProofs ---------------------------
(***************************************************************************)
(* What the operations of TodoState return: their types, and what they do  *)
(* to well-formed states.                                                  *)
(***************************************************************************)
EXTENDS TodoState, VectorClockProofs

(* The flags of a merge. *)
LEMMA MergeCompletedType ==
  ASSUME NEW K, NEW m \in Maps(K, BOOLEAN), NEW o \in Maps(K, BOOLEAN)
  PROVE  /\ MergeCompleted(m, o) \in Maps(K, BOOLEAN)
         /\ DOMAIN MergeCompleted(m, o) = DOMAIN m \cup DOMAIN o
<1> DEFINE f == MergeCompleted(m, o)
<1>1. /\ m \in [DOMAIN m -> BOOLEAN] /\ DOMAIN m \subseteq K
      /\ o \in [DOMAIN o -> BOOLEAN] /\ DOMAIN o \subseteq K
  BY MapsMember
<1>2. f \in [DOMAIN m \cup DOMAIN o -> BOOLEAN]
  BY <1>1, Zenon DEF MergeCompleted, GetOr
<1>3. DOMAIN f \subseteq K /\ f \in [DOMAIN f -> BOOLEAN]
  BY <1>1, <1>2
<1>4. f \in Maps(K, BOOLEAN)
  BY <1>3, MapsMember
<1> QED
  BY <1>2, <1>4

-----------------------------------------------------------------------------
(* The state a process starts with. *)
LEMMA NewStateType ==
  NewState \in TodoStates /\ WellFormed(NewState) /\ NewState.added = {}
<1>1. NewState \in TodoStates
  BY EmptyMapType DEF NewState, TodoStates, NewClock
<1>2. WellFormed(NewState) /\ NewState.added = {}
  BY DEF NewState, WellFormed, EmptyMap
<1> QED
  BY <1>1, <1>2

(* The fields of a state, each with its type. *)
LEMMA Fields ==
  ASSUME NEW s \in TodoStates
  PROVE  /\ s.added \in SUBSET Id /\ s.removed \in SUBSET Id
         /\ s.texts \in Maps(Id, Text)
         /\ s.completed \in Maps(Id, BOOLEAN)
         /\ s.creators \in Maps(Id, Peer)
         /\ s.clock \in Maps(ReplicaId, 0 .. MaxCount)
  BY DEF TodoStates

(* add keeps a state well formed, adds one item and touches no other text. *)
LEMMA AddEffect ==
  ASSUME NEW s \in TodoStates, NEW p \in Peer, NEW r \in ReplicaId,
         NEW n \in 1 .. MaxLocalId, NEW text \in Text, Get(s.clock, r) < MaxCount
  PROVE  /\ Add(s, p, r, n, text) \in TodoStates
         /\ WellFormed(s) => WellFormed(Add(s, p, r, n, text))
         /\ Add(s, p, r, n, text).added = s.added \cup {<<p, n>>}
         /\ Add(s, p, r, n, text).removed = s.removed
         /\ DOMAIN Add(s, p, r, n, text).texts = DOMAIN s.texts \cup {<<p, n>>}
         /\ \A x \in DOMAIN s.texts :
              x # <<p, n>> => Add(s, p, r, n, text).texts[x] = s.texts[x]
<1> DEFINE id        == <<p, n>>
           texts     == Insert(s.texts, id, text)
           completed == Insert(s.completed, id, FALSE)
           creators  == Insert(s.creators, id, p)
           clock     == Increment(s.clock, r)
<1>1. id \in Id /\ id[1] = p
  BY DEF Id
<1>2. /\ s.added \in SUBSET Id /\ s.removed \in SUBSET Id
      /\ s.texts \in Maps(Id, Text) /\ s.completed \in Maps(Id, BOOLEAN)
      /\ s.creators \in Maps(Id, Peer) /\ s.clock \in Maps(ReplicaId, 0 .. MaxCount)
  BY Fields
<1>3. /\ texts \in Maps(Id, Text)
      /\ DOMAIN texts = DOMAIN s.texts \cup {id}
      /\ \A x \in DOMAIN s.texts \cup {id} : texts[x] = IF x = id THEN text ELSE s.texts[x]
  <2> HIDE DEF id
  <2>1. texts \in Maps(Id, Text)
    BY <1>1, <1>2, InsertType
  <2> QED
    BY <2>1 DEF Insert
<1>4. /\ completed \in Maps(Id, BOOLEAN)
      /\ DOMAIN completed = DOMAIN s.completed \cup {id}
  <2> HIDE DEF id
  <2>1. completed \in Maps(Id, BOOLEAN)
    BY <1>1, <1>2, InsertType, FALSE \in BOOLEAN
  <2> QED
    BY <2>1 DEF Insert
<1>5. /\ creators \in Maps(Id, Peer)
      /\ DOMAIN creators = DOMAIN s.creators \cup {id}
      /\ \A x \in DOMAIN s.creators \cup {id} :
           creators[x] = IF x = id THEN p ELSE s.creators[x]
  <2> HIDE DEF id
  <2>1. creators \in Maps(Id, Peer)
    BY <1>1, <1>2, InsertType
  <2> QED
    BY <2>1 DEF Insert
<1>6. clock \in Maps(ReplicaId, 0 .. MaxCount)
  BY <1>2, CounterAssumption, IncrementType
<1>7. Add(s, p, r, n, text) =
        [added |-> s.added \cup {id}, removed |-> s.removed, texts |-> texts,
         completed |-> completed, creators |-> creators, clock |-> clock]
  BY DEF Add, TodoId
<1> HIDE DEF id, texts, completed, creators, clock
<1>8. Add(s, p, r, n, text) \in TodoStates
  BY <1>1, <1>2, <1>3, <1>4, <1>5, <1>6, <1>7 DEF TodoStates
<1>9. ASSUME WellFormed(s) PROVE WellFormed(Add(s, p, r, n, text))
  BY <1>1, <1>3, <1>4, <1>5, <1>7, <1>9 DEF WellFormed
<1> QED
  BY <1>3, <1>7, <1>8, <1>9 DEF id

(* toggle changes a flag and the clock, and nothing else. *)
LEMMA ToggleEffect ==
  ASSUME NEW s \in TodoStates, NEW r \in ReplicaId, NEW id \in Id,
         Toggle(s, r, id) # s => Get(s.clock, r) < MaxCount
  PROVE  /\ Toggle(s, r, id) \in TodoStates
         /\ WellFormed(s) => WellFormed(Toggle(s, r, id))
         /\ Toggle(s, r, id).added = s.added
         /\ Toggle(s, r, id).removed = s.removed
         /\ Toggle(s, r, id).texts = s.texts
<1>1. CASE Toggle(s, r, id) = s
  BY <1>1
<1>2. CASE Toggle(s, r, id) # s
  <2> DEFINE flag  == ~GetOr(s.completed, id, FALSE)
             done  == Insert(s.completed, id, flag)
             clock == Increment(s.clock, r)
  <2>1. id \in s.added /\ Get(s.clock, r) < MaxCount
    BY <1>2 DEF Toggle
  <2>2. Toggle(s, r, id) = [s EXCEPT !.clock = clock, !.completed = done]
    BY <1>2 DEF Toggle
  <2>3. flag \in BOOLEAN
    OBVIOUS
  <2>4. done \in Maps(Id, BOOLEAN) /\ DOMAIN done = DOMAIN s.completed \cup {id}
    <3>1. s.completed \in Maps(Id, BOOLEAN)
      BY Fields
    <3> HIDE DEF flag
    <3>2. done \in Maps(Id, BOOLEAN)
      BY <2>3, <3>1, InsertType
    <3> QED
      BY <3>2 DEF Insert
  <2>5. clock \in Maps(ReplicaId, 0 .. MaxCount)
    BY <2>1, CounterAssumption, Fields, IncrementType
  <2> HIDE DEF done, clock
  <2>6. Toggle(s, r, id) \in TodoStates
    BY <2>2, <2>4, <2>5 DEF TodoStates
  <2>7. /\ Toggle(s, r, id).added = s.added
        /\ Toggle(s, r, id).removed = s.removed
        /\ Toggle(s, r, id).texts = s.texts
        /\ Toggle(s, r, id).creators = s.creators
        /\ Toggle(s, r, id).completed = done
    BY <2>2 DEF TodoStates
  <2> QED
    BY <2>1, <2>4, <2>6, <2>7 DEF WellFormed
<1> QED
  BY <1>1, <1>2

(* delete removes an added item and changes no text. *)
LEMMA DeleteEffect ==
  ASSUME NEW s \in TodoStates, NEW r \in ReplicaId, NEW id \in Id,
         Delete(s, r, id) # s => Get(s.clock, r) < MaxCount
  PROVE  /\ Delete(s, r, id) \in TodoStates
         /\ WellFormed(s) => WellFormed(Delete(s, r, id))
         /\ Delete(s, r, id).added = s.added
         /\ s.removed \subseteq Delete(s, r, id).removed
         /\ Delete(s, r, id).texts = s.texts
<1>1. CASE Delete(s, r, id) = s
  BY <1>1
<1>2. CASE Delete(s, r, id) # s
  <2> DEFINE clock == Increment(s.clock, r)
  <2>1. id \in s.added /\ Get(s.clock, r) < MaxCount
    BY <1>2 DEF Delete
  <2>2. Delete(s, r, id) = [s EXCEPT !.clock = clock, !.removed = s.removed \cup {id}]
    BY <1>2 DEF Delete
  <2>3. clock \in Maps(ReplicaId, 0 .. MaxCount)
    BY <2>1, CounterAssumption, Fields, IncrementType
  <2> HIDE DEF clock
  <2>4. Delete(s, r, id) \in TodoStates
    BY <2>1, <2>2, <2>3 DEF TodoStates
  <2>5. /\ Delete(s, r, id).added = s.added
        /\ Delete(s, r, id).removed = s.removed \cup {id}
        /\ Delete(s, r, id).texts = s.texts
        /\ Delete(s, r, id).creators = s.creators
        /\ Delete(s, r, id).completed = s.completed
    BY <2>2 DEF TodoStates
  <2> QED
    BY <2>1, <2>4, <2>5 DEF WellFormed
<1> QED
  BY <1>1, <1>2

(* merge takes the union of the sets and keeps its own texts. *)
LEMMA MergeEffect ==
  ASSUME NEW s \in TodoStates, NEW o \in TodoStates
  PROVE  /\ Merge(s, o) \in TodoStates
         /\ WellFormed(s) /\ WellFormed(o) => WellFormed(Merge(s, o))
         /\ Merge(s, o).added = s.added \cup o.added
         /\ Merge(s, o).removed = s.removed \cup o.removed
         /\ DOMAIN Merge(s, o).texts = DOMAIN s.texts \cup DOMAIN o.texts
         /\ \A id \in DOMAIN s.texts \cup DOMAIN o.texts :
              Merge(s, o).texts[id] =
                IF id \in DOMAIN s.texts THEN s.texts[id] ELSE o.texts[id]
<1> DEFINE texts     == OrInsertAll(s.texts, o.texts)
           completed == MergeCompleted(s.completed, o.completed)
           creators  == OrInsertAll(s.creators, o.creators)
           clock     == ClockMerge(s.clock, o.clock)
<1>1. /\ s.texts \in Maps(Id, Text) /\ o.texts \in Maps(Id, Text)
      /\ s.completed \in Maps(Id, BOOLEAN) /\ o.completed \in Maps(Id, BOOLEAN)
      /\ s.creators \in Maps(Id, Peer) /\ o.creators \in Maps(Id, Peer)
      /\ s.clock \in Maps(ReplicaId, 0 .. MaxCount)
      /\ o.clock \in Maps(ReplicaId, 0 .. MaxCount)
  BY Fields
<1>2. /\ texts \in Maps(Id, Text)
      /\ DOMAIN texts = DOMAIN s.texts \cup DOMAIN o.texts
      /\ \A id \in DOMAIN s.texts \cup DOMAIN o.texts :
           texts[id] = IF id \in DOMAIN s.texts THEN s.texts[id] ELSE o.texts[id]
  BY <1>1, OrInsertAllType DEF OrInsertAll
<1>3. /\ completed \in Maps(Id, BOOLEAN)
      /\ DOMAIN completed = DOMAIN s.completed \cup DOMAIN o.completed
  BY <1>1, MergeCompletedType
<1>4. /\ creators \in Maps(Id, Peer)
      /\ DOMAIN creators = DOMAIN s.creators \cup DOMAIN o.creators
      /\ \A id \in DOMAIN s.creators \cup DOMAIN o.creators :
           creators[id] = IF id \in DOMAIN s.creators THEN s.creators[id] ELSE o.creators[id]
  BY <1>1, OrInsertAllType DEF OrInsertAll
<1>5. clock \in Maps(ReplicaId, 0 .. MaxCount)
  BY <1>1, ClockMergeType, CounterAssumption
<1>6. Merge(s, o) =
        [added |-> s.added \cup o.added, removed |-> s.removed \cup o.removed,
         texts |-> texts, completed |-> completed, creators |-> creators,
         clock |-> clock]
  BY DEF Merge
<1> HIDE DEF texts, completed, creators, clock
<1>7. Merge(s, o) \in TodoStates
  BY <1>2, <1>3, <1>4, <1>5, <1>6 DEF TodoStates
<1>8. ASSUME WellFormed(s), WellFormed(o) PROVE WellFormed(Merge(s, o))
  BY <1>2, <1>3, <1>4, <1>6, <1>8 DEF WellFormed
<1> QED
  BY <1>2, <1>6, <1>7, <1>8

-----------------------------------------------------------------------------
(* snapshot() shows every item that is added, not removed and has a text.  *)
LEMMA TodosShow ==
  ASSUME NEW s, NEW p, NEW id \in s.added \ s.removed, id \in DOMAIN s.texts
  PROVE  \E todo \in Todos(s, p) : todo.id = id
<1> DEFINE todo == [id |-> id, text |-> s.texts[id],
                    completed |-> GetOr(s.completed, id, FALSE),
                    created_by |-> GetOr(s.creators, id, p)]
<1>1. todo \in Todos(s, p)
  BY DEF Todos
<1>2. todo.id = id
  OBVIOUS
<1> QED
  BY <1>1, <1>2

-----------------------------------------------------------------------------
(* The laws of or_insert: merged with itself a map stays, the grouping is  *)
(* of no account, nor is the order where common keys have one value.       *)
LEMMA OrInsertLaws ==
  ASSUME NEW K, NEW V, NEW a \in Maps(K, V), NEW b \in Maps(K, V), NEW c \in Maps(K, V)
  PROVE  /\ OrInsertAll(a, a) = a
         /\ OrInsertAll(OrInsertAll(a, b), c) = OrInsertAll(a, OrInsertAll(b, c))
         /\ (\A x \in DOMAIN a \cap DOMAIN b : a[x] = b[x])
              => OrInsertAll(a, b) = OrInsertAll(b, a)
<1>1. a = [x \in DOMAIN a |-> a[x]]
  BY MapsMember
<1>2. OrInsertAll(a, a) = a
  BY <1>1 DEF OrInsertAll
<1>3. OrInsertAll(OrInsertAll(a, b), c) = OrInsertAll(a, OrInsertAll(b, c))
  BY DEF OrInsertAll
<1>4. ASSUME \A x \in DOMAIN a \cap DOMAIN b : a[x] = b[x]
      PROVE  OrInsertAll(a, b) = OrInsertAll(b, a)
  BY <1>4 DEF OrInsertAll
<1> QED
  BY <1>2, <1>3, <1>4

(* The laws of the flags' OR: the order is of no account at all. *)
LEMMA FlagLaws ==
  ASSUME NEW K, NEW a \in Maps(K, BOOLEAN), NEW b \in Maps(K, BOOLEAN), NEW c \in Maps(K, BOOLEAN)
  PROVE  /\ MergeCompleted(a, a) = a
         /\ MergeCompleted(MergeCompleted(a, b), c) = MergeCompleted(a, MergeCompleted(b, c))
         /\ MergeCompleted(a, b) = MergeCompleted(b, a)
<1>1. /\ a = [x \in DOMAIN a |-> a[x]]
      /\ \A x \in DOMAIN a : a[x] \in BOOLEAN
      /\ \A x \in DOMAIN b : b[x] \in BOOLEAN
      /\ \A x \in DOMAIN c : c[x] \in BOOLEAN
  BY MapsMember
<1>2. MergeCompleted(a, a) = a
  BY <1>1 DEF MergeCompleted, GetOr
<1>3. MergeCompleted(MergeCompleted(a, b), c) = MergeCompleted(a, MergeCompleted(b, c))
  BY <1>1 DEF MergeCompleted, GetOr
<1>4. MergeCompleted(a, b) = MergeCompleted(b, a)
  BY <1>1 DEF MergeCompleted, GetOr
<1> QED
  BY <1>2, <1>3, <1>4

(* The laws of the clocks, which compare Equal: their maps may differ in a *)
(* zero entry.                                                             *)
LEMMA ClockLaws ==
  ASSUME NEW R, NEW N \in Nat,
         NEW a \in Maps(R, 0 .. N), NEW b \in Maps(R, 0 .. N), NEW c \in Maps(R, 0 .. N)
  PROVE  /\ PartialCmp(ClockMerge(a, a), a) = "Equal"
         /\ PartialCmp(ClockMerge(ClockMerge(a, b), c), ClockMerge(a, ClockMerge(b, c))) = "Equal"
         /\ PartialCmp(ClockMerge(a, b), ClockMerge(b, a)) = "Equal"
<1>1. \A x : Get(a, x) \in Nat /\ Get(b, x) \in Nat /\ Get(c, x) \in Nat
  BY GetType
<1>2. /\ ClockMerge(a, a) \in Maps(R, 0 .. N) /\ ClockMerge(a, b) \in Maps(R, 0 .. N)
      /\ ClockMerge(b, a) \in Maps(R, 0 .. N) /\ ClockMerge(b, c) \in Maps(R, 0 .. N)
  BY ClockMergeType
<1>3. /\ ClockMerge(ClockMerge(a, b), c) \in Maps(R, 0 .. N)
      /\ ClockMerge(a, ClockMerge(b, c)) \in Maps(R, 0 .. N)
  BY <1>2, ClockMergeType
<1>4. ASSUME NEW x
      PROVE  /\ Get(ClockMerge(a, a), x) = Get(a, x)
             /\ Get(ClockMerge(a, b), x) = Larger(Get(a, x), Get(b, x))
             /\ Get(ClockMerge(b, a), x) = Larger(Get(a, x), Get(b, x))
             /\ Get(ClockMerge(b, c), x) = Larger(Get(b, x), Get(c, x))
  BY <1>1, GetClockMerge DEF Larger
<1>5. ASSUME NEW x
      PROVE  Get(ClockMerge(ClockMerge(a, b), c), x) = Get(ClockMerge(a, ClockMerge(b, c)), x)
  <2>1. /\ Get(ClockMerge(ClockMerge(a, b), c), x) = Larger(Get(ClockMerge(a, b), x), Get(c, x))
        /\ Get(ClockMerge(a, ClockMerge(b, c)), x) = Larger(Get(a, x), Get(ClockMerge(b, c), x))
    BY <1>2, GetClockMerge
  <2> QED
    BY <1>1, <1>4, <2>1 DEF Larger
<1>6. ASSUME NEW d \in Maps(R, 0 .. N), NEW e \in Maps(R, 0 .. N), \A x : Get(d, x) = Get(e, x)
      PROVE  PartialCmp(d, e) = "Equal"
  <2>1. \A x : Get(d, x) \in Nat /\ Get(e, x) \in Nat
    BY GetType
  <2>2. NotAbove(d, e) /\ NotAbove(e, d)
    BY <1>6, <2>1 DEF NotAbove
  <2> QED
    BY <2>2, ComparesEntries
<1> QED
  BY <1>2, <1>3, <1>4, <1>5, <1>6

(* Two states of one list: the same items, with clocks that compare Equal. *)
Alike(s, t) ==
  /\ s.added = t.added /\ s.removed = t.removed
  /\ s.texts = t.texts /\ s.completed = t.completed /\ s.creators = t.creators
  /\ PartialCmp(s.clock, t.clock) = "Equal"

(* What crdt-core's tests say of its types holds of TodoState: merge is    *)
(* idempotent and associative, and commutative where a common item has one *)
(* text (merge keeps its own on a conflict).                               *)
THEOREM MergeLaws ==
  ASSUME NEW s \in TodoStates, NEW t \in TodoStates, NEW u \in TodoStates
  PROVE  /\ Alike(Merge(s, s), s)
         /\ Alike(Merge(Merge(s, t), u), Merge(s, Merge(t, u)))
         /\ (/\ WellFormed(s) /\ WellFormed(t)
             /\ \A id \in s.added \cap t.added : s.texts[id] = t.texts[id])
              => Alike(Merge(s, t), Merge(t, s))
<1>1. Alike(Merge(s, s), s)
  <2>1. /\ OrInsertAll(s.texts, s.texts) = s.texts
        /\ MergeCompleted(s.completed, s.completed) = s.completed
        /\ OrInsertAll(s.creators, s.creators) = s.creators
        /\ PartialCmp(ClockMerge(s.clock, s.clock), s.clock) = "Equal"
    BY Fields, OrInsertLaws, FlagLaws, ClockLaws, CounterAssumption
  <2> QED
    BY <2>1 DEF Alike, Merge
<1>2. Alike(Merge(Merge(s, t), u), Merge(s, Merge(t, u)))
  <2>1. /\ OrInsertAll(OrInsertAll(s.texts, t.texts), u.texts)
             = OrInsertAll(s.texts, OrInsertAll(t.texts, u.texts))
        /\ OrInsertAll(OrInsertAll(s.creators, t.creators), u.creators)
             = OrInsertAll(s.creators, OrInsertAll(t.creators, u.creators))
    BY Fields, OrInsertLaws
  <2>2. MergeCompleted(MergeCompleted(s.completed, t.completed), u.completed)
          = MergeCompleted(s.completed, MergeCompleted(t.completed, u.completed))
    BY Fields, FlagLaws
  <2>3. PartialCmp(ClockMerge(ClockMerge(s.clock, t.clock), u.clock),
                   ClockMerge(s.clock, ClockMerge(t.clock, u.clock))) = "Equal"
    BY Fields, ClockLaws, CounterAssumption
  <2> QED
    BY <2>1, <2>2, <2>3 DEF Alike, Merge
<1>3. ASSUME WellFormed(s), WellFormed(t),
             \A id \in s.added \cap t.added : s.texts[id] = t.texts[id]
      PROVE  Alike(Merge(s, t), Merge(t, s))
  <2>1. /\ \A id \in DOMAIN s.texts \cap DOMAIN t.texts : s.texts[id] = t.texts[id]
        /\ \A id \in DOMAIN s.creators \cap DOMAIN t.creators : s.creators[id] = t.creators[id]
    BY <1>3 DEF WellFormed
  <2>2. /\ OrInsertAll(s.texts, t.texts) = OrInsertAll(t.texts, s.texts)
        /\ OrInsertAll(s.creators, t.creators) = OrInsertAll(t.creators, s.creators)
    BY <2>1, Fields, OrInsertLaws
  <2>3. MergeCompleted(s.completed, t.completed) = MergeCompleted(t.completed, s.completed)
    BY Fields, FlagLaws
  <2>4. PartialCmp(ClockMerge(s.clock, t.clock), ClockMerge(t.clock, s.clock)) = "Equal"
    BY Fields, ClockLaws, CounterAssumption
  <2> QED
    BY <2>2, <2>3, <2>4 DEF Alike, Merge
<1> QED
  BY <1>1, <1>2, <1>3
=============================================================================
