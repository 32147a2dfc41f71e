-------------------------- MODULE SharedListProofs ---------------------------
(***************************************************************************)
(* Proof that a cluster in which no process ends implements the shared     *)
(* list: each step of TodoSync is a step of SharedTodoList on the views,   *)
(* or none.                                                                *)
(***************************************************************************)
EXTENDS TodoSyncProofs

(* The flags of a state, as a set. *)
Done(s) == {id \in DOMAIN s.completed : s.completed[id]}

LEMMA ViewFields ==
  ASSUME NEW s
  PROVE  /\ ViewOf(s).items = {<<id, s.texts[id]>> : id \in s.added}
         /\ ViewOf(s).removed = s.removed
         /\ ViewOf(s).done = Done(s)
         /\ ViewOf(s) = [items |-> ViewOf(s).items, removed |-> ViewOf(s).removed,
                         done |-> ViewOf(s).done]
  BY DEF ViewOf, Done

LEMMA ViewSees ==
  ASSUME NEW s, NEW id
  PROVE  Shared!Sees(ViewOf(s), id) <=> id \in s.added
<1>1. \A item : item \in ViewOf(s).items <=> \E x \in s.added : item = <<x, s.texts[x]>>
  BY DEF ViewOf
<1>2. ASSUME id \in s.added PROVE Shared!Sees(ViewOf(s), id)
  <2>1. <<id, s.texts[id]>> \in ViewOf(s).items /\ <<id, s.texts[id]>>[1] = id
    BY <1>1, <1>2
  <2> QED
    BY <2>1 DEF Shared!Sees
<1>3. ASSUME Shared!Sees(ViewOf(s), id) PROVE id \in s.added
  <2>1. PICK x \in s.added : <<x, s.texts[x]>>[1] = id
    BY <1>1, <1>3 DEF Shared!Sees
  <2> QED
    BY <2>1
<1> QED
  BY <1>2, <1>3

(* A view with one field changed. *)
LEMMA ViewExcept ==
  ASSUME NEW s, NEW x
  PROVE  /\ [ViewOf(s) EXCEPT !.items = x]
              = [items |-> x, removed |-> ViewOf(s).removed, done |-> ViewOf(s).done]
         /\ [ViewOf(s) EXCEPT !.removed = x]
              = [items |-> ViewOf(s).items, removed |-> x, done |-> ViewOf(s).done]
         /\ [ViewOf(s) EXCEPT !.done = x]
              = [items |-> ViewOf(s).items, removed |-> ViewOf(s).removed, done |-> x]
<1>1. PICK a, b, c : ViewOf(s) = [items |-> a, removed |-> b, done |-> c]
  BY DEF ViewOf
<1> QED
  BY <1>1

LEMMA ViewOfNew == ViewOf(NewState) = Shared!Empty
  BY DEF ViewOf, NewState, EmptyMap, Shared!Empty

(* An add shows one more item, unchecked. *)
LEMMA ViewOfAdd ==
  ASSUME NEW s \in TodoStates, WellFormed(s), NEW p, NEW r, NEW n, NEW text,
         TodoId(p, n) \notin s.added
  PROVE  ViewOf(Add(s, p, r, n, text))
           = [ViewOf(s) EXCEPT !.items = @ \cup {<<TodoId(p, n), text>>}]
<1> DEFINE id == TodoId(p, n)
           t == Add(s, p, r, n, text)
<1>1. /\ t.added = s.added \cup {id} /\ t.removed = s.removed
      /\ t.texts = Insert(s.texts, id, text)
      /\ t.completed = Insert(s.completed, id, FALSE)
  BY DEF Add
<1>2. DOMAIN s.texts = s.added /\ DOMAIN s.completed = s.added
  BY DEF WellFormed
<1> HIDE DEF id, t
<1>3. /\ \A x \in s.added : t.texts[x] = s.texts[x] /\ t.completed[x] = s.completed[x]
      /\ t.texts[id] = text /\ ~t.completed[id]
      /\ DOMAIN t.completed = s.added \cup {id}
  BY <1>1, <1>2 DEF Insert, id
<1>4. {<<x, t.texts[x]>> : x \in t.added}
        = {<<x, s.texts[x]>> : x \in s.added} \cup {<<id, text>>}
  BY <1>1, <1>3
<1>5. Done(t) = Done(s)
  BY <1>2, <1>3 DEF Done
<1>6. ViewOf(t) = [items |-> ViewOf(s).items \cup {<<id, text>>},
                   removed |-> ViewOf(s).removed, done |-> ViewOf(s).done]
  BY <1>1, <1>4, <1>5, ViewFields
<1>7. ViewOf(t) = [ViewOf(s) EXCEPT !.items = @ \cup {<<id, text>>}]
  BY <1>6, ViewExcept
<1> QED
  BY <1>7 DEF t, id

(* A toggle of a live item changes its check mark, any other one nothing. *)
LEMMA ViewOfToggle ==
  ASSUME NEW s \in TodoStates, WellFormed(s), NEW r, NEW id
  PROVE  IF id \in s.added /\ id \notin s.removed
         THEN ViewOf(Toggle(s, r, id))
                = [ViewOf(s) EXCEPT !.done = IF id \in @ THEN @ \ {id} ELSE @ \cup {id}]
         ELSE ViewOf(Toggle(s, r, id)) = ViewOf(s)
<1>1. CASE ~(id \in s.added /\ id \notin s.removed)
  BY <1>1 DEF Toggle
<1>2. CASE id \in s.added /\ id \notin s.removed
  <2> DEFINE t == Toggle(s, r, id)
             flag == ~GetOr(s.completed, id, FALSE)
  <2>1. t = [s EXCEPT !.clock = Increment(s.clock, r),
                      !.completed = Insert(s.completed, id, flag)]
    BY <1>2 DEF Toggle
  <2> HIDE DEF t, flag
  <2>2. /\ t.added = s.added /\ t.removed = s.removed /\ t.texts = s.texts
        /\ t.completed = Insert(s.completed, id, flag)
    BY <2>1 DEF TodoStates
  <2>3. DOMAIN s.completed = s.added
    BY DEF WellFormed
  <2>4. /\ DOMAIN t.completed = DOMAIN s.completed
        /\ t.completed[id] = flag
        /\ \A x \in DOMAIN s.completed : x # id => t.completed[x] = s.completed[x]
    BY <1>2, <2>2, <2>3 DEF Insert
  <2>5. flag <=> id \notin Done(s)
    BY <1>2, <2>3 DEF Done, flag, GetOr
  <2>6. Done(t) = IF id \in Done(s) THEN Done(s) \ {id} ELSE Done(s) \cup {id}
    BY <1>2, <2>3, <2>4, <2>5 DEF Done
  <2>7. ViewOf(t) = [items |-> ViewOf(s).items, removed |-> ViewOf(s).removed,
                     done |-> Done(t)]
    <3>1. ViewOf(t).items = ViewOf(s).items
      BY <2>2 DEF ViewOf
    <3> QED
      BY <2>2, <3>1, ViewFields
  <2>8. ViewOf(t) = [ViewOf(s) EXCEPT !.done = IF id \in @ THEN @ \ {id} ELSE @ \cup {id}]
    <3>1. [ViewOf(s) EXCEPT !.done = Done(t)] = ViewOf(t)
      BY <2>7, ViewExcept
    <3>2. Done(t) = IF id \in ViewOf(s).done THEN ViewOf(s).done \ {id}
                    ELSE ViewOf(s).done \cup {id}
      BY <2>6, ViewFields
    <3> QED
      BY <3>1, <3>2
  <2> QED
    BY <1>2, <2>8 DEF t
<1> QED
  BY <1>1, <1>2

LEMMA ViewOfDelete ==
  ASSUME NEW s \in TodoStates, NEW r, NEW id
  PROVE  IF id \in s.added
         THEN ViewOf(Delete(s, r, id)) = [ViewOf(s) EXCEPT !.removed = @ \cup {id}]
         ELSE ViewOf(Delete(s, r, id)) = ViewOf(s)
<1>1. CASE id \notin s.added
  BY <1>1 DEF Delete
<1>2. CASE id \in s.added
  <2> DEFINE t == Delete(s, r, id)
  <2>1. t = [s EXCEPT !.clock = Increment(s.clock, r), !.removed = s.removed \cup {id}]
    BY <1>2 DEF Delete
  <2> HIDE DEF t
  <2>2. /\ t.added = s.added /\ t.removed = s.removed \cup {id} /\ t.texts = s.texts
        /\ t.completed = s.completed
    BY <2>1 DEF TodoStates
  <2>3. ViewOf(t) = [items |-> ViewOf(s).items, removed |-> ViewOf(s).removed \cup {id},
                     done |-> ViewOf(s).done]
    BY <2>2, ViewFields DEF Done
  <2>4. ViewOf(t) = [ViewOf(s) EXCEPT !.removed = @ \cup {id}]
    BY <2>3, ViewExcept
  <2> QED
    BY <1>2, <2>4 DEF t
<1> QED
  BY <1>1, <1>2

(* A merge joins two views, where the texts agree. *)
LEMMA ViewOfMerge ==
  ASSUME NEW s \in TodoStates, NEW o \in TodoStates, WellFormed(s), WellFormed(o),
         \A id \in s.added \cap o.added : s.texts[id] = o.texts[id]
  PROVE  ViewOf(Merge(s, o)) = Shared!Join(ViewOf(s), ViewOf(o))
<1> DEFINE t == Merge(s, o)
<1>1. /\ t.added = s.added \cup o.added /\ t.removed = s.removed \cup o.removed
      /\ \A id \in s.added \cup o.added :
           t.texts[id] = IF id \in s.added THEN s.texts[id] ELSE o.texts[id]
  BY MergeEffect DEF WellFormed
<1>2. t.completed = MergeCompleted(s.completed, o.completed)
  BY DEF Merge
<1>3. /\ s.completed \in [DOMAIN s.completed -> BOOLEAN]
      /\ o.completed \in [DOMAIN o.completed -> BOOLEAN]
  BY Fields, MapsMember
<1> HIDE DEF t
<1>4. /\ DOMAIN t.completed = DOMAIN s.completed \cup DOMAIN o.completed
      /\ \A id \in DOMAIN t.completed :
           t.completed[id] = IF id \in DOMAIN o.completed
                             THEN GetOr(s.completed, id, FALSE) \/ o.completed[id]
                             ELSE s.completed[id]
  BY <1>2 DEF MergeCompleted
<1>5. \A id \in DOMAIN t.completed : t.completed[id] <=> id \in Done(s) \cup Done(o)
  BY <1>3, <1>4 DEF Done, GetOr
<1>6. Done(t) = Done(s) \cup Done(o)
  BY <1>4, <1>5 DEF Done
<1>7. {<<id, t.texts[id]>> : id \in t.added}
        = {<<id, s.texts[id]>> : id \in s.added} \cup {<<id, o.texts[id]>> : id \in o.added}
  <2>1. /\ \A id \in s.added : t.texts[id] = s.texts[id]
        /\ \A id \in o.added : t.texts[id] = o.texts[id]
    BY <1>1
  <2> QED
    BY <1>1, <2>1
<1>8. ViewOf(t) = [items |-> ViewOf(s).items \cup ViewOf(o).items,
                   removed |-> ViewOf(s).removed \cup ViewOf(o).removed,
                   done |-> ViewOf(s).done \cup ViewOf(o).done]
  BY <1>1, <1>6, <1>7, ViewFields
<1> QED
  BY <1>8 DEF Shared!Join, t

-----------------------------------------------------------------------------
(* The refinement mapping. *)
Views  == [n \in Peer |-> ViewOf(state[n])]
Offers == {ViewOf(s) : s \in {NewState} \cup InTransit}

LEMMA ViewsStep ==
  ASSUME TypeOK, NEW n \in Peer, NEW new, state' = [state EXCEPT ![n] = new]
  PROVE  Views' = [Views EXCEPT ![n] = ViewOf(new)]
<1>1. state \in [Peer -> TodoStates]
  BY DEF TypeOK, Sync!SyncTypeOK
<1>2. \A m \in Peer : state'[m] = IF m = n THEN new ELSE state[m]
  BY <1>1
<1>3. Views' = [m \in Peer |-> ViewOf(state'[m])]
  BY DEF Views, ViewOf
<1>4. [Views EXCEPT ![n] = ViewOf(new)]
        = [m \in Peer |-> IF m = n THEN ViewOf(new) ELSE ViewOf(state[m])]
  BY DEF Views
<1> QED
  BY <1>2, <1>3, <1>4

LEMMA OffersStep ==
  ASSUME NEW X, InTransit' \subseteq InTransit \cup X
  PROVE  Offers' \subseteq Offers \cup {ViewOf(s) : s \in X}
<1>1. Offers' = {ViewOf(s) : s \in {NewState} \cup InTransit'}
  BY DEF Offers, ViewOf
<1> QED
  BY <1>1 DEF Offers

(* A command of a browser creates, removes or toggles, or changes nothing. *)
LEMMA SharedCommand ==
  ASSUME ItemsInv, NoStops, NEW n \in Peer, Command(n)
  PROVE  Shared!Next \/ UNCHANGED Shared!vars
<1> DEFINE s == state[n]
           r == ReplicaOf[n]
<1>1. /\ TypeOK /\ s \in TodoStates /\ WellFormed(s) /\ s \in KnownStates
  BY KnownWhere DEF ItemsInv, StatesWellFormed, TypeOK, Sync!SyncTypeOK
<1>2. ASSUME NEW new, Apply(n, new)
      PROVE  Views' = [Views EXCEPT ![n] = ViewOf(new)] /\ Offers' = Offers
  <2>1. state' = [state EXCEPT ![n] = new] /\ UNCHANGED <<snapshot, inbox>>
    BY <1>2 DEF Apply
  <2>2. InTransit' = InTransit
    BY <2>1 DEF InTransit, Frames
  <2>3. Offers' = Offers
    BY <2>2 DEF Offers, ViewOf
  <2> QED
    BY <1>1, <2>1, <2>3, ViewsStep
<1>3. ASSUME NEW new, Apply(n, new), ViewOf(new) = ViewOf(s)
      PROVE  UNCHANGED Shared!vars
  <2>1. Views' = Views
    BY <1>2, <1>3 DEF Views
  <2> QED
    BY <1>2, <1>3, <2>1 DEF Shared!vars, Views, Offers
<1>4. ASSUME NEW text \in Text \cup {Blank}, AddTodo(n, text)
      PROVE  Shared!Next \/ UNCHANGED Shared!vars
  <2>1. CASE text = Blank
    BY <1>3, <1>4, <2>1 DEF AddTodo
  <2>2. CASE text # Blank
    <3> DEFINE new == Add(s, n, r, next_local_id[n] + 1, text)
               id == Drawn(n)
    <3>1. Apply(n, new) /\ text \in Text /\ id \in Id
      <4>1. /\ Apply(n, new) /\ next_local_id[n] < MaxLocalId
        BY <1>4, <2>2 DEF AddTodo
      <4>2. next_local_id[n] + 1 \in 1 .. MaxLocalId
        BY <1>1, <4>1, CounterAssumption DEF TypeOK
      <4> QED
        BY <2>2, <4>1, <4>2 DEF Drawn, TodoId, Id
    <3>2. \A u \in KnownStates : id \notin u.added
      BY DrawnIsNew
    <3>3. ViewOf(new) = [ViewOf(s) EXCEPT !.items = @ \cup {<<id, text>>}]
      BY <1>1, <3>2, ViewOfAdd DEF Drawn
    <3>4. Views' = [Views EXCEPT ![n].items = @ \cup {<<id, text>>}] /\ Offers' = Offers
      BY <1>2, <3>1, <3>3 DEF Views
    <3>5. \A q \in Peer : ~Shared!Sees(Views[q], id)
      BY <3>2, KnownWhere, ViewSees DEF Views
    <3>6. \A v \in Offers : ~Shared!Sees(v, id)
      <4>1. \A u \in {NewState} \cup InTransit : id \notin u.added
        BY <3>2, NewStateType DEF KnownStates
      <4> QED
        BY <4>1, ViewSees DEF Offers
    <3>7. Shared!Create(n, id, text)
      BY <3>4, <3>5, <3>6 DEF Shared!Create, Views, Offers
    <3> QED
      BY <3>1, <3>7 DEF Shared!Next
  <2> QED
    BY <2>1, <2>2
<1>5. ASSUME NEW id \in Id, ToggleTodo(n, id)
      PROVE  Shared!Next \/ UNCHANGED Shared!vars
  <2>1. Apply(n, Toggle(s, r, id))
    BY <1>5 DEF ToggleTodo
  <2>2. CASE id \in s.added /\ id \notin s.removed
    <3>1. ViewOf(Toggle(s, r, id))
            = [ViewOf(s) EXCEPT !.done = IF id \in @ THEN @ \ {id} ELSE @ \cup {id}]
      BY <1>1, <2>2, ViewOfToggle
    <3>2. /\ Views' = [Views EXCEPT ![n].done = IF id \in @ THEN @ \ {id} ELSE @ \cup {id}]
          /\ Offers' = Offers
      BY <1>2, <2>1, <3>1 DEF Views
    <3>3. Shared!Sees(Views[n], id) /\ id \notin Views[n].removed
      BY <2>2, ViewSees, ViewFields DEF Views
    <3>4. Shared!Toggle(n, id)
      BY <3>2, <3>3 DEF Shared!Toggle, Views, Offers
    <3> QED
      BY <3>4 DEF Shared!Next
  <2>3. CASE ~(id \in s.added /\ id \notin s.removed)
    BY <1>1, <1>3, <2>1, <2>3, ViewOfToggle
  <2> QED
    BY <2>2, <2>3
<1>6. ASSUME NEW id \in Id, DeleteTodo(n, id)
      PROVE  Shared!Next \/ UNCHANGED Shared!vars
  <2>1. Apply(n, Delete(s, r, id))
    BY <1>6 DEF DeleteTodo
  <2>2. CASE id \in s.added
    <3>1. ViewOf(Delete(s, r, id)) = [ViewOf(s) EXCEPT !.removed = @ \cup {id}]
      BY <1>1, <2>2, ViewOfDelete
    <3>2. /\ Views' = [Views EXCEPT ![n].removed = @ \cup {id}] /\ Offers' = Offers
      BY <1>2, <2>1, <3>1 DEF Views
    <3>3. Shared!Sees(Views[n], id)
      BY <2>2, ViewSees DEF Views
    <3>4. Shared!Remove(n, id)
      BY <3>2, <3>3 DEF Shared!Remove, Views, Offers
    <3> QED
      BY <3>4 DEF Shared!Next
  <2>3. CASE id \notin s.added
    BY <1>1, <1>3, <2>1, <2>3, ViewOfDelete
  <2> QED
    BY <2>2, <2>3
<1>7. CASE Resync(n)
  BY <1>3, <1>7 DEF Resync
<1> QED
  BY <1>4, <1>5, <1>6, <1>7 DEF Command

(* A step of a link publishes a view, learns one or loses some. *)
LEMMA SharedLink ==
  ASSUME ItemsInv, NoStops, NEW l \in Link, Sync!LinkStep(l)
  PROVE  Shared!Next
<1>1. /\ TypeOK /\ l[1] \in Peer /\ l[2] \in Peer
      /\ state \in [Peer -> TodoStates] /\ KnownStates \subseteq TodoStates
      /\ \A s \in KnownStates : WellFormed(s)
      /\ \A n \in Peer : state[n] \in KnownStates
      /\ InTransit \subseteq KnownStates
  BY LinkAssumption, KnownTyped
  DEF ItemsInv, StatesWellFormed, TypeOK, Sync!SyncTypeOK, KnownStates
<1>2. CASE state' = state
  <2>1. InTransit' \subseteq InTransit \cup {state[l[1]], NewState}
    BY <1>1, LinkMoves DEF Moved
  <2>2. Offers' \subseteq Offers \cup {ViewOf(s) : s \in {state[l[1]], NewState}}
    BY <2>1, OffersStep
  <2>3. Offers' \subseteq Offers \cup {Views[l[1]]}
    BY <1>1, <2>2 DEF Views, Offers
  <2>4. Views' = Views
    BY <1>2 DEF Views, ViewOf
  <2>5. Shared!Publish(l[1])
    BY <2>3, <2>4 DEF Shared!Publish, Views, Offers
  <2> QED
    BY <1>1, <2>5 DEF Shared!Next
<1>3. ASSUME NEW h \in InTransit, InTransit' \subseteq InTransit,
             state' = [state EXCEPT ![l[2]] = Merge(state[l[2]], h)]
      PROVE  Shared!Next
  <2> DEFINE s == state[l[2]]
  <2>1. \A id \in s.added \cap h.added : s.texts[id] = h.texts[id]
    BY <1>1, <1>3 DEF ItemsInv, TextsAgree
  <2>2. ViewOf(Merge(s, h)) = Shared!Join(ViewOf(s), ViewOf(h))
    BY <1>1, <1>3, <2>1, ViewOfMerge
  <2>3. Views' = [Views EXCEPT ![l[2]] = Shared!Join(@, ViewOf(h))]
    BY <1>1, <1>3, <2>2, ViewsStep DEF Views
  <2>4. Offers' \subseteq Offers
    <3>1. Offers' \subseteq Offers \cup {ViewOf(x) : x \in {}}
      BY <1>3, OffersStep
    <3> QED
      BY <3>1
  <2>5. Shared!Learn(l[2], ViewOf(h))
    BY <2>3, <2>4 DEF Shared!Learn, Views, Offers
  <2>6. ViewOf(h) \in Offers
    BY <1>3 DEF Offers
  <2> QED
    BY <1>1, <2>5, <2>6 DEF Shared!Next, Offers
<1> QED
  BY <1>1, <1>2, <1>3, LinkMoves

(* Each step of the cluster is a step of the shared list, or none. *)
LEMMA SharedStep ==
  ASSUME ItemsInv, NoStops, NoStops', [Next]_vars
  PROVE  Shared!Next \/ UNCHANGED Shared!vars
<1>1. TypeOK
  BY DEF ItemsInv
<1>2. ASSUME UNCHANGED <<state, snapshot, inbox>> PROVE UNCHANGED Shared!vars
  BY <1>2 DEF Shared!vars, ViewOf, InTransit, Frames
<1>3. ASSUME NEW n \in Peer, NotifySync(n) \/ StartPeer(n) PROVE UNCHANGED Shared!vars
  BY <1>2, <1>3 DEF NotifySync, StartPeer, Sync!Start
<1>4. ASSUME NEW l \in Link, SyncStep(l) PROVE Shared!Next
  BY <1>4, SharedLink DEF SyncStep
<1>5. CASE UNCHANGED vars
  BY <1>2, <1>5 DEF vars
<1> QED
  BY <1>1, <1>3, <1>4, <1>5, SharedCommand, StillNoStops DEF Next

LEMMA SharedInit == ASSUME Init PROVE Shared!Init
<1>1. /\ \A n \in Peer : state[n] = NewState
      /\ \A s \in InTransit : s = NewState
  BY SyncBoundAssumption DEF Init, Sync!SyncInit, InTransit, Frames
<1>2. Views = [n \in Peer |-> Shared!Empty] /\ Offers = {Shared!Empty}
  BY <1>1, ViewOfNew DEF Views, Offers
<1> QED
  BY <1>2 DEF Shared!Init, Views, Offers

(* Where no process ends, the cluster implements the shared list.          *)
THEOREM ClusterSharesOneList == ASSUME NeverStops PROVE Spec => SharesOneList
<1>1. Init => Shared!Init
  BY SharedInit
<1>2. ItemsInv /\ NoStops /\ NoStops' /\ [Next]_vars => [Shared!Next]_Shared!vars
  BY SharedStep
<1> QED
  BY <1>1, <1>2, NeverStopsHolds, ItemsInvariant, PTL DEF Spec, SharesOneList, Shared!Spec
=============================================================================
