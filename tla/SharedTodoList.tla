--------------------------- MODULE SharedTodoList ----------------------------
(***************************************************************************)
(* What replicating a to-do list promises to its users, without clocks,    *)
(* connections or tasks.  Each peer has a view of one shared list.  It     *)
(* creates items under ids nobody has used, removes and toggles items it   *)
(* sees, and publishes its view; what was published may be lost, learned   *)
(* late, in any order and many times.  Learning only adds: a view never    *)
(* loses an item, a removal or a check mark by it, and which text an item  *)
(* has is decided once.                                                    *)
(***************************************************************************)
CONSTANTS Peer, Id, Text

VARIABLES
  view,      \* view[p]: the items p sees, each with its text, the ones it knows
             \*   to be removed and the ones it shows as done
  published  \* the views that can still be learned

vars == <<view, published>>

Empty == [items |-> {}, removed |-> {}, done |-> {}]

Join(v, w) ==
  [items   |-> v.items \cup w.items,
   removed |-> v.removed \cup w.removed,
   done    |-> v.done \cup w.done]

Sees(v, id) == \E item \in v.items : item[1] = id

Init == view = [p \in Peer |-> Empty] /\ published = {Empty}

Create(p, id, text) ==
  /\ \A q \in Peer : ~Sees(view[q], id)
  /\ \A v \in published : ~Sees(v, id)
  /\ view' = [view EXCEPT ![p].items = @ \cup {<<id, text>>}]
  /\ UNCHANGED published

Remove(p, id) ==
  /\ Sees(view[p], id)
  /\ view' = [view EXCEPT ![p].removed = @ \cup {id}]
  /\ UNCHANGED published

Toggle(p, id) ==
  /\ Sees(view[p], id) /\ id \notin view[p].removed
  /\ view' = [view EXCEPT ![p].done = IF id \in @ THEN @ \ {id} ELSE @ \cup {id}]
  /\ UNCHANGED published

Publish(p) ==
  /\ published' \subseteq published \cup {view[p]}
  /\ UNCHANGED view

Learn(p, v) ==
  /\ view' = [view EXCEPT ![p] = Join(@, v)]
  /\ published' \subseteq published

Next ==
  \E p \in Peer :
    \/ \E id \in Id : Remove(p, id) \/ Toggle(p, id) \/ \E text \in Text : Create(p, id, text)
    \/ Publish(p)
    \/ \E v \in published : Learn(p, v)

Spec == Init /\ [][Next]_vars
=============================================================================
