------------------------------ MODULE TodoSync ------------------------------
(***************************************************************************)
(* A cluster of todo-app processes: each holds one TodoState behind an     *)
(* RwLock, applies the commands of its browsers to it (server.rs,          *)
(* apply_and_broadcast) and replicates it with crdt-sync (SyncNode).       *)
(* What a browser is shown is not part of this module.                     *)
(***************************************************************************)
EXTENDS TodoState, Sequences, FiniteSets

CONSTANTS
  Link, ChannelCap, WireCap, Slot, MaxBreaks,  \* see SyncNode
  ReplicaOf,         \* ReplicaOf[n]: the replica_id Config gives peer n
  MaxFrame,          \* how many todos fit a frame of the codec
  MaxClock,          \* MaxClock[n]: bound on the clock entry n's commands increment
  MaxStops,          \* MaxStops[n]: bound on the times n's process ends
  MaxHandlers,       \* bound on the handlers between their apply and notify
  EditAfterRestart   \* whether browsers change the list of a restarted process

ASSUME LinkAssumption == Link \subseteq Peer \X Peer
ASSUME ReplicaOfAssumption == ReplicaOf \in [Peer -> ReplicaId]
ASSUME SyncBoundAssumption ==
  /\ ChannelCap \in Nat \ {0} /\ WireCap \in Nat \ {0} /\ MaxBreaks \in Nat
  /\ Slot # {}
ASSUME ClusterBoundAssumption ==
  /\ MaxClock \in [Peer -> 0 .. MaxCount] /\ MaxStops \in [Peer -> Nat]
  /\ MaxHandlers \in Nat /\ EditAfterRestart \in BOOLEAN

VARIABLES
  state, up, task, snapshot, pending, tcp, current, inbox, breaks,
  next_local_id,  \* next_local_id[n]: the local ids n has handed out
  applied,        \* applied[n]: the commands applied whose notify.send is due
  stops           \* stops[n]: how many times n's process has ended

(* Frame size is counted in todos, removed ones included: nothing is ever  *)
(* dropped from the sets and maps a frame carries.                         *)
FitsFrame(s) == Cardinality(s.added) <= MaxFrame

Sync == INSTANCE SyncNode
          WITH Node <- Peer, S <- TodoStates, Default <- NewState, Join <- Merge

vars == <<state, up, task, snapshot, pending, tcp, current, inbox, breaks,
          next_local_id, applied, stops>>

TypeOK ==
  /\ Sync!SyncTypeOK
  /\ next_local_id \in [Peer -> 0 .. MaxLocalId]
  /\ applied \in [Peer -> 0 .. MaxHandlers]
  /\ stops \in [Peer -> Nat]

Init ==
  /\ Sync!SyncInit
  /\ next_local_id = [n \in Peer |-> 0]
  /\ applied = [n \in Peer |-> 0]
  /\ stops = [n \in Peer |-> 0]

-----------------------------------------------------------------------------
(* The bounds on what browsers change; commands without effect have none. *)
MayChange(n) ==
  /\ Get(state[n].clock, ReplicaOf[n]) < MaxClock[n]
  /\ stops[n] = 0 \/ EditAfterRestart

(* One command: apply under the write guard. *)
Apply(n, newState) ==
  /\ up[n]
  /\ applied[n] < MaxHandlers
  /\ newState # state[n] => MayChange(n)
  /\ state'   = [state EXCEPT ![n] = newState]
  /\ applied' = [applied EXCEPT ![n] = @ + 1]
  /\ UNCHANGED <<up, task, snapshot, pending, tcp, current, inbox, breaks, stops>>

(* Mutant: a text of white space is not refused. *)
AddTodoBlank(n, text) ==
  /\ next_local_id[n] < MaxLocalId
  /\ next_local_id' = [next_local_id EXCEPT ![n] = @ + 1]
  /\ Apply(n, Add(state[n], n, ReplicaOf[n], next_local_id[n] + 1, text))

(* Mutant: the id is taken from next_local_id, which nothing advances. *)
AddTodoSameId(n, text) ==
  \/ /\ text = Blank
     /\ Apply(n, state[n])
     /\ UNCHANGED next_local_id
  \/ /\ text # Blank
     /\ Apply(n, Add(state[n], n, ReplicaOf[n], next_local_id[n] + 1, text))
     /\ UNCHANGED next_local_id

AddTodo(n, text) ==
  \/ /\ text = Blank
     /\ Apply(n, state[n])
     /\ UNCHANGED next_local_id
  \/ /\ text # Blank
     /\ next_local_id[n] < MaxLocalId
     /\ next_local_id' = [next_local_id EXCEPT ![n] = @ + 1]
     /\ Apply(n, Add(state[n], n, ReplicaOf[n], next_local_id[n] + 1, text))

ToggleTodo(n, id) ==
  /\ Apply(n, Toggle(state[n], ReplicaOf[n], id))
  /\ UNCHANGED next_local_id

DeleteTodo(n, id) ==
  /\ Apply(n, Delete(state[n], ReplicaOf[n], id))
  /\ UNCHANGED next_local_id

Resync(n) ==
  /\ Apply(n, state[n])
  /\ UNCHANGED next_local_id

(* notify.send(()), after the write guard is released. *)
NotifySync(n) ==
  /\ applied[n] > 0
  /\ applied' = [applied EXCEPT ![n] = @ - 1]
  /\ Sync!Notify(n)
  /\ UNCHANGED <<state, up, task, snapshot, tcp, current, inbox, breaks,
                 next_local_id, stops>>

StopPeer(n) ==
  /\ stops[n] < MaxStops[n]
  /\ stops' = [stops EXCEPT ![n] = @ + 1]
  /\ Sync!Stop(n)
  /\ next_local_id' = [next_local_id EXCEPT ![n] = 0]
  /\ applied' = [applied EXCEPT ![n] = 0]

StartPeer(n) ==
  /\ Sync!Start(n)
  /\ UNCHANGED <<next_local_id, applied, stops>>

(* The ids a browser can name: any it was ever shown, or an invented one. *)
Command(n) ==
  \/ \E text \in Text \cup {Blank} : AddTodo(n, text)
  \/ \E id \in Id : ToggleTodo(n, id)
  \/ \E id \in Id : DeleteTodo(n, id)
  \/ Resync(n)

SyncStep(l) == Sync!LinkStep(l) /\ UNCHANGED <<next_local_id, applied, stops>>

Next ==
  \/ \E n \in Peer : Command(n) \/ NotifySync(n) \/ StopPeer(n) \/ StartPeer(n)
  \/ \E l \in Link : SyncStep(l)

Spec == Init /\ [][Next]_vars

-----------------------------------------------------------------------------
(* Fairness: the runtime polls every task that can go on, and its RwLock   *)
(* is fair, so each task that stays able to take its next step takes it.   *)
(* A kernel that has written to a peer that is gone learns of it.          *)
(* Browsers owe no command; a stopped process is started again.  Pushes on *)
(* local changes must do without the anti-entropy ticker, so Ticks is an   *)
(* assumption of the properties that need it.                              *)
OutgoingStep(l) ==
  /\ \/ Sync!Connect(l)   \/ Sync!ReadState(l)
     \/ Sync!SendFrame(l) \/ Sync!SendIntoReset(l) \/ Sync!SendError(l)
     \/ Sync!RecvChange(l) \/ Sync!RecvLagged(l)
  /\ UNCHANGED <<next_local_id, applied, stops>>

IncomingStep(l, c) ==
  Sync!Deliver(l, c) /\ UNCHANGED <<next_local_id, applied, stops>>

ResetArrives(l) == Sync!ResetArrives(l) /\ UNCHANGED <<next_local_id, applied, stops>>

AntiEntropyTick(l) == Sync!Tick(l) /\ UNCHANGED <<next_local_id, applied, stops>>

FairSpec ==
  /\ Spec
  /\ \A n \in Peer : WF_vars(NotifySync(n)) /\ WF_vars(StartPeer(n))
  /\ \A l \in Link : WF_vars(OutgoingStep(l)) /\ WF_vars(ResetArrives(l))
  /\ \A l \in Link, c \in Slot : WF_vars(IncomingStep(l, c))

Ticks == \A l \in Link : WF_vars(AntiEntropyTick(l))

-----------------------------------------------------------------------------
(* Every value of the replicated state that exists anywhere: behind a      *)
(* lock, cloned by push_state, or in flight.                               *)
Frames(l) == UNION {{inbox[l][c][i] : i \in 1 .. Len(inbox[l][c])} : c \in Slot}

InTransit == {snapshot[l] : l \in Link} \cup UNION {Frames(l) : l \in Link}

KnownStates == {state[n] : n \in Peer} \cup InTransit

NoStops == \A n \in Peer : stops[n] = 0

(* Wherever it travels, the state is well formed (see WellFormed). *)
StatesWellFormed == \A s \in KnownStates : WellFormed(s)

(* Until a process ends, an item's id is one its peer has handed out: the  *)
(* next id of a peer is new to every replica and to every frame.           *)
IdsDrawn ==
  NoStops => \A s \in KnownStates : \A id \in s.added : id[2] <= next_local_id[id[1]]

(* An id stands for one text everywhere: merge keeps its own entry on a    *)
(* conflict, so replicas that disagree on a text never agree again.        *)
TextsAgree ==
  \A s, t \in KnownStates : \A id \in s.added \cap t.added : s.texts[id] = t.texts[id]

(* The clock tracks causality: a state whose clock is below or equal to    *)
(* another's holds no item and no removal that the other one lacks.        *)
ClockCoversUpdates ==
  \A s, t \in KnownStates :
    PartialCmp(s.clock, t.clock) \in {"Less", "Equal"} =>
      s.added \subseteq t.added /\ s.removed \subseteq t.removed

(* The views peers have of the shared list.                                *)
ViewOf(s) ==
  [items   |-> {<<id, s.texts[id]>> : id \in s.added},
   removed |-> s.removed,
   done    |-> {id \in DOMAIN s.completed : s.completed[id]}]

Shared == INSTANCE SharedTodoList
            WITH view      <- [n \in Peer |-> ViewOf(state[n])],
                 published <- {ViewOf(s) : s \in {NewState} \cup InTransit}

(* Where no process ends, the cluster is one shared list (SharedTodoList): *)
(* no interleaving of commands, clones, late and repeated frames gives an  *)
(* id to two items or a text, takes an item or a removal back, or unchecks *)
(* by a merge what a user has checked.                                     *)
SharesOneList == Shared!Spec

(* A running replica never changes the text of an item it holds (the       *)
(* "immutable text and creator labels" of TodoState).                      *)
TextsImmutable ==
  [][\A n \in Peer : up[n] /\ up'[n] =>
       \A id \in DOMAIN state[n].texts :
         /\ id \in DOMAIN state'[n].texts
         /\ state'[n].texts[id] = state[n].texts[id]]_vars

(* A todo that is added is new to its replica, and the snapshot shows  it. *)
AddIsShown ==
  [][\A n \in Peer : next_local_id'[n] > next_local_id[n] =>
       LET id == TodoId(n, next_local_id'[n])
       IN  /\ id \notin state[n].added
           /\ \E todo \in Todos(state'[n], n) : todo.id = id]_vars

(* A running replica loses nothing it has seen: a clone sent after a newer *)
(* one, or left over from a connection that broke, undoes no item, no      *)
(* removal and no clock entry.                                             *)
NothingUndone ==
  [][\A n \in Peer : up[n] /\ up'[n] =>
       /\ state[n].added \subseteq state'[n].added
       /\ state[n].removed \subseteq state'[n].removed
       /\ PartialCmp(state[n].clock, state'[n].clock) \in {"Less", "Equal"}]_vars

(* From some time on browsers send nothing, not even commands without      *)
(* effect: each would notify the outgoing tasks, and enough of them make   *)
(* a task lag and drop its connection again and again.                     *)
BrowsersRest == <>[](\A n \in Peer : applied[n] = 0)

(* Once browsers rest, every change they made has reached every configured *)
(* peer by the pushes alone, with no anti-entropy tick: no notification is *)
(* lost between connecting, the first push and select!, and a receiver     *)
(* that lags reconnects and pushes.  A connection that breaks may take a   *)
(* push with it.                                                           *)
PushDelivers ==
  BrowsersRest /\ [](breaks = 0) =>
    \A l \in Link : \A k \in 1 .. MaxClock[l[1]] :
      (Get(state[l[1]].clock, ReplicaOf[l[1]]) >= k)
        ~> (Get(state[l[2]].clock, ReplicaOf[l[1]]) >= k)

(* The change a link owes its peer is on its way: the peer has it, or a    *)
(* frame that holds it is in flight or about to be sent, or the outgoing   *)
(* task reads the state again before it next waits, or a notification is   *)
(* due to it or will be sent.  No moment between connecting, a push,       *)
(* select! and a command's notify.send loses it; a broken connection may.  *)
Reaches(s, n) == Get(state[n].clock, ReplicaOf[n]) <= Get(s.clock, ReplicaOf[n])

UnderWay(l) ==
  \/ Reaches(state[l[2]], l[1])
  \/ \E s \in Frames(l) : Reaches(s, l[1])
  \/ task[l] \in {"connecting", "reading"}
  \/ task[l] = "sending" /\ Reaches(snapshot[l], l[1])
  \/ pending[l] > 0
  \/ applied[l[1]] > 0

ChangeUnderWay == NoStops /\ breaks = 0 => \A l \in Link : UnderWay(l)

(* Once browsers rest and as the ticker fires, all replicas come to run    *)
(* with the same state, and keep it, where each change can travel both     *)
(* ways: a merge only ever checks a box, so an uncheck reaches no peer     *)
(* that knew the box checked, and it is that peer's push, which checks the *)
(* box again, that makes them agree.                                       *)
Converged == \A n, m \in Peer : up[n] /\ state[n] = state[m]
Converges == BrowsersRest /\ Ticks => <>[]Converged

(* Where links go one way, everything but the check marks converges.       *)
Unflagged(s) == [s EXCEPT !.completed = EmptyMap]
ItemsAgree == \A n, m \in Peer : up[n] /\ Unflagged(state[n]) = Unflagged(state[m])
ItemsConverge == BrowsersRest /\ Ticks => <>[]ItemsAgree
=============================================================================
