-------------------------- MODULE TodoServerProofs --------------------------
(***************************************************************************)
(* The browser side of one process keeps its types, a click always finds   *)
(* its item, and where one task does all broadcasts no page is left with   *)
(* an old list and nothing newer to come.                                  *)
(***************************************************************************)
EXTENDS TodoServer, TodoStateProofs, SequenceTheorems

(* What the types need beside themselves: a page that is not open has no   *)
(* connection at the server, nothing is on its way to a page before the    *)
(* greeting, and a notification is due for no more than was merged.        *)
ServerInv ==
  /\ TypeOK
  /\ \A p \in Page :
       /\ page[p] = "new" => socket[p] = "new"
       /\ socket[p] \in {"new", "greeting", "greeted"} => toPage[p] = <<>>
  /\ merged <= merges

-----------------------------------------------------------------------------
(* Queues of messages and snapshots. *)
LEMMA QueueAppend ==
  ASSUME NEW E, NEW q \in Seq(E), NEW e \in E
  PROVE  /\ Append(q, e) \in Seq(E) /\ Len(Append(q, e)) = Len(q) + 1
         /\ \A i \in 1 .. Len(Append(q, e)) :
              Append(q, e)[i] = e \/ (i \in 1 .. Len(q) /\ Append(q, e)[i] = q[i])
  OBVIOUS

LEMMA QueueTail ==
  ASSUME NEW E, NEW q \in Seq(E), q # <<>>
  PROVE  /\ Head(q) \in E /\ Tail(q) \in Seq(E) /\ Len(Tail(q)) <= Len(q)
         /\ Head(q) = q[1] /\ 1 \in 1 .. Len(q)
         /\ \A i \in 1 .. Len(Tail(q)) : i + 1 \in 1 .. Len(q) /\ Tail(q)[i] = q[i + 1]
  OBVIOUS

LEMMA QueuePrefix ==
  ASSUME NEW E, NEW q \in Seq(E), NEW k \in 0 .. Len(q)
  PROVE  /\ SubSeq(q, 1, k) \in Seq(E) /\ Len(SubSeq(q, 1, k)) = k
         /\ \A i \in 1 .. k : SubSeq(q, 1, k)[i] = q[i]
  OBVIOUS

(* A snapshot has the type of one. *)
LEMMA SnapshotType ==
  ASSUME NEW s \in TodoStates
  PROVE  /\ SnapshotOf(s) \in Views
         /\ SnapshotOf(s).clock = Get(s.clock, Replica)
         /\ \A todo \in SnapshotOf(s).todos : todo.id \in s.added
<1> DEFINE Shown(id) == [id |-> id, text |-> s.texts[id],
                         completed |-> GetOr(s.completed, id, FALSE),
                         created_by |-> GetOr(s.creators, id, Self)]
           Live == {i \in s.added \ s.removed : i \in DOMAIN s.texts}
<1>1. /\ s.added \subseteq Id
      /\ s.texts \in [DOMAIN s.texts -> Text]
      /\ s.completed \in [DOMAIN s.completed -> BOOLEAN]
      /\ s.creators \in [DOMAIN s.creators -> Peer]
  BY Fields, MapsMember
<1>2. ASSUME NEW id \in Live
      PROVE  Shown(id) \in [id : Id, text : Text, completed : BOOLEAN, created_by : Peer]
  <2>1. s.texts[id] \in Text
    BY <1>1
  <2>2. GetOr(s.completed, id, FALSE) \in BOOLEAN
    BY <1>1, Zenon DEF GetOr
  <2>3. GetOr(s.creators, id, Self) \in Peer
    BY <1>1, ServerAssumption DEF GetOr
  <2> QED
    BY <1>1, <2>1, <2>2, <2>3
<1>3. Get(s.clock, Replica) \in -1 .. MaxCount
  <2>1. s.clock \in [DOMAIN s.clock -> 0 .. MaxCount]
    BY Fields, MapsMember
  <2> QED
    BY <2>1, CounterAssumption DEF Get, GetOr
<1>4. Todos(s, Self) = {Shown(id) : id \in Live}
  BY DEF Todos
<1>5. Todos(s, Self) \subseteq [id : Id, text : Text, completed : BOOLEAN, created_by : Peer]
  <2> HIDE DEF Shown, Live
  <2> QED
    BY <1>2, <1>4
<1>6. \A todo \in Todos(s, Self) : todo.id \in s.added
  <2>1. \A id \in Live : Shown(id).id = id /\ id \in s.added
    OBVIOUS
  <2> HIDE DEF Shown, Live
  <2> QED
    BY <1>4, <2>1
<1> QED
  BY <1>3, <1>5, <1>6 DEF SnapshotOf, Views

LEMMA NoViewType == NoView \in Views /\ NoView.todos = {} /\ NoView.clock = -1
  BY CounterAssumption DEF NoView, Views

-----------------------------------------------------------------------------
(* What the list gains: items and counts, never fewer of them. *)
ListGrows ==
  /\ todos.added \subseteq todos'.added
  /\ Get(todos.clock, Replica) \in Nat /\ Get(todos'.clock, Replica) \in Nat
  /\ Get(todos.clock, Replica) <= Get(todos'.clock, Replica)

LEMMA OwnEntry == ASSUME NEW s \in TodoStates PROVE Get(s.clock, Replica) \in Nat
  BY Fields, GetType, CounterAssumption

(* A message, applied within the bounds. *)
LEMMA EffectType ==
  ASSUME TypeOK, Room, NEW m \in Messages \cup {NoCmd}, Effect(m)
  PROVE  /\ todos' \in TodoStates /\ next_local_id' \in 0 .. MaxLocalId
         /\ ListGrows
<1>1. /\ todos \in TodoStates /\ next_local_id \in 0 .. MaxLocalId
      /\ Self \in Peer /\ Replica \in ReplicaId
      /\ Get(todos.clock, Replica) < MaxCount /\ Get(todos.clock, Replica) \in Nat
      /\ todos.clock \in Maps(ReplicaId, 0 .. MaxCount) /\ MaxCount \in Nat
  BY ServerAssumption, CounterAssumption, OwnEntry, Fields DEF TypeOK, Room
<1>5. ASSUME UNCHANGED <<todos, next_local_id>>
      PROVE  todos' \in TodoStates /\ next_local_id' \in 0 .. MaxLocalId /\ ListGrows
  BY <1>1, <1>5 DEF ListGrows
<1>2. CASE m.type = "add"
  <2> DEFINE new == Add(todos, Self, Replica, next_local_id + 1, m.text)
  <2> SUFFICES ASSUME m.text # Blank PROVE todos' \in TodoStates
                      /\ next_local_id' \in 0 .. MaxLocalId /\ ListGrows
    BY <1>1, <1>2, <1>5 DEF Effect
  <2>1. m.text \in Text /\ next_local_id + 1 \in 1 .. MaxLocalId
    BY <1>1, <1>2, CounterAssumption DEF Messages, NoCmd, Room
  <2>2. new \in TodoStates /\ todos.added \subseteq new.added
    BY <1>1, <2>1, AddEffect
  <2>3. new.clock = Increment(todos.clock, Replica)
    BY DEF Add
  <2>4. todos' = new /\ next_local_id' = next_local_id + 1
    BY <1>2 DEF Effect
  <2> HIDE DEF new
  <2> QED
    BY <1>1, <2>1, <2>2, <2>3, <2>4, GetIncrement DEF ListGrows
<1>3. CASE m.type = "toggle"
  <2> DEFINE new == Toggle(todos, Replica, m.id)
  <2>1. m.id \in Id
    BY <1>3 DEF Messages, NoCmd
  <2>2. new \in TodoStates /\ new.added = todos.added
    BY <1>1, <2>1, ToggleEffect
  <2>3. new.clock = todos.clock \/ new.clock = Increment(todos.clock, Replica)
    BY <1>1 DEF Toggle, TodoStates
  <2>4. todos' = new /\ next_local_id' = next_local_id
    BY <1>3 DEF Effect
  <2> HIDE DEF new
  <2> QED
    BY <1>1, <2>2, <2>3, <2>4, GetIncrement DEF ListGrows
<1>4. CASE m.type = "delete"
  <2> DEFINE new == Delete(todos, Replica, m.id)
  <2>1. m.id \in Id
    BY <1>4 DEF Messages, NoCmd
  <2>2. new \in TodoStates /\ new.added = todos.added
    BY <1>1, <2>1, DeleteEffect
  <2>3. new.clock = todos.clock \/ new.clock = Increment(todos.clock, Replica)
    BY <1>1 DEF Delete, TodoStates
  <2>4. todos' = new /\ next_local_id' = next_local_id
    BY <1>4 DEF Effect
  <2> HIDE DEF new
  <2> QED
    BY <1>1, <2>2, <2>3, <2>4, GetIncrement DEF ListGrows
<1> QED
  BY <1>2, <1>3, <1>4, <1>5 DEF Effect

(* A frame merged. *)
LEMMA FrameType ==
  ASSUME TypeOK, NEW frame \in PeerFrames, MergeFrame(frame)
  PROVE  todos' \in TodoStates /\ ListGrows
<1>1. todos \in TodoStates /\ frame \in TodoStates /\ todos' = Merge(todos, frame)
  BY ServerAssumption DEF TypeOK, MergeFrame
<1>2. todos' \in TodoStates /\ todos.added \subseteq todos'.added
  BY <1>1, MergeEffect
<1>3. Get(todos'.clock, Replica) = Larger(Get(todos.clock, Replica), Get(frame.clock, Replica))
  <2>1. todos'.clock = ClockMerge(todos.clock, frame.clock)
    BY <1>1 DEF Merge
  <2> QED
    BY <1>1, <2>1, Fields, GetClockMerge, CounterAssumption
<1> QED
  BY <1>1, <1>2, <1>3, OwnEntry DEF ListGrows, Larger

-----------------------------------------------------------------------------
(* Everything starts with its type. *)
LEMMA InvInit == ASSUME Init PROVE ServerInv
<1>1. <<>> \in Seq(Views) /\ <<>> \in Seq(Messages) /\ Len(<<>>) = 0
  OBVIOUS
<1>2. NoView \in Views /\ NewState \in TodoStates
  BY NoViewType, NewStateType
<1>3. /\ rx \in [Page -> Seq(Views)] /\ toPage \in [Page -> Seq(Views)]
      /\ toServer \in [Page -> Seq(Messages)]
      /\ \A p \in Page : rx[p] = <<>> /\ toPage[p] = <<>> /\ toServer[p] = <<>>
  BY <1>1 DEF Init
<1>4. /\ clone \in [Page \cup {Forwarder} -> Views] /\ shown \in [Page -> Views]
      /\ cmd \in [Page -> Messages \cup {NoCmd}]
  BY <1>2 DEF Init
<1>5. /\ socket \in [Page -> {"new", "greeting", "greeted", "serving", "ended"}]
      /\ recv \in [Page \cup {Forwarder} -> {"waiting", "writing", "reading", "sending", "ended"}]
      /\ page \in [Page -> {"new", "open", "closed"}]
      /\ sends \in [Page -> Nat] /\ pendingLocalOps \in [Page -> Nat]
      /\ \A p \in Page : sends[p] <= MaxSends[p]
  BY ServerAssumption DEF Init
<1>6. /\ todos \in TodoStates /\ next_local_id \in 0 .. MaxLocalId
      /\ updates \in 0 .. UpdateCap + 1 /\ merges \in 0 .. MaxMerges
      /\ merged \in 0 .. MaxMerges /\ merged <= merges
  <2>1. todos = NewState /\ next_local_id = 0 /\ updates = 0 /\ merges = 0 /\ merged = 0
    BY DEF Init
  <2> QED
    BY <1>2, <2>1, ServerAssumption, CounterAssumption
<1>7. \A p \in Page : /\ Len(rx[p]) <= ViewCap + 1
                     /\ Len(toServer[p]) <= WsCap /\ Len(toPage[p]) <= WsCap
  BY <1>1, <1>3, ServerAssumption
<1>8. TypeOK
  BY <1>3, <1>4, <1>5, <1>6, <1>7 DEF TypeOK
<1> QED
  BY <1>6, <1>8 DEF Init, ServerInv

(* A page that sends a message. *)
LEMMA PostType ==
  ASSUME ServerInv, NEW p \in Page, NEW m \in Messages, Post(p, m),
         \/ pendingLocalOps' = [pendingLocalOps EXCEPT ![p] = @ + 1]
         \/ UNCHANGED pendingLocalOps
  PROVE  ServerInv'
<1>1. /\ Append(toServer[p], m) \in Seq(Messages)
      /\ Len(Append(toServer[p], m)) = Len(toServer[p]) + 1
      /\ Len(toServer[p]) \in Nat
  BY QueueAppend DEF ServerInv, TypeOK
<1>2. /\ toServer' \in [Page -> Seq(Messages)]
      /\ \A x \in Page : Len(toServer'[x]) <= WsCap
  BY <1>1, ServerAssumption DEF ServerInv, TypeOK, Post
<1>3. /\ sends' \in [Page -> Nat] /\ pendingLocalOps' \in [Page -> Nat]
      /\ \A x \in Page : sends'[x] <= MaxSends[x]
  <2>1. /\ sends \in [Page -> Nat] /\ pendingLocalOps \in [Page -> Nat]
        /\ MaxSends \in [Page -> Nat] /\ sends[p] < MaxSends[p]
        /\ \A x \in Page : sends[x] <= MaxSends[x]
    BY ServerAssumption DEF ServerInv, TypeOK, Post
  <2>2. sends' = [sends EXCEPT ![p] = @ + 1]
    BY DEF Post
  <2> QED
    BY <2>1, <2>2
<1> QED
  BY <1>2, <1>3 DEF ServerInv, TypeOK, Post, serverVars

(* Each step of the process and of its pages. *)
LEMMA InvStep == ASSUME ServerInv, [Next]_vars PROVE ServerInv'
<1>0. TypeOK
  BY DEF ServerInv
<1> USE ServerAssumption
<1>1. ASSUME NEW p \in Page, Open(p) PROVE ServerInv'
  <2>1. shown' \in [Page -> Views] /\ pendingLocalOps' \in [Page -> Nat]
    <3>1. CASE UNCHANGED <<shown, pendingLocalOps>>
      BY <3>1 DEF ServerInv, TypeOK
    <3>2. ASSUME NEW q \in Page,
                 shown' = [shown EXCEPT ![p] = shown[q], ![q] = NoView],
                 pendingLocalOps' = [pendingLocalOps EXCEPT ![p] = pendingLocalOps[q], ![q] = 0]
          PROVE  shown' \in [Page -> Views] /\ pendingLocalOps' \in [Page -> Nat]
      BY <3>2, NoViewType DEF ServerInv, TypeOK
    <3> QED
      BY <1>1, <3>1, <3>2 DEF Open
  <2> QED
    BY <1>1, <2>1 DEF ServerInv, TypeOK, Open
<1>2. ASSUME NEW p \in Page, SendLocalOperation(p) PROVE ServerInv'
  <2>1. PICK m : Post(p, m) /\ m \in Messages
    <3>1. shown[p] \in Views
      BY DEF ServerInv, TypeOK
    <3>2. ASSUME NEW text \in Text PROVE [type |-> "add", text |-> text] \in Messages
      BY DEF Messages
    <3>3. ASSUME NEW todo \in shown[p].todos, NEW type \in {"toggle", "delete"}
          PROVE  [type |-> type, id |-> todo.id] \in Messages
      BY <3>1 DEF Views, Messages
    <3> QED
      BY <1>2, <3>2, <3>3 DEF SendLocalOperation
  <2> QED
    BY <1>2, <2>1, PostType DEF SendLocalOperation
<1>3. ASSUME NEW p \in Page, RequestResync(p) PROVE ServerInv'
  <2>1. [type |-> "resync"] \in Messages
    BY DEF Messages
  <2> QED
    BY <1>3, <2>1, PostType DEF RequestResync
<1>4. ASSUME NEW p \in Page, HandleSnapshot(p) PROVE ServerInv'
  <2>1. /\ Head(toPage[p]) \in Views /\ Tail(toPage[p]) \in Seq(Views)
      /\ Len(Tail(toPage[p])) <= Len(toPage[p]) /\ Len(toPage[p]) \in Nat
      /\ Len(Tail(toPage[p])) \in Nat
    BY <1>4, QueueTail DEF ServerInv, TypeOK, HandleSnapshot
  <2> QED
    BY <1>4, <2>1 DEF ServerInv, TypeOK, HandleSnapshot, serverVars
<1>5. ASSUME NEW p \in Page, ClosePage(p) PROVE ServerInv'
  <2>1. PICK k \in 0 .. Len(toServer[p]) :
          toServer' = [toServer EXCEPT ![p] = SubSeq(@, 1, k)]
    BY <1>5 DEF ClosePage
  <2>2. /\ SubSeq(toServer[p], 1, k) \in Seq(Messages) /\ Len(SubSeq(toServer[p], 1, k)) = k
        /\ <<>> \in Seq(Views) /\ Len(<<>>) = 0 /\ Len(toServer[p]) \in Nat
    BY QueuePrefix DEF ServerInv, TypeOK
  <2> QED
    BY <1>5, <2>1, <2>2 DEF ServerInv, TypeOK, ClosePage, serverVars
<1>6. ASSUME NEW p \in Page, PageNotices(p) PROVE ServerInv'
  BY <1>6 DEF ServerInv, TypeOK, PageNotices, serverVars
<1>7. ASSUME NEW p \in Page, ReadGreeting(p) PROVE ServerInv'
  BY <1>7, SnapshotType DEF ServerInv, TypeOK, ReadGreeting, pageVars
<1>8. ASSUME NEW p \in Page, SendGreeting(p) PROVE ServerInv'
  <2>1. /\ toPage[p] = <<>> /\ clone[p] \in Views
        /\ Append(toPage[p], clone[p]) \in Seq(Views) /\ Len(Append(toPage[p], clone[p])) = 1
        /\ <<>> \in Seq(Views) /\ Len(<<>>) = 0
    BY <1>8 DEF ServerInv, TypeOK, SendGreeting
  <2>2. /\ toPage' \in [Page -> Seq(Views)] /\ \A y \in Page : Len(toPage'[y]) <= WsCap
        /\ \A y \in Page : y # p => toPage'[y] = toPage[y]
    <3>1. toPage' = toPage \/ toPage' = [toPage EXCEPT ![p] = Append(toPage[p], clone[p])]
      BY <1>8 DEF SendGreeting, Write
    <3>2. /\ toPage \in [Page -> Seq(Views)] /\ 1 <= WsCap
          /\ \A y \in Page : Len(toPage[y]) <= WsCap
      BY DEF ServerInv, TypeOK
    <3> QED
      BY <2>1, <3>1, <3>2
  <2>3. rx' \in [Page -> Seq(Views)] /\ \A y \in Page : Len(rx'[y]) <= ViewCap + 1
    <3>1. rx' = rx \/ rx' = [rx EXCEPT ![p] = <<>>]
      BY <1>8 DEF SendGreeting
    <3>2. /\ rx \in [Page -> Seq(Views)] /\ 0 <= ViewCap + 1
          /\ \A y \in Page : Len(rx[y]) <= ViewCap + 1
      BY DEF ServerInv, TypeOK
    <3> QED
      BY <2>1, <3>1, <3>2
  <2>4. /\ clone' \in [Page \cup {Forwarder} -> Views]
        /\ socket' \in [Page -> {"new", "greeting", "greeted", "serving", "ended"}]
        /\ socket'[p] \in {"serving", "ended"} /\ page[p] # "new"
        /\ \A y \in Page : y # p => socket'[y] = socket[y]
    BY <1>8, NoViewType DEF ServerInv, TypeOK, SendGreeting
  <2> QED
    BY <1>8, <2>2, <2>3, <2>4 DEF ServerInv, TypeOK, SendGreeting, pageVars
<1>9. ASSUME NEW p \in Page, Receive(p) PROVE ServerInv'
  <2>1. /\ Head(toServer[p]) \in Messages /\ Tail(toServer[p]) \in Seq(Messages)
        /\ Len(Tail(toServer[p])) <= Len(toServer[p]) /\ Len(toServer[p]) \in Nat
        /\ Len(Tail(toServer[p])) \in Nat
    BY <1>9, QueueTail DEF ServerInv, TypeOK, Receive
  <2> QED
    BY <1>9, <2>1 DEF ServerInv, TypeOK, Receive, pageVars
<1>10. ASSUME NEW p \in Page, Apply(p) PROVE ServerInv'
  <2>1. todos' \in TodoStates /\ next_local_id' \in 0 .. MaxLocalId
    BY <1>0, <1>10, EffectType DEF TypeOK, Apply
  <2> QED
    BY <1>10, <2>1 DEF ServerInv, TypeOK, Apply, pageVars
<1>11. ASSUME NEW p \in Page, ForwardView(p) PROVE ServerInv'
  <2>1. /\ Head(rx[p]) \in Views /\ Tail(rx[p]) \in Seq(Views)
        /\ Len(Tail(rx[p])) <= Len(rx[p]) /\ Len(rx[p]) \in Nat /\ Len(Tail(rx[p])) \in Nat
    BY <1>11, QueueTail DEF ServerInv, TypeOK, ForwardView
  <2>2. /\ Append(toPage[p], Head(rx[p])) \in Seq(Views)
        /\ Len(Append(toPage[p], Head(rx[p]))) = Len(toPage[p]) + 1 /\ Len(toPage[p]) \in Nat
    BY <2>1, QueueAppend DEF ServerInv, TypeOK
  <2>3. /\ toPage' \in [Page -> Seq(Views)] /\ \A y \in Page : Len(toPage'[y]) <= WsCap
        /\ \A y \in Page : y # p => toPage'[y] = toPage[y]
    <3>1. /\ toPage' = toPage \/ toPage' = [toPage EXCEPT ![p] = Append(toPage[p], Head(rx[p]))]
          /\ Len(toPage[p]) < WsCap
      BY <1>11 DEF ForwardView, Write
    <3>2. /\ toPage \in [Page -> Seq(Views)]
          /\ \A y \in Page : Len(toPage[y]) <= WsCap
      BY DEF ServerInv, TypeOK
    <3>3. CASE toPage' = toPage
      BY <3>2, <3>3
    <3>4. CASE toPage' = [toPage EXCEPT ![p] = Append(toPage[p], Head(rx[p]))]
      BY <2>2, <3>1, <3>2, <3>4
    <3> QED
      BY <3>1, <3>3, <3>4
  <2>4. rx' \in [Page -> Seq(Views)] /\ \A y \in Page : Len(rx'[y]) <= ViewCap + 1
    <3>1. rx' = [rx EXCEPT ![p] = Tail(rx[p])]
      BY <1>11 DEF ForwardView
    <3>2. /\ rx \in [Page -> Seq(Views)]
          /\ \A y \in Page : Len(rx[y]) <= ViewCap + 1
      BY DEF ServerInv, TypeOK
    <3> QED
      BY <2>1, <3>1, <3>2
  <2> QED
    BY <1>11, <2>3, <2>4 DEF ServerInv, TypeOK, ForwardView, pageVars
<1>12. ASSUME NEW p \in Page, EndSocket(p) PROVE ServerInv'
  <2>1. <<>> \in Seq(Views) /\ <<>> \in Seq(Messages) /\ Len(<<>>) = 0
    OBVIOUS
  <2> QED
    BY <1>12, <2>1 DEF ServerInv, TypeOK, EndSocket, pageVars
<1>13. ASSUME NEW x \in Page \cup {Forwarder}, ReadView(x) PROVE ServerInv'
  BY <1>13, SnapshotType DEF ServerInv, TypeOK, ReadView, pageVars
<1>14. ASSUME NEW x \in Page \cup {Forwarder}, SendView(x) PROVE ServerInv'
  <2>1. clone[x] \in Views
    BY DEF ServerInv, TypeOK
  <2>2. ASSUME NEW p \in Page
        PROVE  /\ Enqueue(rx[p], clone[x]) \in Seq(Views)
               /\ Len(Enqueue(rx[p], clone[x])) <= ViewCap + 1
    <3>1. /\ rx[p] \in Seq(Views) /\ Len(rx[p]) <= ViewCap + 1 /\ Len(rx[p]) \in Nat
      BY DEF ServerInv, TypeOK
    <3>2. /\ Append(rx[p], clone[x]) \in Seq(Views)
          /\ Len(Append(rx[p], clone[x])) = Len(rx[p]) + 1
      BY <2>1, <3>1, QueueAppend
    <3> QED
      BY <3>1, <3>2 DEF Enqueue
  <2>3. /\ rx' \in [Page -> Seq(Views)] /\ \A p \in Page : Len(rx'[p]) <= ViewCap + 1
    BY <1>14, <2>2 DEF ServerInv, TypeOK, SendView
  <2> QED
    BY <1>14, <2>3, NoViewType DEF ServerInv, TypeOK, SendView, pageVars
<1>15. ASSUME NEW frame \in PeerFrames, MergeFrame(frame) PROVE ServerInv'
  <2>1. todos' \in TodoStates
    BY <1>0, <1>15, FrameType
  <2>2. merged' \in 0 .. MaxMerges /\ merges' \in 0 .. MaxMerges /\ merged' <= merges'
    BY <1>15 DEF ServerInv, TypeOK, MergeFrame
  <2>3. UNCHANGED <<next_local_id, socket, recv, cmd, clone, rx, updates, toServer,
                    toPage, pageVars>>
    BY <1>15 DEF MergeFrame
  <2> QED
    BY <2>1, <2>2, <2>3 DEF ServerInv, TypeOK, pageVars
<1>16. ASSUME SendUpdate PROVE ServerInv'
  <2>1. merged' \in 0 .. MaxMerges /\ merged' <= merges'
    BY <1>16 DEF ServerInv, TypeOK, SendUpdate
  <2>2. updates' \in 0 .. UpdateCap + 1
    BY <1>16 DEF ServerInv, TypeOK, SendUpdate
  <2>3. UNCHANGED <<todos, next_local_id, socket, recv, cmd, clone, rx, toServer,
                    toPage, pageVars, merges>>
    BY <1>16 DEF SendUpdate
  <2> QED
    BY <2>1, <2>2, <2>3 DEF ServerInv, TypeOK, pageVars
<1>17. ASSUME ForwardUpdate PROVE ServerInv'
  BY <1>17 DEF ServerInv, TypeOK, ForwardUpdate, pageVars
<1>18. ASSUME ForwarderEnds PROVE ServerInv'
  BY <1>18 DEF ServerInv, TypeOK, ForwarderEnds, pageVars
<1>19. CASE UNCHANGED vars
  BY <1>19 DEF ServerInv, TypeOK, vars, serverVars, pageVars
<1> QED
  BY <1>1, <1>2, <1>3, <1>4, <1>5, <1>6, <1>7, <1>8, <1>9, <1>10, <1>11, <1>12, <1>13, <1>14, <1>15, <1>16, <1>17, <1>18, <1>19
  DEF Next, User, PageStep, HandleSocket, RecvTask, Broadcast

(* Every variable of the browser side keeps its type, for any pages,       *)
(* capacities and frames of peers: no queue outgrows its channel.          *)
THEOREM ServerTyped == Spec => []TypeOK
<1>1. Init => ServerInv
  BY InvInit
<1>2. ServerInv /\ [Next]_vars => ServerInv'
  BY InvStep
<1>3. ServerInv => TypeOK
  BY DEF ServerInv
<1> QED
  BY <1>1, <1>2, <1>3, PTL DEF Spec
-----------------------------------------------------------------------------
(* The process's list only grows. *)
LEMMA GrowsStep ==
  ASSUME TypeOK, [Next]_vars
  PROVE  ListGrows
<1>1. Get(todos.clock, Replica) \in Nat
  BY OwnEntry DEF TypeOK
<1>2. CASE UNCHANGED todos
  BY <1>1, <1>2 DEF ListGrows
<1>3. ASSUME NEW p \in Page, Apply(p) PROVE ListGrows
  <2>1. cmd[p] \in Messages \cup {NoCmd}
    BY DEF TypeOK
  <2> QED
    BY <1>3, <2>1, EffectType DEF Apply
<1>4. ASSUME NEW frame \in PeerFrames, MergeFrame(frame) PROVE ListGrows
  BY <1>4, FrameType
<1>5. UNCHANGED todos \/ (\E p \in Page : Apply(p)) \/ \E frame \in PeerFrames : MergeFrame(frame)
  BY DEF Next, vars, serverVars, User, PageStep, HandleSocket, RecvTask, Broadcast, Open,
         SendLocalOperation, RequestResync, Post, ClosePage, HandleSnapshot, PageNotices,
         ReadGreeting, SendGreeting, EndSocket, Receive, ForwardView, ReadView, SendView,
         SendUpdate, ForwardUpdate, ForwarderEnds
<1> QED
  BY <1>2, <1>3, <1>4, <1>5

-----------------------------------------------------------------------------
(* A snapshot, or a message, that is under way beside the list of the next *)
(* state, and all of them.                                                 *)
ListedNext(view) ==
  /\ view.clock <= Get(todos'.clock, Replica)
  /\ \A todo \in view.todos : todo.id \in todos'.added

FindsNext(m) == m.type \in {"toggle", "delete"} => m.id \in todos'.added

ViewsNext(queue) == \A i \in 1 .. Len(queue) : ListedNext(queue[i])

MessagesNext(queue) == \A i \in 1 .. Len(queue) : FindsNext(queue[i])

StillFound ==
  /\ \A x \in Page \cup {Forwarder} : ListedNext(clone[x])
  /\ \A p \in Page : /\ ListedNext(shown[p]) /\ FindsNext(cmd[p])
                     /\ ViewsNext(rx[p]) /\ ViewsNext(toPage[p]) /\ MessagesNext(toServer[p])

AllFound ==
  /\ \A x \in Page \cup {Forwarder} : ListedNext(clone'[x])
  /\ \A p \in Page : /\ ListedNext(shown'[p]) /\ FindsNext(cmd'[p])
                     /\ ViewsNext(rx'[p]) /\ ViewsNext(toPage'[p]) /\ MessagesNext(toServer'[p])

LEMMA FoundNext == AllFound => ClicksFindItems'
  BY DEF AllFound, ClicksFindItems, Listed, Finds, ListedNext, FindsNext, ViewsNext, MessagesNext

(* What is under way already stays good, as the list only grows. *)
LEMMA ListedStays ==
  ASSUME ListGrows, NEW view \in Views, Listed(view)
  PROVE  ListedNext(view)
<1>1. view.clock \in Int
  BY CounterAssumption DEF Views
<1> QED
  BY <1>1 DEF Listed, ListedNext, ListGrows

LEMMA FoundStays == ASSUME TypeOK, ListGrows, ClicksFindItems PROVE StillFound
<1>1. ASSUME NEW x \in Page \cup {Forwarder} PROVE ListedNext(clone[x])
  BY ListedStays DEF TypeOK, ClicksFindItems
<1>2. ASSUME NEW p \in Page PROVE ListedNext(shown[p])
  BY ListedStays DEF TypeOK, ClicksFindItems
<1>3. ASSUME NEW p \in Page PROVE ViewsNext(rx[p])
  BY ListedStays DEF TypeOK, ClicksFindItems, ViewsNext
<1>4. ASSUME NEW p \in Page PROVE ViewsNext(toPage[p])
  BY ListedStays DEF TypeOK, ClicksFindItems, ViewsNext
<1>5. ASSUME NEW p \in Page PROVE FindsNext(cmd[p]) /\ MessagesNext(toServer[p])
  BY DEF ClicksFindItems, Finds, FindsNext, MessagesNext, ListGrows
<1> QED
  BY <1>1, <1>2, <1>3, <1>4, <1>5 DEF StillFound

(* The queues of snapshots and messages. *)
LEMMA ViewsMove ==
  ASSUME NEW q \in Seq(Views), ViewsNext(q)
  PROVE  /\ ViewsNext(<<>>)
         /\ q # <<>> => ListedNext(Head(q)) /\ ViewsNext(Tail(q))
         /\ \A view \in Views : ListedNext(view) => ViewsNext(Append(q, view))
<1>1. ViewsNext(<<>>)
  BY DEF ViewsNext
<1>2. q # <<>> => ListedNext(Head(q)) /\ ViewsNext(Tail(q))
  BY QueueTail DEF ViewsNext
<1>3. ASSUME NEW view \in Views, ListedNext(view) PROVE ViewsNext(Append(q, view))
  BY <1>3, QueueAppend DEF ViewsNext
<1> QED
  BY <1>1, <1>2, <1>3

LEMMA MessagesMove ==
  ASSUME NEW q \in Seq(Messages), MessagesNext(q)
  PROVE  /\ MessagesNext(<<>>)
         /\ q # <<>> => FindsNext(Head(q)) /\ MessagesNext(Tail(q))
         /\ \A m \in Messages : FindsNext(m) => MessagesNext(Append(q, m))
         /\ \A k \in 0 .. Len(q) : MessagesNext(SubSeq(q, 1, k))
<1>1. MessagesNext(<<>>)
  BY DEF MessagesNext
<1>2. q # <<>> => FindsNext(Head(q)) /\ MessagesNext(Tail(q))
  BY QueueTail DEF MessagesNext
<1>3. ASSUME NEW m \in Messages, FindsNext(m) PROVE MessagesNext(Append(q, m))
  BY <1>3, QueueAppend DEF MessagesNext
<1>4. ASSUME NEW k \in 0 .. Len(q) PROVE MessagesNext(SubSeq(q, 1, k))
  BY QueuePrefix DEF MessagesNext
<1> QED
  BY <1>1, <1>2, <1>3, <1>4

(* What a page sends names an item it shows. *)
LEMMA PostFound ==
  ASSUME TypeOK, StillFound, NEW p \in Page, NEW m \in Messages, FindsNext(m), Post(p, m)
  PROVE  AllFound
<1>1. toServer \in [Page -> Seq(Messages)]
  BY DEF TypeOK
<1>2. MessagesNext(Append(toServer[p], m))
  BY <1>1, MessagesMove DEF StillFound
<1> QED
  BY <1>1, <1>2 DEF StillFound, AllFound, Post, serverVars

(* Each step. *)
LEMMA FoundStep ==
  ASSUME TypeOK, ClicksFindItems, [Next]_vars
  PROVE  ClicksFindItems'
<1>1. ListGrows /\ StillFound
  BY GrowsStep, FoundStays
<1>2. /\ rx \in [Page -> Seq(Views)] /\ toPage \in [Page -> Seq(Views)]
      /\ toServer \in [Page -> Seq(Messages)]
      /\ clone \in [Page \cup {Forwarder} -> Views] /\ cmd \in [Page -> Messages \cup {NoCmd}]
      /\ shown \in [Page -> Views] /\ todos \in TodoStates
  BY DEF TypeOK
<1>3. ListedNext(NoView) /\ FindsNext(NoCmd)
  BY <1>1, NoViewType DEF ListedNext, FindsNext, NoCmd, ListGrows
<1>4. ListedNext(SnapshotOf(todos))
  BY <1>1, <1>2, SnapshotType DEF ListedNext, ListGrows
<1>5. /\ \A p \in Page : ViewsNext(rx[p]) /\ ViewsNext(toPage[p]) /\ MessagesNext(toServer[p])
      /\ \A x \in Page \cup {Forwarder} : ListedNext(clone[x])
      /\ \A p \in Page : ListedNext(shown[p]) /\ FindsNext(cmd[p])
  BY <1>1 DEF StillFound
<1>6. ViewsNext(<<>>) /\ MessagesNext(<<>>)
  BY DEF ViewsNext, MessagesNext
<1>7. ASSUME NEW p \in Page, Open(p) PROVE AllFound
  <2>1. \A y \in Page : ListedNext(shown'[y])
    <3>1. CASE UNCHANGED shown
      BY <1>5, <3>1
    <3>2. ASSUME NEW q \in Page, shown' = [shown EXCEPT ![p] = shown[q], ![q] = NoView]
          PROVE  \A y \in Page : shown'[y] \in {shown[y], shown[q], NoView}
      BY <1>2, <3>2
    <3> QED
      BY <1>3, <1>5, <1>7, <3>1, <3>2 DEF Open
  <2> QED
    BY <1>5, <1>7, <2>1 DEF AllFound, Open
<1>8. ASSUME NEW p \in Page, PageNotices(p) PROVE AllFound
  BY <1>5, <1>8 DEF AllFound, PageNotices, serverVars, pageVars
<1>9. ASSUME NEW p \in Page, SendLocalOperation(p) PROVE AllFound
  <2>1. PICK m : Post(p, m) /\ m \in Messages /\ FindsNext(m)
    <3>1. ASSUME NEW text \in Text
          PROVE  LET m == [type |-> "add", text |-> text] IN m \in Messages /\ FindsNext(m)
      BY DEF Messages, FindsNext
    <3>2. ASSUME NEW todo \in shown[p].todos, NEW type \in {"toggle", "delete"}
          PROVE  LET m == [type |-> type, id |-> todo.id] IN m \in Messages /\ FindsNext(m)
      <4>1. todo.id \in Id
        BY <1>2 DEF Views
      <4>2. todo.id \in todos'.added
        BY <1>5 DEF ListedNext
      <4> QED
        BY <4>1, <4>2 DEF Messages, FindsNext
    <3> QED
      BY <1>9, <3>1, <3>2 DEF SendLocalOperation
  <2> QED
    BY <1>1, <2>1, PostFound
<1>10. ASSUME NEW p \in Page, RequestResync(p) PROVE AllFound
  <2>1. [type |-> "resync"] \in Messages /\ FindsNext([type |-> "resync"])
    BY DEF Messages, FindsNext
  <2> QED
    BY <1>1, <1>10, <2>1, PostFound DEF RequestResync
<1>11. ASSUME NEW p \in Page, HandleSnapshot(p) PROVE AllFound
  <2>1. ListedNext(Head(toPage[p])) /\ ViewsNext(Tail(toPage[p]))
    BY <1>2, <1>5, <1>11, ViewsMove DEF HandleSnapshot
  <2> QED
    BY <1>2, <1>5, <1>11, <2>1 DEF AllFound, HandleSnapshot, serverVars
<1>12. ASSUME NEW p \in Page, ClosePage(p) PROVE AllFound
  <2>1. PICK k \in 0 .. Len(toServer[p]) :
          toServer' = [toServer EXCEPT ![p] = SubSeq(toServer[p], 1, k)]
    BY <1>12 DEF ClosePage
  <2>2. MessagesNext(SubSeq(toServer[p], 1, k))
    BY <1>2, <1>5, MessagesMove
  <2> QED
    BY <1>2, <1>5, <1>6, <1>12, <2>1, <2>2 DEF AllFound, ClosePage, serverVars
<1>13. ASSUME NEW p \in Page, ReadGreeting(p) PROVE AllFound
  BY <1>2, <1>4, <1>5, <1>13 DEF AllFound, ReadGreeting, pageVars
<1>14. ASSUME NEW p \in Page, SendGreeting(p) PROVE AllFound
  <2>1. ViewsNext(Append(toPage[p], clone[p]))
    BY <1>2, <1>5, ViewsMove
  <2>2. \A y \in Page : ViewsNext(toPage'[y])
    BY <1>2, <1>5, <1>14, <2>1 DEF SendGreeting, Write
  <2>3. \A y \in Page : ViewsNext(rx'[y])
    BY <1>2, <1>5, <1>6, <1>14 DEF SendGreeting
  <2> QED
    BY <1>2, <1>3, <1>5, <1>14, <2>2, <2>3 DEF AllFound, SendGreeting, pageVars
<1>15. ASSUME NEW p \in Page, Receive(p) PROVE AllFound
  <2>1. FindsNext(Head(toServer[p])) /\ MessagesNext(Tail(toServer[p]))
    BY <1>2, <1>5, <1>15, MessagesMove DEF Receive
  <2> QED
    BY <1>2, <1>5, <1>15, <2>1 DEF AllFound, Receive, pageVars
<1>16. ASSUME NEW p \in Page, Apply(p) PROVE AllFound
  BY <1>2, <1>3, <1>5, <1>16 DEF AllFound, Apply, pageVars
<1>17. ASSUME NEW p \in Page, ForwardView(p) PROVE AllFound
  <2>1. ListedNext(Head(rx[p])) /\ ViewsNext(Tail(rx[p])) /\ Head(rx[p]) \in Views
    BY <1>2, <1>5, <1>17, ViewsMove, QueueTail DEF ForwardView
  <2>2. ViewsNext(Append(toPage[p], Head(rx[p])))
    BY <1>2, <1>5, <2>1, ViewsMove
  <2>3. \A y \in Page : ViewsNext(toPage'[y])
    BY <1>2, <1>5, <1>17, <2>2 DEF ForwardView, Write
  <2> QED
    BY <1>2, <1>5, <1>17, <2>1, <2>3 DEF AllFound, ForwardView, pageVars
<1>18. ASSUME NEW p \in Page, EndSocket(p) PROVE AllFound
  BY <1>2, <1>3, <1>5, <1>6, <1>18 DEF AllFound, EndSocket, pageVars
<1>19. ASSUME NEW x \in Page \cup {Forwarder}, ReadView(x) PROVE AllFound
  BY <1>2, <1>4, <1>5, <1>19 DEF AllFound, ReadView, pageVars
<1>20. ASSUME NEW x \in Page \cup {Forwarder}, SendView(x) PROVE AllFound
  <2>1. ASSUME NEW p \in Page PROVE ViewsNext(Enqueue(rx[p], clone[x]))
    BY <1>2, <1>5, ViewsMove DEF Enqueue
  <2>2. \A p \in Page : ViewsNext(rx'[p])
    BY <1>5, <1>20, <2>1 DEF SendView
  <2> QED
    BY <1>2, <1>3, <1>5, <1>20, <2>2 DEF AllFound, SendView, pageVars
<1>21. ASSUME NEW frame \in PeerFrames, MergeFrame(frame) PROVE AllFound
  BY <1>5, <1>21 DEF AllFound, MergeFrame, pageVars
<1>22. ASSUME SendUpdate PROVE AllFound
  BY <1>5, <1>22 DEF AllFound, SendUpdate, pageVars
<1>23. ASSUME ForwardUpdate PROVE AllFound
  BY <1>5, <1>23 DEF AllFound, ForwardUpdate, pageVars
<1>24. ASSUME ForwarderEnds PROVE AllFound
  BY <1>5, <1>24 DEF AllFound, ForwarderEnds, pageVars
<1>25. ASSUME UNCHANGED vars PROVE AllFound
  BY <1>5, <1>25 DEF AllFound, vars, serverVars, pageVars
<1>26. AllFound
  BY <1>7, <1>8, <1>9, <1>10, <1>11, <1>12, <1>13, <1>14, <1>15, <1>16, <1>17, <1>18, <1>19, <1>20, <1>21, <1>22, <1>23, <1>24, <1>25
  DEF Next, User, PageStep, HandleSocket, RecvTask, Broadcast
<1> QED
  BY <1>26, FoundNext

(* A toggle or a delete that a page sends always names an item of the      *)
(* process, whatever page, however late and behind whatever other          *)
(* operations, merges, lags and closed connections; no page is shown an    *)
(* item or a clock the process does not have.                              *)
THEOREM ClicksFound == Spec => []ClicksFindItems
<1>1. Init => ServerInv /\ ClicksFindItems
  <2> SUFFICES ASSUME Init PROVE ServerInv /\ ClicksFindItems
    OBVIOUS
  <2>1. Listed(NoView) /\ Finds(NoCmd)
    BY NoViewType, NewStateType, OwnEntry DEF Init, Listed, Finds, NoCmd
  <2>2. ClicksFindItems
    BY <2>1 DEF Init, ClicksFindItems
  <2> QED
    BY <2>2, InvInit
<1>2. ServerInv /\ ClicksFindItems /\ [Next]_vars => ServerInv' /\ ClicksFindItems'
  BY InvStep, FoundStep DEF ServerInv
<1> QED
  BY <1>1, <1>2, PTL DEF Spec

-----------------------------------------------------------------------------
(* Who has nothing to do with broadcasts: a page before it is greeted, a   *)
(* page that has sent nothing, and, before the first merge, the forwarder. *)
QuietInv ==
  /\ \A p \in Page :
       /\ socket[p] = "new" => page[p] = "new" /\ rx[p] = <<>>
       /\ socket[p] \in {"new", "greeting", "greeted"} => recv[p] = "waiting"
       /\ sends[p] = 0 => toServer[p] = <<>> /\ recv[p] = "waiting"
  /\ merges = 0 => merged = 0 /\ updates = 0 /\ recv[Forwarder] = "waiting"

LEMMA QuietStep == ASSUME ServerInv, QuietInv, [Next]_vars PROVE QuietInv'
<1> USE ServerAssumption
<1>0. /\ socket \in [Page -> {"new", "greeting", "greeted", "serving", "ended"}]
      /\ recv \in [Page \cup {Forwarder} -> {"waiting", "writing", "reading", "sending", "ended"}]
      /\ page \in [Page -> {"new", "open", "closed"}]
      /\ rx \in [Page -> Seq(Views)] /\ toServer \in [Page -> Seq(Messages)]
      /\ sends \in [Page -> Nat] /\ merges \in Nat /\ updates \in Nat
  BY DEF ServerInv, TypeOK
<1>1. ASSUME NEW p \in Page, Open(p) PROVE QuietInv'
  <2>1. socket[p] = "new"
    BY <1>1 DEF ServerInv, Open
  <2> QED
    BY <1>0, <1>1, <2>1 DEF QuietInv, Open
<1>2. ASSUME NEW p \in Page, NEW m, Post(p, m) PROVE QuietInv'
  <2>1. sends' = [sends EXCEPT ![p] = @ + 1] /\ toServer' = [toServer EXCEPT ![p] = Append(@, m)]
    BY <1>2 DEF Post
  <2>2. UNCHANGED <<socket, page, rx, recv, merged, updates, merges>>
    BY <1>2 DEF Post, serverVars
  <2>3. \A y \in Page : sends'[y] = 0 => y # p /\ sends[y] = 0 /\ toServer'[y] = toServer[y]
    BY <1>0, <2>1
  <2> QED
    BY <2>2, <2>3 DEF QuietInv
<1>3. ASSUME NEW p \in Page, HandleSnapshot(p) \/ PageNotices(p) \/ ReadGreeting(p) PROVE QuietInv'
  BY <1>0, <1>3 DEF QuietInv, HandleSnapshot, PageNotices, ReadGreeting, serverVars, pageVars
<1>4. ASSUME NEW p \in Page, ClosePage(p) PROVE QuietInv'
  <2>1. PICK k \in 0 .. Len(toServer[p]) :
          toServer' = [toServer EXCEPT ![p] = SubSeq(toServer[p], 1, k)]
    BY <1>4 DEF ClosePage
  <2>2. toServer[p] = <<>> => SubSeq(toServer[p], 1, k) = <<>>
    BY <1>0, QueuePrefix
  <2>3. UNCHANGED <<socket, rx, recv, merged, updates, merges, sends>> /\ page[p] = "open"
        /\ page' = [page EXCEPT ![p] = "closed"]
    BY <1>4 DEF ClosePage, serverVars
  <2> QED
    BY <1>0, <2>1, <2>2, <2>3 DEF QuietInv
<1>5. ASSUME NEW p \in Page, SendGreeting(p) PROVE QuietInv'
  <2>1. /\ socket'[p] \in {"serving", "ended"} /\ \A y \in Page : y # p => socket'[y] = socket[y]
        /\ \A y \in Page : y # p => rx'[y] = rx[y]
        /\ UNCHANGED <<recv, merged, updates, merges, toServer, page, sends>>
    BY <1>0, <1>5 DEF SendGreeting, pageVars
  <2> QED
    BY <2>1 DEF QuietInv
<1>6. ASSUME NEW p \in Page, Receive(p) PROVE QuietInv'
  BY <1>0, <1>6 DEF QuietInv, Receive, pageVars
<1>7. ASSUME NEW p \in Page, Apply(p) PROVE QuietInv'
  <2>1. /\ recv[p] = "writing" /\ recv' = [recv EXCEPT ![p] = "reading"]
        /\ UNCHANGED <<socket, rx, updates, merged, toServer, page, sends, merges>>
    BY <1>7 DEF Apply, pageVars
  <2> QED
    BY <1>0, <2>1 DEF QuietInv
<1>8. ASSUME NEW p \in Page, ForwardView(p) PROVE QuietInv'
  BY <1>0, <1>8 DEF QuietInv, ForwardView, pageVars
<1>9. ASSUME NEW p \in Page, EndSocket(p) PROVE QuietInv'
  BY <1>0, <1>9 DEF QuietInv, EndSocket, pageVars
<1>10. ASSUME NEW x \in Page \cup {Forwarder}, ReadView(x) PROVE QuietInv'
  BY <1>0, <1>10 DEF QuietInv, ReadView, pageVars
<1>11. ASSUME NEW x \in Page \cup {Forwarder}, SendView(x) PROVE QuietInv'
  <2>1. /\ recv' = [recv EXCEPT ![x] = "waiting"]
        /\ UNCHANGED <<socket, updates, merged, toServer, page, sends, merges>>
        /\ \A p \in Page : socket[p] = "new" => rx'[p] = rx[p]
    BY <1>11 DEF SendView, Subscribed, pageVars
  <2> QED
    BY <1>0, <2>1 DEF QuietInv
<1>12. ASSUME NEW frame \in PeerFrames, MergeFrame(frame) PROVE QuietInv'
  <2>1. merges' = merges + 1 /\ UNCHANGED <<socket, recv, rx, toServer, page, sends>>
    BY <1>12 DEF MergeFrame, pageVars
  <2> QED
    BY <1>0, <2>1 DEF QuietInv
<1>13. ASSUME SendUpdate PROVE QuietInv'
  <2>1. merges # 0 /\ UNCHANGED <<socket, recv, rx, toServer, page, sends, merges>>
    BY <1>13 DEF SendUpdate, QuietInv, pageVars
  <2> QED
    BY <2>1 DEF QuietInv
<1>14. ASSUME ForwardUpdate \/ ForwarderEnds PROVE QuietInv'
  <2>1. /\ merges # 0 /\ \A p \in Page : recv'[p] = recv[p]
        /\ UNCHANGED <<socket, rx, toServer, page, sends, merges>>
    BY <1>0, <1>14 DEF ForwardUpdate, ForwarderEnds, QuietInv, pageVars
  <2> QED
    BY <2>1 DEF QuietInv
<1>15. CASE UNCHANGED vars
  BY <1>15 DEF QuietInv, vars, serverVars, pageVars
<1> QED
  BY <1>1, <1>2, <1>3, <1>4, <1>5, <1>6, <1>7, <1>8, <1>9, <1>10, <1>11, <1>12, <1>13, <1>14, <1>15
  DEF Next, User, PageStep, HandleSocket, RecvTask, Broadcast, SendLocalOperation, RequestResync
-----------------------------------------------------------------------------
(* Under one broadcaster every page has the newest list or is about to     *)
(* hear of it, and a snapshot the broadcaster holds is the newest or it    *)
(* has a later merge to hear of.                                           *)
NewsInv(x) ==
  /\ recv[x] = "sending" => clone[x] = SnapshotOf(todos) \/ HeardOf(x)
  /\ \A p \in Page : page[p] = "open" => HasNewest(p) \/ Announces(x)

(* Nobody else broadcasts, and only merges wake the forwarder. *)
LEMMA OnlyOne ==
  ASSUME ServerInv, QuietInv, NEW x \in Page \cup {Forwarder}, OnlyBroadcaster(x)
  PROVE  /\ \A y \in Page \cup {Forwarder} : y # x => recv[y] = "waiting"
         /\ \A p \in Page : p # x => toServer[p] = <<>>
         /\ merges > 0 \/ merged > 0 \/ updates > 0 => x = Forwarder
<1>1. ASSUME NEW p \in Page, p # x PROVE toServer[p] = <<>> /\ recv[p] = "waiting"
  <2>1. MaxSends[p] = 0 /\ sends[p] \in Nat /\ sends[p] <= MaxSends[p]
    BY <1>1, ServerAssumption DEF OnlyBroadcaster, ServerInv, TypeOK
  <2> QED
    BY <2>1 DEF QuietInv
<1>2. merges > 0 => x = Forwarder
  <2>1. merges \in 0 .. MaxMerges /\ MaxMerges \in Nat
    BY ServerAssumption DEF ServerInv, TypeOK
  <2> QED
    BY <2>1 DEF OnlyBroadcaster
<1>3. merges \in Nat
  BY ServerAssumption DEF ServerInv, TypeOK
<1>4. merged > 0 \/ updates > 0 => merges > 0
  <2>1. merges = 0 => merged = 0 /\ updates = 0
    BY DEF QuietInv
  <2>2. (updates = 0 => ~ (updates > 0)) /\ (merged = 0 => ~ (merged > 0))
    OBVIOUS
  <2>3. merges > 0 \/ merges = 0
    BY <1>3
  <2> QED
    BY <2>1, <2>2, <2>3, Zenon
<1>5. x # Forwarder => recv[Forwarder] = "waiting"
  <2>1. merges = 0 \/ merges > 0
    BY <1>3
  <2> QED
    BY <1>2, <2>1 DEF QuietInv
<1> QED
  BY <1>1, <1>2, <1>4, <1>5

(* Steps that leave the list and the broadcaster alone. *)
LEMMA NewsKept ==
  ASSUME NEW x \in Page \cup {Forwarder}, NewsInv(x), UNCHANGED <<todos, merged, updates>>,
         recv'[x] = recv[x], recv[x] = "sending" => clone'[x] = clone[x],
         \A p \in Page : page'[p] = "open" => HasNewest(p)' \/ (page[p] = "open" /\ ~ HasNewest(p))
  PROVE  NewsInv(x)'
<1>1. SnapshotOf(todos)' = SnapshotOf(todos)
  BY DEF SnapshotOf
<1>2. HeardOf(x) <=> HeardOf(x)'
  BY DEF HeardOf
<1>3. Announces(x) => Announces(x)'
  BY <1>1, <1>2 DEF Announces
<1> QED
  BY <1>1, <1>2, <1>3 DEF NewsInv

LEMMA NewestKept ==
  ASSUME NEW p \in Page, HasNewest(p), UNCHANGED todos,
         socket'[p] = socket[p], rx'[p] = rx[p], toPage'[p] = toPage[p], shown'[p] = shown[p],
         socket[p] = "greeted" => clone'[p] = clone[p]
  PROVE  HasNewest(p)'
<1>1. SnapshotOf(todos)' = SnapshotOf(todos)
  BY DEF SnapshotOf
<1>2. Latest(p)' = Latest(p)
  BY DEF Latest
<1> QED
  BY <1>1, <1>2 DEF HasNewest

(* The last message of a queue stays the last, as the first is taken, ... *)
LEMMA LastOfTail ==
  ASSUME NEW S, NEW q \in Seq(S), q # <<>>
  PROVE  /\ Tail(q) # <<>> => Tail(q)[Len(Tail(q))] = q[Len(q)]
         /\ Tail(q) = <<>> => Head(q) = q[Len(q)]
<1>1. Len(q) \in Nat /\ Len(q) # 0
  BY EmptySeq
<1>2. /\ Len(Tail(q)) = Len(q) - 1 /\ Tail(q) \in Seq(S)
      /\ \A i \in 1 .. Len(Tail(q)) : Tail(q)[i] = q[i + 1]
  BY HeadTailProperties
<1>3. ASSUME Tail(q) # <<>> PROVE Tail(q)[Len(Tail(q))] = q[Len(q)]
  <2>1. Len(Tail(q)) # 0
    BY <1>2, <1>3, EmptySeq
  <2>2. Len(q) - 1 \in 1 .. Len(Tail(q)) /\ Len(q) - 1 + 1 = Len(q)
    BY <1>1, <1>2, <2>1
  <2>3. Tail(q)[Len(q) - 1] = q[Len(q) - 1 + 1]
    BY <1>2, <2>2
  <2> QED
    BY <1>2, <2>2, <2>3
<1>4. ASSUME Tail(q) = <<>> PROVE Head(q) = q[Len(q)]
  <2>1. Len(Tail(q)) = 0
    BY <1>2, <1>4, EmptySeq
  <2>2. PICK k, n : k = Len(q) /\ n = Len(Tail(q)) /\ k \in Nat
    BY <1>1
  <2>3. n = k - 1 /\ n = 0
    BY <1>2, <2>1, <2>2
  <2>4. k = 1
    BY <2>2, <2>3
  <2>5. Len(q) = 1
    BY <2>2, <2>4
  <2> QED
    BY <2>5
<1> QED
  BY <1>3, <1>4

(* ... and the one appended is. *)
LEMMA LastAppended ==
  ASSUME NEW S, NEW q \in Seq(S), NEW v
  PROVE  Append(q, v) # <<>> /\ Append(q, v)[Len(Append(q, v))] = v
<1>1. Len(q) \in Nat /\ Len(Append(q, v)) = Len(q) + 1
  OBVIOUS
<1>2. Append(q, v)[Len(q) + 1] = v
  BY <1>1
<1>3. Append(q, v) # <<>>
  BY <1>1
<1> QED
  BY <1>1, <1>2, <1>3

(* The snapshots move: off the page's queue, off the receiver's, ... *)
LEMMA NewestShown ==
  ASSUME ServerInv, NEW p \in Page, HasNewest(p), HandleSnapshot(p)
  PROVE  HasNewest(p)'
<1>1. /\ UNCHANGED <<todos, socket, rx, clone>> /\ toPage[p] # <<>>
      /\ shown'[p] = Head(toPage[p]) /\ toPage'[p] = Tail(toPage[p])
  BY DEF HandleSnapshot, serverVars, ServerInv, TypeOK
<1>2. SnapshotOf(todos)' = SnapshotOf(todos)
  BY <1>1 DEF SnapshotOf
<1>3. toPage[p] \in Seq(Views) /\ socket[p] # "greeted"
  BY <1>1 DEF ServerInv, TypeOK
<1>4. IF Tail(toPage[p]) # <<>>
      THEN Tail(toPage[p])[Len(Tail(toPage[p]))] = toPage[p][Len(toPage[p])]
      ELSE Head(toPage[p]) = toPage[p][Len(toPage[p])]
  BY <1>1, <1>3, LastOfTail
<1>5. Latest(p)' = Latest(p)
  BY <1>1, <1>3, <1>4 DEF Latest
<1> QED
  BY <1>1, <1>2, <1>5 DEF HasNewest

LEMMA NewestForwarded ==
  ASSUME ServerInv, NEW p \in Page, HasNewest(p), ForwardView(p), page[p] = "open"
  PROVE  HasNewest(p)'
<1>1. /\ UNCHANGED <<todos, socket, shown>> /\ socket[p] = "serving"
      /\ rx[p] # <<>> /\ Len(rx[p]) <= ViewCap
      /\ toPage'[p] = Append(toPage[p], Head(rx[p])) /\ rx'[p] = Tail(rx[p])
  BY DEF ForwardView, Write, pageVars, ServerInv, TypeOK
<1>2. SnapshotOf(todos)' = SnapshotOf(todos)
  BY <1>1 DEF SnapshotOf
<1>3. toPage[p] \in Seq(Views) /\ rx[p] \in Seq(Views) /\ ViewCap \in Nat
  BY ServerAssumption DEF ServerInv, TypeOK
<1>4. Latest(p) = rx[p][Len(rx[p])]
  BY <1>1 DEF Latest
<1>5. Latest(p)' = rx[p][Len(rx[p])]
  <2>1. CASE Tail(rx[p]) # <<>>
    <3>1. Tail(rx[p])[Len(Tail(rx[p]))] = rx[p][Len(rx[p])]
      BY <1>1, <1>3, <2>1, LastOfTail
    <3> QED
      BY <1>1, <2>1, <3>1 DEF Latest
  <2>2. CASE Tail(rx[p]) = <<>>
    <3>1. Head(rx[p]) = rx[p][Len(rx[p])]
      BY <1>1, <1>3, <2>2, LastOfTail
    <3>2. /\ toPage'[p] # <<>>
          /\ toPage'[p][Len(toPage'[p])] = Head(rx[p])
      BY <1>1, <1>3
    <3> QED
      BY <1>1, <2>2, <3>1, <3>2 DEF Latest
  <2> QED
    BY <2>1, <2>2
<1>6. ~ (Len(rx[p]) > ViewCap)
  BY <1>1, <1>3
<1>7. Latest(p) = SnapshotOf(todos)
  BY <1>1, <1>6 DEF HasNewest
<1> QED
  BY <1>2, <1>4, <1>5, <1>7 DEF HasNewest

(* ... and into the page's queue with the greeting. *)
LEMMA NewestGreeted ==
  ASSUME ServerInv, NEW p \in Page, HasNewest(p), SendGreeting(p), page[p] = "open"
  PROVE  HasNewest(p)'
<1>1. /\ UNCHANGED <<todos, shown, rx>> /\ socket[p] = "greeted" /\ toPage[p] = <<>>
      /\ socket'[p] = "serving" /\ toPage'[p] = Append(toPage[p], clone[p])
  BY DEF SendGreeting, Write, pageVars, ServerInv, TypeOK
<1>2. SnapshotOf(todos)' = SnapshotOf(todos)
  BY <1>1 DEF SnapshotOf
<1>3. toPage'[p] # <<>> /\ toPage'[p][Len(toPage'[p])] = clone[p]
  BY <1>1
<1>4. Latest(p)' = Latest(p)
  BY <1>1, <1>3 DEF Latest
<1> QED
  BY <1>1, <1>2, <1>4 DEF HasNewest

LEMMA NewestRead ==
  ASSUME ServerInv, NEW p \in Page, HasNewest(p), ReadGreeting(p)
  PROVE  HasNewest(p)'
<1>1. /\ UNCHANGED <<todos, shown, rx, toPage>> /\ socket[p] = "greeting"
      /\ socket'[p] = "greeted" /\ clone'[p] = SnapshotOf(todos)
  BY DEF ReadGreeting, pageVars, ServerInv, TypeOK
<1>2. SnapshotOf(todos)' = SnapshotOf(todos)
  BY <1>1 DEF SnapshotOf
<1>3. CASE rx[p] = <<>>
  BY <1>1, <1>2, <1>3 DEF HasNewest, Latest
<1>4. CASE rx[p] # <<>>
  BY <1>1, <1>2, <1>4 DEF HasNewest, Latest
<1> QED
  BY <1>3, <1>4

(* A broadcast of the newest list reaches every page that is connected. *)
LEMMA NewestSent ==
  ASSUME ServerInv, QuietInv, NEW x \in Page \cup {Forwarder}, SendView(x),
         clone[x] = SnapshotOf(todos), NEW p \in Page, page[p] = "open"
  PROVE  HasNewest(p)'
<1>1. /\ UNCHANGED <<todos, socket>>
      /\ rx'[p] = IF Subscribed(p) THEN Enqueue(rx[p], clone[x]) ELSE rx[p]
  BY DEF SendView, pageVars
<1>2. SnapshotOf(todos)' = SnapshotOf(todos)
  BY <1>1 DEF SnapshotOf
<1>3. CASE ~ Subscribed(p)
  <2>1. socket[p] = "ended"
    BY <1>3 DEF Subscribed, QuietInv, ServerInv, TypeOK
  <2> QED
    BY <1>1, <2>1 DEF HasNewest
<1>4. CASE Subscribed(p) /\ Len(rx[p]) > ViewCap
  BY <1>1, <1>4 DEF HasNewest, Enqueue
<1>5. CASE Subscribed(p) /\ ~ (Len(rx[p]) > ViewCap)
  <2>1. rx[p] \in Seq(Views) /\ rx'[p] = Append(rx[p], SnapshotOf(todos))
    BY <1>1, <1>5 DEF Enqueue, ServerInv, TypeOK
  <2>2. rx'[p] # <<>> /\ rx'[p][Len(rx'[p])] = SnapshotOf(todos)
    <3>1. PICK q, v : q \in Seq(Views) /\ q = rx[p] /\ v = SnapshotOf(todos)
      BY <2>1
    <3>2. rx'[p] = Append(q, v)
      BY <2>1, <3>1
    <3> QED
      BY <3>1, <3>2, LastAppended
  <2> QED
    BY <1>2, <2>2 DEF HasNewest, Latest
<1> QED
  BY <1>3, <1>4, <1>5

(* A connection that has ended stays so, and what was sent stays sent. *)
LEMMA StaysStep == ASSUME ServerInv, [Next]_vars, EditorsStay' PROVE EditorsStay
<1>1. ASSUME NEW p \in Page
      PROVE  (socket[p] = "ended" => socket'[p] = "ended") /\ (sends[p] > 0 => sends'[p] > 0)
  <2>1. /\ socket \in [Page -> {"new", "greeting", "greeted", "serving", "ended"}]
        /\ sends \in [Page -> Nat] /\ (page[p] = "new" => socket[p] = "new")
    BY <1>1 DEF ServerInv, TypeOK
  <2>2. sends' = sends \/ \E q \in Page : sends' = [sends EXCEPT ![q] = @ + 1]
    BY DEF Next, User, PageStep, HandleSocket, RecvTask, Broadcast, SendLocalOperation,
           RequestResync, Open, Post, HandleSnapshot, ClosePage, PageNotices, ReadGreeting,
           SendGreeting, EndSocket, Receive, Apply, ForwardView, ReadView, SendView, MergeFrame,
           SendUpdate, ForwardUpdate, ForwarderEnds, vars, pageVars
  <2>3. socket' = socket \/ \E q \in Page : \/ Open(q) \/ ReadGreeting(q) \/ SendGreeting(q)
                                            \/ EndSocket(q)
    BY DEF Next, User, PageStep, HandleSocket, RecvTask, Broadcast, SendLocalOperation,
           RequestResync, Post, HandleSnapshot, ClosePage, PageNotices,
           Receive, Apply, ForwardView, ReadView, SendView, MergeFrame,
           SendUpdate, ForwardUpdate, ForwarderEnds, vars, serverVars
  <2>4. sends[p] > 0 => sends'[p] > 0
    BY <2>1, <2>2
  <2>5. ASSUME NEW q \in Page, Open(q) \/ ReadGreeting(q) \/ SendGreeting(q) \/ EndSocket(q),
               socket[p] = "ended"
        PROVE  socket'[p] = "ended"
    <3>1. q # p \/ socket'[p] = "ended"
      <4>1. page[q] = "new" => socket[q] = "new"
        BY DEF ServerInv
      <4> QED
        BY <2>1, <2>5, <4>1 DEF Open, ReadGreeting, SendGreeting, EndSocket
    <3> QED
      BY <2>1, <2>5, <3>1 DEF Open, ReadGreeting, SendGreeting, EndSocket
  <2> QED
    BY <2>3, <2>4, <2>5
<1> QED
  BY <1>1 DEF EditorsStay

(* Each step. *)
LEMMA NewsStep ==
  ASSUME ServerInv, QuietInv, NEW x \in Page \cup {Forwarder}, OnlyBroadcaster(x),
         NewsInv(x), [Next]_vars, EditorsStay'
  PROVE  NewsInv(x)'
<1> USE ServerAssumption
<1>1. /\ \A y \in Page \cup {Forwarder} : y # x => recv[y] = "waiting"
      /\ \A p \in Page : p # x => toServer[p] = <<>>
      /\ merges > 0 \/ merged > 0 \/ updates > 0 => x = Forwarder
  BY OnlyOne
<1>2. /\ socket \in [Page -> {"new", "greeting", "greeted", "serving", "ended"}]
      /\ recv \in [Page \cup {Forwarder} -> {"waiting", "writing", "reading", "sending", "ended"}]
      /\ page \in [Page -> {"new", "open", "closed"}] /\ shown \in [Page -> Views]
      /\ rx \in [Page -> Seq(Views)] /\ toPage \in [Page -> Seq(Views)]
      /\ clone \in [Page \cup {Forwarder} -> Views]
  BY DEF ServerInv, TypeOK
<1>3. ASSUME NEW q \in Page, Open(q) PROVE NewsInv(x)'
  <2>1. ASSUME NEW p \in Page, page'[p] = "open"
        PROVE  HasNewest(p)' \/ (page[p] = "open" /\ ~ HasNewest(p))
    <3>1. CASE p = q
      <4>1. socket'[p] = "greeting" /\ rx'[p] = <<>>
        BY <1>2, <1>3, <3>1 DEF Open, QuietInv, ServerInv
      <4> QED
        BY <4>1 DEF HasNewest
    <3>2. CASE p # q
      <4>1. page[p] = "open" /\ shown'[p] = shown[p]
        BY <1>2, <1>3, <2>1, <3>2 DEF Open
      <4>2. HasNewest(p) => HasNewest(p)'
        BY <1>2, <1>3, <3>2, <4>1, NewestKept DEF Open
      <4> QED
        BY <4>1, <4>2
    <3> QED
      BY <3>1, <3>2
  <2> QED
    BY <1>3, <2>1, NewsKept DEF Open
<1>4. ASSUME NEW q \in Page, NEW m, Post(q, m) PROVE NewsInv(x)'
  BY <1>4, NewsKept, NewestKept DEF Post, serverVars
<1>5. ASSUME NEW q \in Page, HandleSnapshot(q) PROVE NewsInv(x)'
  <2>1. ASSUME NEW p \in Page, page'[p] = "open", HasNewest(p) PROVE HasNewest(p)'
    <3>1. CASE p = q
      BY <1>5, <2>1, <3>1, NewestShown
    <3>2. CASE p # q
      BY <1>2, <1>5, <2>1, <3>2, NewestKept DEF HandleSnapshot, serverVars
    <3> QED
      BY <3>1, <3>2
  <2> QED
    BY <1>5, <2>1, NewsKept DEF HandleSnapshot, serverVars
<1>6. ASSUME NEW q \in Page, ClosePage(q) \/ PageNotices(q) PROVE NewsInv(x)'
  <2>1. ASSUME NEW p \in Page, page'[p] = "open"
        PROVE  page[p] = "open" /\ (HasNewest(p) => HasNewest(p)')
    <3>1. p # q
      BY <1>2, <1>6, <2>1 DEF ClosePage, PageNotices
    <3>2. page'[p] = page[p] /\ toPage'[p] = toPage[p] /\ UNCHANGED <<serverVars, shown>>
      BY <1>2, <1>6, <3>1 DEF ClosePage, PageNotices
    <3> QED
      BY <2>1, <3>2, NewestKept DEF serverVars
  <2> QED
    BY <1>6, <2>1, NewsKept DEF ClosePage, PageNotices, serverVars
<1>7. ASSUME NEW q \in Page, ReadGreeting(q) PROVE NewsInv(x)'
  <2>1. ASSUME NEW p \in Page, page'[p] = "open", HasNewest(p) PROVE HasNewest(p)'
    <3>1. CASE p = q
      BY <1>7, <2>1, <3>1, NewestRead
    <3>2. CASE p # q
      BY <1>2, <1>7, <2>1, <3>2, NewestKept DEF ReadGreeting, pageVars
    <3> QED
      BY <3>1, <3>2
  <2>2. recv[x] = "sending" => clone'[x] = clone[x]
    BY <1>2, <1>7 DEF ReadGreeting, QuietInv
  <2> QED
    BY <1>7, <2>1, <2>2, NewsKept DEF ReadGreeting, pageVars
<1>8. ASSUME NEW q \in Page, SendGreeting(q) PROVE NewsInv(x)'
  <2>1. ASSUME NEW p \in Page, page'[p] = "open", HasNewest(p) PROVE HasNewest(p)'
    <3>1. CASE p = q
      <4>1. page[p] = "open"
        BY <1>8, <2>1 DEF SendGreeting, pageVars
      <4> QED
        BY <1>8, <2>1, <3>1, <4>1, NewestGreeted
    <3>2. CASE p # q
      <4>1. socket'[p] = socket[p] /\ rx'[p] = rx[p] /\ toPage'[p] = toPage[p]
            /\ clone'[p] = clone[p] /\ UNCHANGED <<todos, shown>>
        BY <1>2, <1>8, <3>2 DEF SendGreeting, Write, pageVars
      <4> QED
        BY <2>1, <4>1, NewestKept
    <3> QED
      BY <3>1, <3>2
  <2>2. recv[x] = "sending" => clone'[x] = clone[x]
    BY <1>2, <1>8 DEF SendGreeting, QuietInv
  <2>3. UNCHANGED <<todos, merged, updates, recv, page>>
    BY <1>8 DEF SendGreeting, pageVars
  <2> QED
    BY <2>1, <2>2, <2>3, NewsKept
<1>9. ASSUME NEW q \in Page, Receive(q) PROVE NewsInv(x)'
  <2>1. q = x /\ recv[x] = "waiting" /\ recv'[x] = "writing"
    BY <1>1, <1>2, <1>9 DEF Receive
  <2>2. ~ Announces(x)
    BY <2>1 DEF Announces, HeardOf
  <2>3. ASSUME NEW p \in Page, page'[p] = "open" PROVE HasNewest(p)'
    BY <1>9, <2>2, <2>3, NewestKept DEF Receive, pageVars, NewsInv
  <2> QED
    BY <2>1, <2>3 DEF NewsInv
<1>10. ASSUME NEW q \in Page, Apply(q) PROVE NewsInv(x)'
  <2>1. q = x /\ recv'[x] = "reading"
    BY <1>1, <1>2, <1>10 DEF Apply
  <2> QED
    BY <2>1 DEF NewsInv, Announces
<1>11. ASSUME NEW q \in Page, ForwardView(q) PROVE NewsInv(x)'
  <2>1. ASSUME NEW p \in Page, page'[p] = "open", HasNewest(p) PROVE HasNewest(p)'
    <3>1. CASE p = q
      BY <1>11, <2>1, <3>1, NewestForwarded DEF ForwardView, pageVars
    <3>2. CASE p # q
      BY <1>2, <1>11, <2>1, <3>2, NewestKept DEF ForwardView, Write, pageVars
    <3> QED
      BY <3>1, <3>2
  <2> QED
    BY <1>11, <2>1, NewsKept DEF ForwardView, pageVars
<1>12. ASSUME NEW q \in Page, EndSocket(q) PROVE NewsInv(x)'
  <2>1. UNCHANGED <<todos, clone, updates, merged, toPage, page, shown, sends>>
    BY <1>12 DEF EndSocket, pageVars
  <2>2. /\ socket'[q] = "ended" /\ recv'[q] \in {recv[q], "waiting"}
        /\ \A p \in Page : p # q => socket'[p] = socket[p] /\ rx'[p] = rx[p]
        /\ \A y \in Page \cup {Forwarder} : y # q => recv'[y] = recv[y]
    BY <1>2, <1>12 DEF EndSocket
  <2>3. recv[q] = "waiting"
    <3>1. sends[q] = 0
      <4>1. sends[q] \in Nat /\ ~ (sends[q] > 0)
        BY <2>1, <2>2 DEF EditorsStay, ServerInv, TypeOK
      <4> QED
        BY <4>1
    <3> QED
      BY <3>1 DEF QuietInv
  <2>4. recv'[x] = recv[x]
    BY <2>2, <2>3
  <2>5. ASSUME NEW p \in Page, page'[p] = "open", HasNewest(p) PROVE HasNewest(p)'
    <3>1. CASE p = q
      BY <2>2, <3>1 DEF HasNewest
    <3>2. CASE p # q
      BY <2>1, <2>2, <2>5, <3>2, NewestKept
    <3> QED
      BY <3>1, <3>2
  <2> QED
    BY <2>1, <2>4, <2>5, NewsKept
<1>13. ASSUME NEW y \in Page \cup {Forwarder}, ReadView(y) PROVE NewsInv(x)'
  <2>1. /\ y = x /\ recv'[x] = "sending" /\ clone'[x] = SnapshotOf(todos) /\ todos' = todos
    BY <1>1, <1>2, <1>13 DEF ReadView
  <2>2. SnapshotOf(todos)' = SnapshotOf(todos)
    BY <2>1 DEF SnapshotOf
  <2> QED
    BY <2>1, <2>2 DEF NewsInv, Announces
<1>14. ASSUME NEW y \in Page \cup {Forwarder}, SendView(y) PROVE NewsInv(x)'
  <2>1. y = x /\ recv[x] = "sending" /\ recv'[x] = "waiting" /\ UNCHANGED <<page, merged, updates>>
    BY <1>1, <1>2, <1>14 DEF SendView, pageVars
  <2>2. CASE clone[x] = SnapshotOf(todos)
    BY <1>14, <2>1, <2>2, NewestSent DEF NewsInv
  <2>3. CASE HeardOf(x)
    <3>1. HeardOf(x)'
      BY <2>1, <2>3 DEF HeardOf
    <3> QED
      BY <2>1, <3>1 DEF NewsInv, Announces
  <2> QED
    BY <2>1, <2>2, <2>3 DEF NewsInv
<1>15. ASSUME NEW frame \in PeerFrames, MergeFrame(frame) PROVE NewsInv(x)'
  <2>1. merges < MaxMerges /\ merges \in Nat /\ MaxMerges \in Nat /\ merged' > 0
    BY <1>15 DEF MergeFrame, ServerInv, TypeOK
  <2>2. x = Forwarder
    BY <2>1 DEF OnlyBroadcaster
  <2> QED
    BY <2>1, <2>2 DEF NewsInv, Announces, HeardOf
<1>16. ASSUME SendUpdate PROVE NewsInv(x)'
  <2>1. x = Forwarder /\ recv' = recv
    BY <1>1, <1>16 DEF SendUpdate
  <2>2. recv[x] = "ended" \/ updates' > 0
    BY <1>16, <2>1 DEF SendUpdate, ServerInv, TypeOK
  <2> QED
    BY <2>1, <2>2 DEF NewsInv, Announces, HeardOf
<1>17. ASSUME ForwardUpdate \/ ForwarderEnds PROVE NewsInv(x)'
  <2>1. updates > 0
    BY <1>17 DEF ForwardUpdate, ForwarderEnds, ServerInv, TypeOK
  <2>2. x = Forwarder /\ recv'[x] \in {"reading", "ended"}
    BY <1>1, <1>2, <1>17, <2>1 DEF ForwardUpdate, ForwarderEnds
  <2> QED
    BY <2>2 DEF NewsInv, Announces, HeardOf
<1>18. CASE UNCHANGED vars
  BY <1>18, NewsKept, NewestKept DEF vars, serverVars, pageVars
<1> QED
  BY <1>3, <1>4, <1>5, <1>6, <1>7, <1>8, <1>9, <1>10, <1>11, <1>12, <1>13, <1>14, <1>15, <1>16,
     <1>17, <1>18
  DEF Next, User, PageStep, HandleSocket, RecvTask, Broadcast, SendLocalOperation, RequestResync

(* Where one task does all broadcasts, the newest list is on its way to    *)
(* every open page or about to be announced, in every state: whatever the  *)
(* capacity of the channel and of the sockets, however many pages come and *)
(* go, and in whatever order greeting, edit and broadcast meet.            *)
THEOREM NewestStaysUnderWay == Spec => []NewestUnderWay
<1> DEFINE News == EditorsStay =>
                     \A x \in Page \cup {Forwarder} : OnlyBroadcaster(x) => NewsInv(x)
<1>1. Init => ServerInv /\ QuietInv /\ News
  <2> SUFFICES ASSUME Init PROVE ServerInv /\ QuietInv /\ News
    OBVIOUS
  <2>1. QuietInv
    BY DEF Init, QuietInv
  <2>2. ASSUME NEW x \in Page \cup {Forwarder} PROVE NewsInv(x)
    BY DEF Init, NewsInv
  <2> QED
    BY <2>1, <2>2, InvInit
<1>2. ServerInv /\ QuietInv /\ News /\ [Next]_vars => ServerInv' /\ QuietInv' /\ News'
  <2> SUFFICES ASSUME ServerInv, QuietInv, News, [Next]_vars PROVE ServerInv' /\ QuietInv' /\ News'
    OBVIOUS
  <2>1. ASSUME EditorsStay', NEW x \in Page \cup {Forwarder}, OnlyBroadcaster(x)
        PROVE  NewsInv(x)'
    <3>1. EditorsStay
      BY <2>1, StaysStep
    <3> QED
      BY <2>1, <3>1, NewsStep
  <2>2. News'
    BY <2>1 DEF OnlyBroadcaster
  <2> QED
    BY <2>2, InvStep, QuietStep
<1>3. News => NewestUnderWay
  BY DEF NewsInv, NewestUnderWay
<1> QED
  BY <1>1, <1>2, <1>3, PTL DEF Spec
=============
