----------------------------- MODULE TodoServer -----------------------------
(***************************************************************************)
(* The browser side of one todo-app process: handle_socket with its        *)
(* send_task and recv_task for each WebSocket connection, the broadcast    *)
(* channel ws_tx that carries snapshots to all of them, the task of main   *)
(* that turns on_remote_update into broadcasts (the forwarder), and the    *)
(* page at the other end of each connection (app.js).                      *)
(*                                                                         *)
(* A tab that connects again is another member of Page.  Frames from       *)
(* peers are inputs (PeerFrames).  The notification of crdt-sync after an  *)
(* apply is TodoSync's NotifySync.  The read and write guards are held for *)
(* one step each, never across an await.                                   *)
(***************************************************************************)
EXTENDS TodoState, Integers, Sequences

CONSTANTS
  Page,        \* the WebSocket connections
  Forwarder,   \* the task of main that forwards remote updates
  Self,        \* the peer id of the process
  Replica,     \* its replica id
  PeerFrames,  \* the states other peers may send
  ViewCap,     \* capacity of ws_tx
  UpdateCap,   \* capacity of on_remote_update
  WsCap,       \* bound on the messages a WebSocket holds in one direction
  MaxSends,    \* MaxSends[p]: bound on the messages page p sends
  MayClose,    \* the pages that may close
  MaxMerges    \* bound on the frames merged

ASSUME ServerAssumption ==
  /\ Self \in Peer /\ Replica \in ReplicaId /\ Forwarder \notin Page
  /\ PeerFrames \subseteq TodoStates
  /\ ViewCap \in Nat \ {0} /\ UpdateCap \in Nat \ {0} /\ WsCap \in Nat \ {0}
  /\ MaxSends \in [Page -> Nat] /\ MayClose \subseteq Page /\ MaxMerges \in Nat

VARIABLES
  todos,          \* the TodoState behind AppState.inner
  next_local_id,  \* its next_local_id
  socket,         \* socket[p]: how far handle_socket is
  recv,           \* recv[p]: what p's recv_task, or the forwarder, does next
  cmd,            \* cmd[p]: the message recv_task applies
  clone,          \* clone[p]: the snapshot a task took and has not sent
  rx,             \* rx[p]: what p's ws_tx receiver has not received; ViewCap + 1
                  \*   snapshots stand for a receiver that lags
  updates,        \* what the forwarder's receiver has not received, likewise
  merged,         \* how many merges' on_remote_update.send is due
  toServer,       \* toServer[p], toPage[p]: the messages under way
  toPage,
  page,           \* page[p]: the WebSocket as the page sees it
  shown,          \* shown[p]: the last snapshot the page rendered
  pendingLocalOps,\* pendingLocalOps[p]: the page's counter of that name
  sends, merges   \* what pages have sent, how many frames were merged

serverVars == <<todos, next_local_id, socket, recv, cmd, clone, rx, updates, merged>>
pageVars   == <<page, shown, pendingLocalOps, sends>>
vars == <<serverVars, toServer, toPage, pageVars, merges>>

(* What snapshot() sends to browsers: the items and the own clock entry. *)
SnapshotOf(s) == [todos |-> Todos(s, Self), clock |-> Get(s.clock, Replica)]

NoView  == [todos |-> {}, clock |-> -1]
NoCmd   == [type |-> "none"]

Views == [todos : SUBSET [id : Id, text : Text, completed : BOOLEAN, created_by : Peer],
          clock : -1 .. MaxCount]
Messages == [type : {"add"}, text : Text \cup {Blank}] \cup [type : {"toggle", "delete"}, id : Id]
              \cup [type : {"resync"}]

TypeOK ==
  /\ todos \in TodoStates /\ next_local_id \in 0 .. MaxLocalId
  /\ socket \in [Page -> {"new", "greeting", "greeted", "serving", "ended"}]
  /\ recv \in [Page \cup {Forwarder} -> {"waiting", "writing", "reading", "sending", "ended"}]
  /\ cmd \in [Page -> Messages \cup {NoCmd}]
  /\ clone \in [Page \cup {Forwarder} -> Views]
  /\ rx \in [Page -> Seq(Views)] /\ \A p \in Page : Len(rx[p]) <= ViewCap + 1
  /\ updates \in 0 .. UpdateCap + 1 /\ merged \in 0 .. MaxMerges
  /\ toServer \in [Page -> Seq(Messages)] /\ toPage \in [Page -> Seq(Views)]
  /\ \A p \in Page : Len(toServer[p]) <= WsCap /\ Len(toPage[p]) <= WsCap
  /\ page \in [Page -> {"new", "open", "closed"}]
  /\ shown \in [Page -> Views]
  /\ sends \in [Page -> Nat] /\ pendingLocalOps \in [Page -> Nat]
  /\ \A p \in Page : sends[p] <= MaxSends[p]
  /\ merges \in 0 .. MaxMerges

Init ==
  /\ todos = NewState /\ next_local_id = 0
  /\ socket = [p \in Page |-> "new"]
  /\ recv = [x \in Page \cup {Forwarder} |-> "waiting"]
  /\ cmd = [p \in Page |-> NoCmd]
  /\ clone = [x \in Page \cup {Forwarder} |-> NoView]
  /\ rx = [p \in Page |-> <<>>]
  /\ updates = 0 /\ merged = 0
  /\ toServer = [p \in Page |-> <<>>] /\ toPage = [p \in Page |-> <<>>]
  /\ page = [p \in Page |-> "new"]
  /\ shown = [p \in Page |-> NoView]
  /\ pendingLocalOps = [p \in Page |-> 0]
  /\ sends = [p \in Page |-> 0] /\ merges = 0

-----------------------------------------------------------------------------
(* The page. *)

(* connectTransport and the upgrade; handle_socket subscribes first.  A    *)
(* tab that connects again goes on with the list it shows and with its     *)
(* counter.                                                                *)
Open(p) ==
  /\ page[p] = "new"
  /\ page' = [page EXCEPT ![p] = "open"]
  /\ socket' = [socket EXCEPT ![p] = "greeting"]
  /\ \/ UNCHANGED <<shown, pendingLocalOps>>
     \/ \E q \in Page :
          /\ page[q] = "closed"
          /\ shown' = [shown EXCEPT ![p] = shown[q], ![q] = NoView]
          /\ pendingLocalOps' = [pendingLocalOps EXCEPT ![p] = pendingLocalOps[q], ![q] = 0]
  /\ UNCHANGED <<todos, next_local_id, recv, cmd, clone, rx, updates, merged,
                 toServer, toPage, sends, merges>>

Post(p, message) ==
  /\ page[p] = "open"
  /\ Len(toServer[p]) < WsCap
  /\ sends[p] < MaxSends[p]
  /\ sends' = [sends EXCEPT ![p] = @ + 1]
  /\ toServer' = [toServer EXCEPT ![p] = Append(@, message)]
  /\ UNCHANGED <<serverVars, toPage, page, shown, merges>>

(* The forms and buttons of the local peer's card, which the tab's first   *)
(* snapshot brings: texts are trimmed and not empty, ids are of the todos  *)
(* shown.  On a socket that is not open the counter goes up and down again *)
(* and nothing is sent.                                                    *)
SendLocalOperation(p) ==
  /\ shown[p] # NoView
  /\ pendingLocalOps' = [pendingLocalOps EXCEPT ![p] = @ + 1]
  /\ \/ \E text \in Text : Post(p, [type |-> "add", text |-> text])
     \/ \E todo \in shown[p].todos, type \in {"toggle", "delete"} :
          Post(p, [type |-> type, id |-> todo.id])

RequestResync(p) == Post(p, [type |-> "resync"]) /\ UNCHANGED pendingLocalOps

(* handleSnapshot: whatever caused the snapshot, nothing is pending. *)
HandleSnapshot(p) ==
  /\ page[p] = "open" /\ toPage[p] # <<>>
  /\ shown' = [shown EXCEPT ![p] = Head(toPage[p])]
  /\ pendingLocalOps' = [pendingLocalOps EXCEPT ![p] = 0]
  /\ toPage' = [toPage EXCEPT ![p] = Tail(@)]
  /\ UNCHANGED <<serverVars, toServer, page, sends, merges>>

(* The tab closes or its connection breaks: the server still gets some of  *)
(* what was sent.                                                          *)
ClosePage(p) ==
  /\ p \in MayClose /\ page[p] = "open"
  /\ page' = [page EXCEPT ![p] = "closed"]
  /\ toPage' = [toPage EXCEPT ![p] = <<>>]
  /\ \E k \in 0 .. Len(toServer[p]) :
       toServer' = [toServer EXCEPT ![p] = SubSeq(@, 1, k)]
  /\ UNCHANGED <<serverVars, shown, pendingLocalOps, sends, merges>>

(* The close event, after the messages before it. *)
PageNotices(p) ==
  /\ page[p] = "open" /\ socket[p] = "ended" /\ toPage[p] = <<>>
  /\ page' = [page EXCEPT ![p] = "closed"]
  /\ UNCHANGED <<serverVars, toServer, toPage, shown, pendingLocalOps, sends, merges>>

-----------------------------------------------------------------------------
(* The connection's tasks. *)

(* send_current_snapshot: read under the guard, then send. *)
ReadGreeting(p) ==
  /\ socket[p] = "greeting"
  /\ clone' = [clone EXCEPT ![p] = SnapshotOf(todos)]
  /\ socket' = [socket EXCEPT ![p] = "greeted"]
  /\ UNCHANGED <<todos, next_local_id, recv, cmd, rx, updates, merged, toServer,
                 toPage, pageVars, merges>>

(* A write to a page that has closed may succeed: the snapshot is lost. *)
Write(p, view) ==
  toPage' = IF page[p] = "open" THEN [toPage EXCEPT ![p] = Append(@, view)] ELSE toPage

SendGreeting(p) ==
  /\ socket[p] = "greeted"
  /\ clone' = [clone EXCEPT ![p] = NoView]
  /\ \/ /\ Write(p, clone[p])
        /\ socket' = [socket EXCEPT ![p] = "serving"]
        /\ UNCHANGED rx
     \/ /\ page[p] = "closed"
        /\ socket' = [socket EXCEPT ![p] = "ended"]
        /\ rx' = [rx EXCEPT ![p] = <<>>]
        /\ UNCHANGED toPage
  /\ UNCHANGED <<todos, next_local_id, recv, cmd, updates, merged, toServer,
                 pageVars, merges>>

(* recv_task takes the next message and waits for the write guard. *)
Receive(p) ==
  /\ socket[p] = "serving" /\ recv[p] = "waiting" /\ toServer[p] # <<>>
  /\ cmd' = [cmd EXCEPT ![p] = Head(toServer[p])]
  /\ recv' = [recv EXCEPT ![p] = "writing"]
  /\ toServer' = [toServer EXCEPT ![p] = Tail(@)]
  /\ UNCHANGED <<todos, next_local_id, socket, clone, rx, updates, merged,
                 toPage, pageVars, merges>>

Effect(message) ==
  \/ /\ message.type = "add"
     /\ IF message.text = Blank
        THEN UNCHANGED <<todos, next_local_id>>
        ELSE /\ next_local_id' = next_local_id + 1
             /\ todos' = Add(todos, Self, Replica, next_local_id + 1, message.text)
  \/ /\ message.type = "toggle"
     /\ todos' = Toggle(todos, Replica, message.id)
     /\ UNCHANGED next_local_id
  \/ /\ message.type = "delete"
     /\ todos' = Delete(todos, Replica, message.id)
     /\ UNCHANGED next_local_id
  \/ /\ message.type = "resync"
     /\ UNCHANGED <<todos, next_local_id>>

(* The bounds on ids and clock entries, which no run reaches. *)
Room == next_local_id < MaxLocalId /\ Get(todos.clock, Replica) < MaxCount

(* Mutant: a toggle is not broadcast. *)
ApplyToggleQuietly(p) ==
  /\ recv[p] = "writing" /\ Room
  /\ Effect(cmd[p])
  /\ cmd' = [cmd EXCEPT ![p] = NoCmd]
  /\ recv' = [recv EXCEPT ![p] = IF cmd[p].type = "toggle" THEN "waiting" ELSE "reading"]
  /\ UNCHANGED <<socket, clone, rx, updates, merged, toServer, toPage, pageVars, merges>>

(* apply under the write guard, then notify without an await. *)
Apply(p) ==
  /\ recv[p] = "writing" /\ Room
  /\ Effect(cmd[p])
  /\ cmd' = [cmd EXCEPT ![p] = NoCmd]
  /\ recv' = [recv EXCEPT ![p] = "reading"]
  /\ UNCHANGED <<socket, clone, rx, updates, merged, toServer, toPage, pageVars, merges>>

-----------------------------------------------------------------------------
(* broadcast_snapshot, run by a recv_task or by the forwarder: take the    *)
(* snapshot under the read guard; the guard is gone when it is sent.       *)
ReadView(x) ==
  /\ recv[x] = "reading"
  /\ clone' = [clone EXCEPT ![x] = SnapshotOf(todos)]
  /\ recv' = [recv EXCEPT ![x] = "sending"]
  /\ UNCHANGED <<todos, next_local_id, socket, cmd, rx, updates, merged,
                 toServer, toPage, pageVars, merges>>

(* Mutant: the receiver is created after the first snapshot is sent. *)
SubscribedLate(p) == socket[p] = "serving"

Subscribed(p) == socket[p] \in {"greeting", "greeted", "serving"}

(* A receiver that is ViewCap behind misses the snapshot: it lags. *)
Enqueue(queue, view) ==
  IF Len(queue) > ViewCap THEN queue ELSE Append(queue, view)

(* Mutant: the channel keeps every snapshot for every receiver. *)
SendViewUnbounded(x) ==
  /\ recv[x] = "sending"
  /\ rx' = [p \in Page |-> IF Subscribed(p) THEN Append(rx[p], clone[x]) ELSE rx[p]]
  /\ clone' = [clone EXCEPT ![x] = NoView]
  /\ recv' = [recv EXCEPT ![x] = "waiting"]
  /\ UNCHANGED <<todos, next_local_id, socket, cmd, updates, merged,
                 toServer, toPage, pageVars, merges>>

SendView(x) ==
  /\ recv[x] = "sending"
  /\ rx' = [p \in Page |-> IF Subscribed(p) THEN Enqueue(rx[p], clone[x]) ELSE rx[p]]
  /\ clone' = [clone EXCEPT ![x] = NoView]
  /\ recv' = [recv EXCEPT ![x] = "waiting"]
  /\ UNCHANGED <<todos, next_local_id, socket, cmd, updates, merged,
                 toServer, toPage, pageVars, merges>>

(* send_task hands the next snapshot to the socket. *)
ForwardView(p) ==
  /\ socket[p] = "serving"
  /\ rx[p] # <<>> /\ Len(rx[p]) <= ViewCap
  /\ Len(toPage[p]) < WsCap
  /\ Write(p, Head(rx[p]))
  /\ rx' = [rx EXCEPT ![p] = Tail(@)]
  /\ UNCHANGED <<todos, next_local_id, socket, recv, cmd, clone, updates, merged,
                 toServer, pageVars, merges>>

(* One of the two tasks ends: send_task because its receiver lags or the   *)
(* socket refuses the snapshot, recv_task because the page has closed and  *)
(* all its messages are read.  select! aborts the other one, which stops   *)
(* at its next await: between messages, before the write guard or before   *)
(* the read guard of broadcast_snapshot.                                   *)
EndSocket(p) ==
  /\ socket[p] = "serving"
  /\ \/ Len(rx[p]) > ViewCap
     \/ page[p] = "closed" /\ rx[p] # <<>>
     \/ page[p] = "closed" /\ recv[p] = "waiting" /\ toServer[p] = <<>>
  /\ socket' = [socket EXCEPT ![p] = "ended"]
  /\ recv' = [recv EXCEPT ![p] = IF @ = "sending" THEN @ ELSE "waiting"]
  /\ cmd' = [cmd EXCEPT ![p] = NoCmd]
  /\ rx' = [rx EXCEPT ![p] = <<>>]
  /\ toServer' = [toServer EXCEPT ![p] = <<>>]
  /\ UNCHANGED <<todos, next_local_id, clone, updates, merged, toPage, pageVars, merges>>

-----------------------------------------------------------------------------
(* Remote updates. *)

(* One of the tasks of serve_incoming merges a frame under the write       *)
(* guard, ...                                                              *)
MergeFrame(frame) ==
  /\ merges < MaxMerges
  /\ todos' = Merge(todos, frame)
  /\ merged' = merged + 1
  /\ merges' = merges + 1
  /\ UNCHANGED <<next_local_id, socket, recv, cmd, clone, rx, updates,
                 toServer, toPage, pageVars>>

(* ... then on_remote_update.send(()); nobody listens when the forwarder   *)
(* has ended.                                                              *)
SendUpdate ==
  /\ merged > 0
  /\ merged' = merged - 1
  /\ updates' = IF recv[Forwarder] = "ended" \/ updates > UpdateCap THEN updates
                ELSE updates + 1
  /\ UNCHANGED <<todos, next_local_id, socket, recv, cmd, clone, rx,
                 toServer, toPage, pageVars, merges>>

(* The forwarder's loop: a notification starts a broadcast, ... *)
ForwardUpdate ==
  /\ recv[Forwarder] = "waiting" /\ updates \in 1 .. UpdateCap
  /\ updates' = updates - 1
  /\ recv' = [recv EXCEPT ![Forwarder] = "reading"]
  /\ UNCHANGED <<todos, next_local_id, socket, cmd, clone, rx, merged,
                 toServer, toPage, pageVars, merges>>

(* ... and Lagged, an error like any other, ends it for good. *)
ForwarderEnds ==
  /\ recv[Forwarder] = "waiting" /\ updates > UpdateCap
  /\ updates' = 0
  /\ recv' = [recv EXCEPT ![Forwarder] = "ended"]
  /\ UNCHANGED <<todos, next_local_id, socket, cmd, clone, rx, merged,
                 toServer, toPage, pageVars, merges>>

-----------------------------------------------------------------------------
(* The steps of handle_socket and of the two tasks it spawns. *)
HandleSocket(p) == ReadGreeting(p) \/ SendGreeting(p) \/ EndSocket(p)

RecvTask(p) == Receive(p) \/ Apply(p)

Broadcast(x) == ReadView(x) \/ SendView(x)

PageStep(p) == HandleSnapshot(p) \/ PageNotices(p)

User(p) == Open(p) \/ SendLocalOperation(p) \/ RequestResync(p) \/ ClosePage(p)

Next ==
  \/ \E p \in Page : User(p) \/ PageStep(p) \/ HandleSocket(p) \/ RecvTask(p) \/ ForwardView(p)
  \/ \E x \in Page \cup {Forwarder} : Broadcast(x)
  \/ \E frame \in PeerFrames : MergeFrame(frame)
  \/ SendUpdate \/ ForwardUpdate \/ ForwarderEnds

Spec == Init /\ [][Next]_vars

(* The runtime runs every task that can go on, and a page every event that *)
(* has come; users and peers owe nothing.                                  *)
FairSpec ==
  /\ Spec
  /\ \A p \in Page : WF_vars(PageStep(p)) /\ WF_vars(HandleSocket(p))
  /\ \A p \in Page : WF_vars(RecvTask(p)) /\ WF_vars(ForwardView(p))
  /\ \A x \in Page \cup {Forwarder} : WF_vars(Broadcast(x))
  /\ WF_vars(SendUpdate) /\ WF_vars(ForwardUpdate \/ ForwarderEnds)

-----------------------------------------------------------------------------
(* A click finds its item, however old the list it was made on and however *)
(* late it comes: every todo on a page or on the way to one is an item of  *)
(* the process, every toggle and delete under way names one, so apply      *)
(* never ignores it as unknown.  And no page is shown a later clock than   *)
(* the process has.                                                        *)
Listed(view) ==
  /\ view.clock <= Get(todos.clock, Replica)
  /\ \A todo \in view.todos : todo.id \in todos.added

Finds(message) == message.type \in {"toggle", "delete"} => message.id \in todos.added

ClicksFindItems ==
  /\ \A x \in Page \cup {Forwarder} : Listed(clone[x])
  /\ \A p \in Page :
       /\ Listed(shown[p]) /\ Finds(cmd[p])
       /\ \A i \in 1 .. Len(rx[p]) : Listed(rx[p][i])
       /\ \A i \in 1 .. Len(toPage[p]) : Listed(toPage[p][i])
       /\ \A i \in 1 .. Len(toServer[p]) : Finds(toServer[p][i])

(* A connection that ends takes the broadcast of its last operation with   *)
(* it when its recv_task is aborted between the two: no page that has sent *)
(* an operation loses its connection.                                      *)
EditorsStay == \A p \in Page : sends[p] > 0 => socket[p] # "ended"

(* A page that stays open comes to show the process's list, and shows it   *)
(* from then on: greeting and broadcasts leave no gap, and the last        *)
(* snapshot it is sent is the newest.                                      *)
PagesCatchUp ==
  []EditorsStay =>
    \A p \in Page :
      <>[](page[p] = "open") => <>[](shown[p] = SnapshotOf(todos))

(* The last snapshot that is on its way to page p, or that it shows.       *)
Latest(p) ==
  CASE rx[p] # <<>>                            -> rx[p][Len(rx[p])]
    [] rx[p] = <<>> /\ socket[p] = "greeted"   -> clone[p]
    [] rx[p] = <<>> /\ socket[p] # "greeted"   ->
         IF toPage[p] # <<>> THEN toPage[p][Len(toPage[p])] ELSE shown[p]

(* p's greeting is yet to be read, or it has the newest list coming, or    *)
(* its connection ends: it has, or its receiver lags.                      *)
HasNewest(p) ==
  \/ socket[p] = "greeting" /\ rx[p] = <<>>
  \/ socket[p] = "ended"
  \/ Latest(p) = SnapshotOf(todos)
  \/ Len(rx[p]) > ViewCap

(* x is about to broadcast the newest list, or it is the forwarder and has *)
(* a merge to hear of, or has ended.                                       *)
HeardOf(x) == x = Forwarder /\ (merged > 0 \/ updates > 0 \/ recv[x] = "ended")

Announces(x) ==
  \/ recv[x] = "reading"
  \/ recv[x] = "sending" /\ clone[x] = SnapshotOf(todos)
  \/ HeardOf(x)

(* Only x broadcasts: one page edits and nothing is merged, or frames are  *)
(* merged and no page edits.                                               *)
OnlyBroadcaster(x) ==
  /\ \A p \in Page : MaxSends[p] > 0 => p = x
  /\ MaxMerges > 0 => x = Forwarder

(* Where one task does all broadcasts the newest list is never out of      *)
(* sight: in every state it is the last snapshot on its way to each open   *)
(* page, or about to be broadcast, whenever the page connects, and however *)
(* full its queues are.                                                    *)
NewestUnderWay ==
  EditorsStay =>
    \A x \in Page \cup {Forwarder} : OnlyBroadcaster(x) =>
      \A p \in Page : page[p] = "open" => HasNewest(p) \/ Announces(x)

(* An item of this process or of a peer is shown on every open page at     *)
(* least once, unless it is deleted or the page closes before ("Remote     *)
(* merges trigger a fresh WebSocket snapshot so every connected browser    *)
(* sees the change").  Nothing shows an item before it is added.           *)
PagesSeeItems ==
  \A p \in Page, id \in Id :
    <>(page[p] = "open" /\ id \in todos.added)
      => <>(\/ \E todo \in shown[p].todos : todo.id = id
            \/ id \in todos.removed
            \/ page[p] = "closed")

(* Every operation applied reaches every open page, by a snapshot whose    *)
(* clock entry counts it ("Every applied operation ... broadcasts a fresh  *)
(* JSON snapshot to every connected browser").                             *)
PagesSeeOperations ==
  \A p \in Page, k \in 1 .. MaxCount :
    <>(page[p] = "open" /\ Get(todos.clock, Replica) >= k)
      => <>(shown[p].clock >= k \/ page[p] = "closed")

(* Operations the page counts as pending are answered: no operation leaves *)
(* the counter up for good on a page that stays open, whatever snapshots   *)
(* of merges cleared it in between.                                        *)
PendingClears ==
  \A p \in Page : (pendingLocalOps[p] > 0) ~> (pendingLocalOps[p] = 0 \/ page[p] = "closed")
=============================================================================
