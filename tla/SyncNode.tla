------------------------------ MODULE SyncNode ------------------------------
(***************************************************************************)
(* crdt-sync's SyncNode: the tasks that replicate a state-based CRDT over  *)
(* TCP.  For each configured peer address a node runs one outgoing task    *)
(* (spawn_outgoing), which connects, pushes its state and pushes it again  *)
(* on a local change and on every anti-entropy tick; for each accepted     *)
(* connection it runs one incoming task (serve_incoming), which merges     *)
(* what arrives.  A link <<n, m>> is the outgoing task of n for peer m     *)
(* together with the incoming tasks of m that serve its connections.       *)
(*                                                                         *)
(* The CRDT is a parameter.  Time is left out: a sleep before the next     *)
(* attempt is a step that has not been taken yet.  Hello frames carry a    *)
(* name that is only logged and are left out, with one consequence kept:   *)
(* the connecting side never reads the Hello its peer sends, so closing    *)
(* its socket resets the connection and may lose the frames in flight.     *)
(* The event on_remote_update is an output to the application and is not   *)
(* part of this module's state.                                            *)
(***************************************************************************)
EXTENDS Naturals, Sequences

CONSTANTS
  Node,           \* the processes
  Link,           \* <<n, m>> when m's sync address is in n's peers
  S,              \* the values of the replicated state
  Default,        \* the state a process starts with
  Join(_, _),     \* CvRDT::merge
  FitsFrame(_),   \* the encoded state is within the codec's frame length
  ChannelCap,     \* capacity of the on_local_change broadcast channel
  WireCap,        \* bound on the frames a connection holds before send blocks
  Slot,           \* bound on the incoming tasks of a link alive at one time
  MaxBreaks       \* bound on the connections the network breaks

VARIABLES
  state,     \* state[n]: the value behind n's Arc<RwLock<S>>
  up,        \* up[n]: n's process runs
  task,      \* task[l]: what the outgoing task of l does next
  snapshot,  \* snapshot[l]: the clone push_state is sending
  pending,   \* pending[l]: notifications change_rx has not received, counted
             \*   up to ChannelCap + 1, which is a receiver that lags
  tcp,       \* tcp[l]: l's connection, as the sending kernel knows it
  current,   \* current[l]: the incoming task that serves l's connection
  inbox,     \* inbox[l][c]: the frames incoming task c has not merged
  breaks     \* how many connections the network has broken

syncVars == <<state, up, task, snapshot, pending, tcp, current, inbox, breaks>>

TaskStates == {"connecting", "reading", "sending", "selecting"}
(* "reset": the peer is gone and the kernel does not know; "written": and  *)
(* it has written since; "dead": it knows.                                 *)
TcpStates  == {"closed", "open", "reset", "written", "dead"}

SyncTypeOK ==
  /\ state    \in [Node -> S]
  /\ up       \in [Node -> BOOLEAN]
  /\ task     \in [Link -> TaskStates]
  /\ snapshot \in [Link -> S]
  /\ pending  \in [Link -> 0 .. ChannelCap + 1]
  /\ tcp      \in [Link -> TcpStates]
  /\ current  \in [Link -> Slot]
  /\ inbox    \in [Link -> [Slot -> Seq(S)]]
  /\ breaks   \in 0 .. MaxBreaks

SyncInit ==
  /\ state    = [n \in Node |-> Default]
  /\ up       = [n \in Node |-> TRUE]
  /\ task     = [l \in Link |-> "connecting"]
  /\ snapshot = [l \in Link |-> Default]
  /\ pending  = [l \in Link |-> 0]
  /\ tcp      = [l \in Link |-> "closed"]
  /\ current  = [l \in Link |-> CHOOSE c \in Slot : TRUE]
  /\ inbox    = [l \in Link |-> [c \in Slot |-> <<>>]]
  /\ breaks   = 0

-----------------------------------------------------------------------------
(* What becomes of the frames in flight when a connection ends: the peer   *)
(* still reads some prefix of them.                                        *)
LoseFrames(l, k) ==
  inbox' = [inbox EXCEPT ![l][current[l]] = SubSeq(@, 1, k)]

InFlight(l) == 0 .. Len(inbox[l][current[l]])

(* drive_outgoing returns: change_rx and the socket are dropped. *)
HangUp(l) ==
  /\ task'     = [task EXCEPT ![l] = "connecting"]
  /\ snapshot' = [snapshot EXCEPT ![l] = Default]
  /\ pending'  = [pending EXCEPT ![l] = 0]
  /\ tcp'      = [tcp EXCEPT ![l] = "closed"]
  /\ \E k \in InFlight(l) : LoseFrames(l, k)

(* connect succeeds; change_rx subscribes before the first push.  A failed *)
(* connect leaves the task where it is.                                    *)
Connect(l) ==
  /\ up[l[1]] /\ up[l[2]]
  /\ task[l] = "connecting"
  /\ \E c \in Slot : inbox[l][c] = <<>>
  /\ current' = [current EXCEPT ![l] = CHOOSE c \in Slot : inbox[l][c] = <<>>]
  /\ tcp'     = [tcp EXCEPT ![l] = "open"]
  /\ pending' = [pending EXCEPT ![l] = 0]
  /\ task'    = [task EXCEPT ![l] = "reading"]
  /\ UNCHANGED <<state, up, snapshot, inbox, breaks>>

(* push_state, first half: clone the state under the read guard. *)
ReadState(l) ==
  /\ task[l] = "reading"
  /\ snapshot' = [snapshot EXCEPT ![l] = state[l[1]]]
  /\ task'     = [task EXCEPT ![l] = "sending"]
  /\ UNCHANGED <<state, up, pending, tcp, current, inbox, breaks>>

(* push_state, second half: the guard is gone, the clone goes out. *)
SendFrame(l) ==
  /\ task[l] = "sending" /\ tcp[l] = "open"
  /\ FitsFrame(snapshot[l])
  /\ Len(inbox[l][current[l]]) < WireCap
  /\ inbox'    = [inbox EXCEPT ![l][current[l]] = Append(@, snapshot[l])]
  /\ snapshot' = [snapshot EXCEPT ![l] = Default]
  /\ task'     = [task EXCEPT ![l] = "selecting"]
  /\ UNCHANGED <<state, up, pending, tcp, current, breaks>>

(* The peer is gone and this kernel has not been told: the write succeeds, *)
(* the frame is lost.  So are all that follow, until ...                   *)
SendIntoReset(l) ==
  /\ task[l] = "sending" /\ tcp[l] \in {"reset", "written"}
  /\ FitsFrame(snapshot[l])
  /\ tcp'      = [tcp EXCEPT ![l] = "written"]
  /\ snapshot' = [snapshot EXCEPT ![l] = Default]
  /\ task'     = [task EXCEPT ![l] = "selecting"]
  /\ UNCHANGED <<state, up, pending, current, inbox, breaks>>

(* ... the answer to the first of them, a reset, or the want of one, a     *)
(* timeout, tells the kernel.                                              *)
ResetArrives(l) ==
  /\ tcp[l] = "written"
  /\ tcp' = [tcp EXCEPT ![l] = "dead"]
  /\ UNCHANGED <<state, up, task, snapshot, pending, current, inbox, breaks>>

(* Mutant: the error of a push is logged and the loop goes on. *)
SendErrorIgnored(l) ==
  /\ task[l] = "sending"
  /\ tcp[l] = "dead" \/ ~FitsFrame(snapshot[l])
  /\ task' = [task EXCEPT ![l] = "selecting"]
  /\ UNCHANGED <<state, up, snapshot, pending, tcp, current, inbox, breaks>>

(* The write fails, or the codec refuses a frame that is too long. *)
SendError(l) ==
  /\ task[l] = "sending"
  /\ tcp[l] = "dead" \/ ~FitsFrame(snapshot[l])
  /\ HangUp(l)
  /\ UNCHANGED <<state, up, current, breaks>>

(* select!: change_rx.recv() yields a notification. *)
RecvChange(l) ==
  /\ task[l] = "selecting"
  /\ pending[l] \in 1 .. ChannelCap
  /\ pending' = [pending EXCEPT ![l] = @ - 1]
  /\ task'    = [task EXCEPT ![l] = "reading"]
  /\ UNCHANGED <<state, up, snapshot, tcp, current, inbox, breaks>>

(* select!: change_rx.recv() yields Lagged; the task drops the connection. *)
RecvLagged(l) ==
  /\ task[l] = "selecting"
  /\ pending[l] > ChannelCap
  /\ HangUp(l)
  /\ UNCHANGED <<state, up, current, breaks>>

(* Mutant: the ticker's arm does not push. *)
TickIdle(l) == task[l] = "selecting" /\ UNCHANGED syncVars

(* select!: the anti-entropy ticker fires. *)
Tick(l) ==
  /\ task[l] = "selecting"
  /\ task' = [task EXCEPT ![l] = "reading"]
  /\ UNCHANGED <<state, up, snapshot, pending, tcp, current, inbox, breaks>>

(* Mutant: the frame replaces the local state. *)
DeliverOverwrites(l, c) ==
  /\ inbox[l][c] # <<>>
  /\ state' = [state EXCEPT ![l[2]] = Head(inbox[l][c])]
  /\ inbox' = [inbox EXCEPT ![l][c] = Tail(@)]
  /\ UNCHANGED <<up, task, snapshot, pending, tcp, current, breaks>>

(* Mutant: push_state keeps its read guard until the frame is sent, and    *)
(* the write guard of the merge waits for it.                              *)
DeliverUnderGuard(l, c) ==
  /\ inbox[l][c] # <<>>
  /\ \A m \in Link : m[1] = l[2] => task[m] # "sending"
  /\ state' = [state EXCEPT ![l[2]] = Join(@, Head(inbox[l][c]))]
  /\ inbox' = [inbox EXCEPT ![l][c] = Tail(@)]
  /\ UNCHANGED <<up, task, snapshot, pending, tcp, current, breaks>>

(* serve_incoming merges the oldest frame of connection c, under the write *)
(* guard: no push holds its read guard while it sends.                     *)
Deliver(l, c) ==
  /\ inbox[l][c] # <<>>
  /\ state' = [state EXCEPT ![l[2]] = Join(@, Head(inbox[l][c]))]
  /\ inbox' = [inbox EXCEPT ![l][c] = Tail(@)]
  /\ UNCHANGED <<up, task, snapshot, pending, tcp, current, breaks>>

-----------------------------------------------------------------------------
(* Mutant: only the tasks waiting in select! are woken, as notify_waiters  *)
(* of tokio's Notify does.                                                 *)
NotifyWaiters(n) ==
  pending' = [l \in Link |->
                IF l[1] = n /\ task[l] = "selecting" /\ pending[l] <= ChannelCap
                THEN pending[l] + 1 ELSE pending[l]]

(* on_local_change.send(()): every subscribed outgoing task of n. *)
Notify(n) ==
  pending' = [l \in Link |->
                IF l[1] = n /\ task[l] # "connecting" /\ pending[l] <= ChannelCap
                THEN pending[l] + 1 ELSE pending[l]]

(* The network breaks an open connection; the sending kernel learns of it  *)
(* at once or at its next write.                                           *)
Break(l) ==
  /\ tcp[l] = "open"
  /\ breaks < MaxBreaks
  /\ breaks' = breaks + 1
  /\ \E t \in {"reset", "dead"} : tcp' = [tcp EXCEPT ![l] = t]
  /\ \E k \in InFlight(l) : LoseFrames(l, k)
  /\ UNCHANGED <<state, up, task, snapshot, pending, current>>

(* n's process ends.  Nothing is persisted: its state, its tasks and the   *)
(* frames it had received are gone, its peers' connections to it broken.   *)
Stop(n) ==
  /\ up[n]
  /\ up'       = [up EXCEPT ![n] = FALSE]
  /\ state'    = [state EXCEPT ![n] = Default]
  /\ task'     = [l \in Link |-> IF l[1] = n THEN "connecting" ELSE task[l]]
  /\ snapshot' = [l \in Link |-> IF l[1] = n THEN Default ELSE snapshot[l]]
  /\ pending'  = [l \in Link |-> IF l[1] = n THEN 0 ELSE pending[l]]
  /\ \E t \in {"reset", "dead"} :
       tcp' = [l \in Link |-> IF l[1] = n THEN "closed"
                              ELSE IF l[2] = n /\ tcp[l] = "open" THEN t
                              ELSE tcp[l]]
  /\ \E kept \in [Link -> 0 .. WireCap] :
       inbox' = [l \in Link |-> [c \in Slot |->
                   IF l[2] = n THEN <<>>
                   ELSE IF /\ l[1] = n /\ tcp[l] # "closed" /\ c = current[l]
                           /\ kept[l] <= Len(inbox[l][c])
                        THEN SubSeq(inbox[l][c], 1, kept[l])
                        ELSE inbox[l][c]]]
  /\ UNCHANGED <<current, breaks>>

Start(n) ==
  /\ ~up[n]
  /\ up' = [up EXCEPT ![n] = TRUE]
  /\ UNCHANGED <<state, task, snapshot, pending, tcp, current, inbox, breaks>>

-----------------------------------------------------------------------------
LinkStep(l) ==
  \/ Connect(l)
  \/ ReadState(l)
  \/ SendFrame(l)
  \/ SendIntoReset(l)
  \/ ResetArrives(l)
  \/ SendError(l)
  \/ RecvChange(l)
  \/ RecvLagged(l)
  \/ Tick(l)
  \/ \E c \in Slot : Deliver(l, c)
  \/ Break(l)
=============================================================================
