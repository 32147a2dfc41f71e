# A verified model of the replicated to-do list

This directory holds TLA+ models of the repository beside it: a to-do list that every peer keeps as a
state-based CRDT (`crates/crdt-core`), that peers replicate over TCP (`crates/crdt-sync`) and that browsers
edit over WebSockets (`crates/todo-app`). TLC checks small instances, TLAPS proves what matters most for every
value of the constants. `PROJECT.json` lists the runs, the mutants, the theorems and, for each definition, the
lines of code it stands for. Paths below are relative to `src/crates/`.

## The system

| Part | State | Operations | What makes it correct |
|---|---|---|---|
| Vector clock, `crdt-core/src/vector_clock.rs` | a `HashMap` from replica ids to `u64` | `increment`, `observe`, `merge`, `partial_cmp` and what is derived from it | the order of clocks is the happened-before order of events |
| Grow-only set, `g_set.rs` | a `HashSet` | `insert`, `contains`, `merge` (union) | merge is a join |
| Counters, `counter.rs`, `pn_counter.rs` | one or two maps of `u64` | `increment`, `decrement`, `value`, `merge` | the value is what the known operations add up to, whatever was merged how often; the application does not use them |
| To-do state, `todo-app/src/state.rs` | two grow-only sets, three maps, a clock, and (not synced) the peer's names and `next_local_id` | `add`, `toggle`, `delete`, `snapshot`, `merge` | ids are unique, texts immutable, every item complete, merges converge |
| Sync node, `crdt-sync/src/lib.rs` | the shared `Arc<RwLock<S>>`, two broadcast channels, one outgoing task per peer address, one incoming task per accepted connection | connect, push on change, push on tick, merge, reconnect | no change stays undelivered; nothing delivered is undone by an old frame |
| Browser server, `todo-app/src/server.rs`, loop in `main.rs:49-54` | `ws_tx`, two tasks per WebSocket, the task that forwards remote updates | greet, apply, notify, broadcast, abort | every open page is told of every change and ends with the current list |
| Page, `todo-app/static/app.js` | the shown snapshot, the connection, `pendingLocalOps` | connect, send, handle a snapshot | what it shows and the pending badge are true |
| Configuration and start, `main.rs` | the ports bound, the peers linked | `from_env`, then listener by listener | every peer listed becomes a link |

How they interact. A page's message is applied under the write guard by its connection's `recv_task`
(`server.rs:111`); with the guard released that task notifies the sync node (a broadcast channel with one
receiver per outgoing connection) and sends a snapshot on `ws_tx`, which every connection's `send_task`
receives. An outgoing task that is notified, or whose ticker fires, clones the state under the read guard and
sends the clone; the peer's incoming task merges it under its write guard and announces it on
`on_remote_update`, which `main`'s forwarder turns into another snapshot on `ws_tx`. A merge does *not* notify
the outgoing tasks. Nothing is persisted: a process that ends loses its state and its id counter.

What is hard. Every clone is sent after its guard is gone, so it may be stale when it arrives, and frames of
an old connection may arrive after those of a new one. Three broadcast channels have capacities (16, 16, 64)
and each treats lag in its own way. Writes to a peer that has died succeed until the kernel learns of it. A restarted process draws
the ids of its former life again. `toggle` makes a flag false that `merge` only ever makes true. Tasks are
aborted between applying and broadcasting. `hazards` in `PROJECT.json` lists these places line by line.

## Modules

```
HashMap  <-  VectorClock  <-  TodoState  <-  TodoSync  (INSTANCE SyncNode, SharedTodoList)
                  ^               ^------  TodoServer  <-  MCTodoServer
                  ^------  Counters  <-  Causality  (also GSet)  <-  MCCausality
Config  <-  Startup  <-  MCStartup;   TodoSync, Config  <-  MCTodoSync
proofs:  VectorClockProofs  <-  TodoStateProofs  <-  TodoSyncProofs  <-  TodoClockProofs, SharedListProofs
                    ^                   ^------  TodoServerProofs
                    ^------  CausalityProofs  <-  CountersProofs
```

* **HashMap**: the map operations of the standard library the crates use; a map is a function on its keys.
* **VectorClock**: the clock's operations. An absent entry counts as zero; `ClockMerge` skips zero entries.
* **Counters**, **GSet**: the operations of the counters and of the set. Counts are taken modulo `Modulus`
  (2^64), as a release build does where a debug build panics. An increment by zero leaves an entry.
* **Causality**: replicas that hold a counter, a set and a clock and use the clock as `TodoState` does
  (increment on an operation, merge on a merge). Beside them it keeps what they stand for: the events each
  replica and each state sent knows, each event's causal past, and its effect: what it was told to add, take or
  insert, not what the counter made of it.
* **TodoState**: the synced fields of `TodoState` as a record and its operations as functions of it. A
  todo id is the pair of peer and number its string is made of. `removed` is a set of tombstones. Fields that
  are `#[serde(skip)]` stay with the replica and are arguments.
* **SyncNode**: the tasks of crdt-sync for any state and any join. A *link* `<<n, m>>` is `n`'s outgoing task
  for `m` with the incoming tasks of `m` that serve its connections. `task[l]` is the await the outgoing task
  stands at: `connecting` (the loop of `spawn_outgoing`), `reading` (the read guard in `push_state`), `sending`
  (`framed.send`), `selecting` (`select!`). `pending[l]` is what its `change_rx` holds; one more than the
  capacity stands for a receiver that gets `Lagged`. `inbox[l][c]` holds the frames incoming task `c` has not
  merged; several tasks of one link live at once after a reconnect. `tcp[l]` is the connection as the sending
  kernel knows it: `reset` is a connection whose end it has not been told, so a write succeeds and is lost;
  `written` is the same after such a write: more writes may be lost until `ResetArrives` brings the answer to it;
  `dead` fails the next write. `Break`, `Stop` and `ResetArrives` are the network and the operating system.
* **TodoSync**: the cluster. Commands change a peer's state in one step (`apply` under the write guard) and
  notify in another (`NotifySync`), as other threads may run in between. `Sync!...` are SyncNode's actions
  with `Merge` as the join. `StopPeer`/`StartPeer` end and start a process, with everything it kept lost.
* **SharedTodoList**: the abstract specification: one list that peers see parts of. A peer creates an item
  under an id no view has used, removes and toggles what it sees, publishes its view, and learns published
  views late, often or never. TodoSync's `SharesOneList` maps the cluster to it: a view is the items with their
  texts, the tombstones and the checked flags of a replica's state; what is published is every state that a
  task has cloned or a connection carries.
* **TodoServer**: the browser side of one process and the pages. `socket[p]` is how far `handle_socket` is
  (`greeting` has subscribed, `greeted` holds its clone, `serving` has spawned both tasks); `recv[p]` is the
  await its `recv_task` stands at, and `recv[Forwarder]` the same for `main`'s loop, since both run
  `broadcast_snapshot`. `merged` counts the merges whose `on_remote_update.send` is due, as several incoming
  tasks may stand between the two. A write to a page that has closed fails, or succeeds and is lost (`Write`). A tab
  that connects again is another member of `Page`, and `Open` gives it the list and the counter the closed one
  had. `EndSocket` is one of the two tasks ending and `select!` aborting the other: an abort takes effect at an await, so a task between `ReadView` and `SendView` finishes its send. Pages send
  what the user interface offers: edits of the items *shown*, after the first snapshot. Frames of peers are
  inputs. The notification of the sync layer is TodoSync's subject and left out here.
* **Config**, **Startup**: `from_env` as functions of the environment (a `PEER_ID` is its digits and other
  characters, a `SYNC_PEERS` entry a host and a port), and `main` up to `axum::serve` for processes on one host:
  sync listener, outgoing tasks, HTTP listener, each bind failing when the port is taken. MCTodoSync takes its
  replica ids from `Config`.
* **MC...**: constants for TLC. **...Proofs**: the theorems.

Abstractions shared by all: text is a model value (what is left after `trim`; `Blank` is a text that is only
white space); encoding succeeds (a frame's length is `FitsFrame`); logging, the `Hello` frame (its name is
only logged; that the connecting side never reads the one it gets is the reason a closed socket resets and
loses frames) and `accept` errors are left out; a guarded section is one step, because no task awaits
anything while it holds a guard; time is left out, a sleep is a step that has not been taken.

## Runs and what they show

| Run | Instance | Question and answer |
|---|---|---|
| `sync_safety` | two peers, both ways; `a` makes two changes, `b` one; two texts | In every interleaving of edits, pushes and merges, states are well formed wherever they are (`StatesWellFormed`), ids are unique (`IdsDrawn`), texts agree and never change, a clock below another one covers no more than it, an added item is new and shown. A change a link owes its peer is in a frame, a push, a notification or a handler, in every state (`ChangeUnderWay`). Holds. |
| `links` | one link, two incoming tasks, one break | The cluster implements `SharedTodoList` (`SharesOneList`). Stale frames undo nothing. No notification is lost between connect, first push and `select!`, and a receiver that lags reconnects and pushes: while no connection breaks, pushes alone deliver (`PushDelivers`). After a break the ticker brings the lists together, all but the check marks (`ItemsConverge`). Holds. |
| `chain` | three peers in a chain, the first changes its list, the middle one restarts once, two handlers between apply and notify | A change crosses the middle peer by anti-entropy alone, and a restarted peer that nobody edits gets the list back, over a connection that must first be found dead. Everything but the check marks converges (`ItemsConverge`). Holds. |
| `both_ways` | two peers, both ways, one change on each side on top of a common item, connections of one frame | Concurrent edits converge, check marks included (`Converges`), with an uncheck racing frames that still hold the check; two peers that push to each other over full connections never wait for each other. Holds. |
| `causality` | three replicas that count, take away and insert; two events each, two states sent | The order of clocks is happened-before; counters and sets stand for exactly the events known, whatever was merged; who knows the same events holds equal values; a value is the sum over the known events. Holds. |
| `views_one_tab` | one page edits three times, another watches and may close, `ws_tx` of 1 | No queue outgrows its channel (`TypeOK`). With one broadcaster no gap opens between greeting and broadcasts: in every state the newest list is the last one on its way to each open page or about to be broadcast (`NewestUnderWay`), and every open page ends with it, while the editing page keeps its connection. Holds. |
| `operations_seen` | one page edits, one watches and may close, two merges, `on_remote_update` of 1 | Every operation of a page reaches every open page, even after the forwarder ended; the pending count always comes down; a click on an old list finds its item. Holds. |
| `restart_diverges` | both ways, one restart, then an edit | One id, two texts, for good. **Violates** `Converges`. |
| `frame_limit` | frames of one todo | A state too long for a frame is never sent. **Violates** `Converges`. |
| `peers_by_name` | the two processes of the README, one peer listed by host name | The entry is dropped and the link never made. **Violates** `ListedPeersLinked`. |
| `views_reordered` | one edit and one merge | Two broadcasters in the wrong order leave pages with an old list. **Violates** `PagesCatchUp`. |
| `forwarder_lags` | three merges, `on_remote_update` of 1 | The forwarder's loop ends on `Lagged`, and merges are shown no more. **Violates** `PagesSeeItems`. |

*Bounds.* Channels and connections hold one or two messages (four snapshots in `operations_seen`, where no
page may lag: the editing one would lose its connection), which is enough to be empty, full and overrun; larger ones only delay the same cases. Two peers
give every pair of concurrent edits, and a link treats each peer alone; the third peer of `chain` is there for
the hop that a merge does not announce, and restarts in the middle, with one neighbour to learn from and one to
teach. Changes are bounded by clock entries (`MaxClock`), so commands without
effect (blank text, resync, an unknown or removed id) stay possible at the bound. One break and one restart
give each of their orders with the pushes around them. `MaxSends` counts every message a page sends; `Room`
keeps ids and clock entries within their types and is never reached in a run. In `causality` counts wrap at
four, so sums over two events reach the edge, three replicas and two states in flight give merges of merges, and the
replicas differ in what they do. In `sync_safety` the texts are symmetric; no run with a liveness property uses
symmetry. Deadlock is checked in MCTodoSync's runs (a ticker can always fire); it is off where the system may
stop: users and peers owe nothing (MCTodoServer), events are used up (MCCausality), a start ends (MCStartup).

*Properties that need care.* `PagesSeeItems` and `PagesSeeOperations` say "shown at least once", not "shown
from then on": a reordered broadcast may take the item off the page again, which is `views_reordered`. A page
that has just connected may also step back once, when a broadcast was queued before its greeting was read;
the next one corrects it. `PagesSeeOperations` needs that the editing page does not close: a tab that closes has its
`recv_task` aborted (`server.rs:92`), perhaps between apply and broadcast, and the other pages are not told. The
model has this abort: with `MayClose = {p}` in `operations_seen.cfg` TLC finds the property violated.
`PagesCatchUp` and `NewestUnderWay` need it of pages that have sent (`EditorsStay`): not only a click on the
browser's close button ends a connection, a tab whose own receiver lags loses it too, with the broadcast of its
last operation. `Converges` speaks of check marks and needs links both ways: `merge` only ever checks a box, so an uncheck
never reaches a peer that knew the box checked; that peer's next push checks it again. Over links that go one
way the flags may differ for good, and `ItemsConverge` says what does converge.
`ChangeUnderWay` stops at the first break, since a write into a dead connection is lost until the next tick.
`ClockCoversUpdates` needs distinct replica ids, which `main.rs:78-83` does not ensure, and no restarts.
`SharesOneList` needs that no process ends: a restarted one loses its view and reuses ids. What is said of
counts and values holds while the sums they stand for fit `u64`: `SameEventsSameValues` asks it of the events of the
two copies compared (`NothingWrapped`), `ValueCountsEvents` of the copy's two sums. A count that has wrapped may
lose a merge to an older one, since the maximum takes the larger number.

## Fairness

Only the runtime is fair. Each task that stays able to take its next step takes it (weak fairness of each
outgoing task, incoming task, `recv_task`, `send_task`, `handle_socket` and forwarder): tokio polls every woken
task, and its `RwLock` queues waiters, so readers and writers both get in. The kernel is fair in one respect: when
it has written to a peer that is gone, a reset or a timeout tells it in the end (`ResetArrives`). The anti-entropy ticker is not part of
`FairSpec`: `PushDelivers` does without it, `Converges` and `ItemsConverge` assume it (`Ticks`). A stopped process is started again
(`StartPeer`), as README.md assumes, and a process that is starting goes on. No command, merge input, break or
stop is fair. Convergence is claimed under `BrowsersRest`: browsers eventually stop sending. This is needed.
Without it a flood of commands, even without effect, keeps every receiver lagging, and the task that lags
drops its connection each time.

## Proofs

* **VectorClockProofs**, **TodoStateProofs**: what each operation returns and preserves: entries after
  increment, observe and merge, `partial_cmp` as the pointwise order, and for each operation of `TodoState` its
  type, its effect on well-formedness, on ids and on texts. `MergeLaws`: merge of to-do states is idempotent and
  associative, and commutative where both sides are well formed and agree on the texts of common items. Equal here means the
  same items, flags, texts and tombstones, and clocks that compare `Equal`.
* **TodoSyncProofs** (any peers, links, capacities and bounds): `TypeCorrect`, `WellFormedAlways` and
  `NothingUndoneProved` hold with restarts, breaks and lags. `IdsStayBelowCounter` and `TextsAgreeUntilStop` hold
  as long as no process has ended, `TextsImmutableProved` and `AddIsShownProved` where none ever ends: `restart_diverges`
  shows how ids come back otherwise. The inductive invariant `ItemsInv` joins types, well-formedness,
  "every id in use is at most its peer's counter" and "texts agree". The last one is not inductive alone: an
  `add` keeps texts agreeing only because its id is new to every replica and every frame in flight, and that
  takes the bound on ids over *all* of them, which in turn fails when a counter restarts.
  `MergesCommuteUntilStop` joins it with `MergeLaws`: of any two copies in the cluster it does not matter which is
  merged into which.
* **TodoClockProofs**: `ClocksCover`, that a clock below or equal to another's stands for no more items and
  removals. It is not inductive: it says nothing of the count a command is about to make. `ClockInvariant` adds
  that nobody is ahead of a peer in the peer's own entry (`OwnEntries`), and that each item or removal belongs
  to one count of one entry that no state, wherever it is, has reached without it (`Attributed`). A merge keeps both because an
  entry of the result is an entry of one side; a command because its count is new everywhere.
  `ChangesUnderWay` follows each link through connect, read, send and `select!`: a task that reads later reads the
  newest entry, a snapshot that has become stale did so by a command whose handler has yet to notify, and a
  notification raises `pending` of every link. It needs `OwnEntries` too: a peer that is no further behind in the
  entry of the link's owner is owed nothing.
* **SharedListProofs**: `ClusterSharesOneList`, the refinement: the initial states are mapped to `Init`, and
  every step of the cluster to `Create`, `Remove`, `Toggle`, `Publish`, `Learn` or a stutter. It stands on
  `ItemsInv`: `Create` asks for an unused id, and `Learn` for texts that agree, since `merge` keeps its own.
* **CausalityProofs** (any replicas, events and states sent): `CausalInvariant` says that a clock stands for
  exactly the events known with it, that knowledge is closed under causal past, and that an event's number is
  at most its replica's own entry (so a new event is new). From it `ClocksTellCausality` follows: `Less`, `None`
  and `Equal` mean happened-before, concurrent and the same event.
* **CountersProofs**: `CountersInvariant`: each count is the sum of what its replica's known events add, as long as
  `u64` holds it, and a set holds what they inserted. A merge keeps this because of two sets of known events one holds the
  other's events of each replica (`NestedEvents`, from `CausalInvariant`: both are all up to a clock's entry), so
  the larger of two counts is the sum over the union. `StrongConvergence` follows: clocks compare equal exactly
  where the same events are known, and then the values are equal. So does `ValuesCountEvents`: the sum of a
  counter's map is the sum over all events (`SumOfClasses`). What the library's fold adds up to is proved first:
  it is a sum over any finite set, whatever order `CHOOSE` takes the elements in (`SumRemove`). That is an induction, and it is done
  by contradiction, with a smallest set for which the claim fails (`SmallestSet`).
* **TodoServerProofs** (any pages, capacities and frames): `ServerTyped`, with the order in which a connection is
  greeted as strengthening (nothing is on its way to a page before its greeting), and `ClicksFound`: the list and
  the own clock entry only grow, so whatever was true of a snapshot or a message when it was made stays true
  on its way, for each queue, task and page it passes. `NewestStaysUnderWay` needs one thing more (`QuietInv`,
  `NewsInv`): a task that cannot broadcast never stands at a broadcast, so no older snapshot comes after a newer one.

They assume what the modules state as `ASSUME`: bounds are naturals, links connect peers, capacities are
at least one, every peer has a replica id. `ClocksCover` and `ChangesUnderWay` assume further that the replica ids are
distinct (`DistinctReplicas`) and `ClocksCover`, as `TextsImmutableProved`, `AddIsShownProved` and `ClusterSharesOneList` do, that no process ends (`NeverStops`).

Only model-checked: all liveness (`Converges`, `ItemsConverge`, `PushDelivers`, `PagesCatchUp`, `PagesSeeOperations`,
`PendingClears`, `ListedPeersLinked`), which is out of the prover's reach. The invariants `ChangeUnderWay` and
`NewestUnderWay` are the safety half of `PushDelivers` and `PagesCatchUp`: what is proved of them for every instance is that
nothing is lost, what TLC adds on the small one is that it arrives. Every invariant and action property of the runs has a
theorem. Nothing that is proved about uses a recursive operator.

## Findings

Each is a run that violates what the repository says; `PROJECT.json` quotes it. A restarted process reuses todo
ids (`state.rs:132`): replicas may keep different texts under one id, and an add may overwrite the text of an item
that came back. A state beyond the codec's frame is never synced, and tombstones make it only grow
(`lib.rs:276`). An entry of `SYNC_PEERS` with a host name is dropped without a word (`main.rs:91`), although the README
asks for `host:port`. Broadcasts may be reordered (`server.rs:131`) or end with the forwarder (`main.rs:51`).

Met while modelling, without a run: `completed` is not monotone under `toggle` (`state.rs:84`); it converges
where changes travel both ways, but what an uncheck gives depends on what is in flight, and two users who both
click an open item leave it open. A tab that edits and closes, or lags behind its own broadcasts and so loses
its connection, has its `recv_task` aborted, and the other tabs may keep the list from before its last edit
(`server.rs:71`, `server.rs:92`). Peers without digits in `PEER_ID` share a clock entry (`main.rs:83`). A `PORT`
above 64535 overflows even when `SYNC_PORT` is set (`main.rs:85`). The pending badge is cleared by the snapshot of
another's change, so it may fall too early (`app.js:184`); on a page that stays open it never stays up
(`PendingClears`).

## Not modelled

* `Dot` and what only reads and decides nothing (`is_empty`, `len`, `iter` of the types): nothing uses them.
* Of the page: rendering, its log, status text and colours, the normalisation of a snapshot's fields. They keep
  no state that comes back to the server. Static files are served as they are.
* The `Hello` frame (logged only), `accept` errors (logged, the loop goes on), `RUST_LOG` and `STATIC_DIR`, port 0, and
  a text for a port or an id that does not parse other than as "not set".
* The guards as queues: no task awaits while it holds one, so a guarded section is one step and cannot be part
  of a circular wait. What would happen otherwise is a mutant of `both_ways`.
* A page that reconnects to a process that was restarted: it still shows the old list, and a click may name an id the
  new process does not know. TodoServer is one life of a process.
* Durations: the ticker's interval and the reconnect delay are steps that may be taken at any time.
* TodoServer inside TodoSync: they share `TodoState` and meet at two points only, the frames a process merges
  and the notification after an apply; each is the other's input. Checking the product of both state spaces
  would multiply them without a new interaction.
