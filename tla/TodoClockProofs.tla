-------------------------- MODULE TodoClockProofs ---------------------------
(***************************************************************************)
(* Proof that the clocks of the cluster of TodoSync cover its updates: a   *)
(* state whose clock is below or equal to another's holds no item and no   *)
(* removal the other lacks.                                                *)
(***************************************************************************)
EXTENDS TodoSyncProofs

(* Every peer increments an entry of its own. *)
DistinctReplicas == \A n, m \in Peer : ReplicaOf[n] = ReplicaOf[m] => n = m

Updates(s) == (s.added \X {"item"}) \cup (s.removed \X {"removal"})

Entry(s, r) == Get(s.clock, r)

(* No state that is known anywhere is ahead of a peer in the peer's own    *)
(* entry.                                                                  *)
OwnEntries ==
  \A t \in KnownStates, n \in Peer : Entry(t, ReplicaOf[n]) <= Entry(state[n], ReplicaOf[n])

(* Every update belongs to one count of one entry: a state that has come   *)
(* that far in the entry holds the update.                                 *)
Attributed ==
  \A s \in KnownStates : \A u \in Updates(s) :
    \E r \in ReplicaId : \E k \in 1 .. Entry(s, r) :
      \A t \in KnownStates : k <= Entry(t, r) => u \in Updates(t)

ClockInv ==
  /\ TypeOK
  /\ NoStops => OwnEntries /\ Attributed

-----------------------------------------------------------------------------
(* The updates and the entries of a state that is made by a merge. *)
LEMMA EntryNat == ASSUME NEW s \in TodoStates, NEW r PROVE Entry(s, r) \in Nat
  BY Fields, GetType, CounterAssumption DEF Entry

LEMMA NothingYet == ASSUME NEW r PROVE Entry(NewState, r) = 0 /\ Updates(NewState) = {}
  BY DEF Entry, Updates, NewState, NewClock, EmptyMap, Get, GetOr

LEMMA MergeEntries ==
  ASSUME NEW s \in TodoStates, NEW o \in TodoStates, NEW r
  PROVE  Entry(Merge(s, o), r) = Larger(Entry(s, r), Entry(o, r))
<1>1. Merge(s, o).clock = ClockMerge(s.clock, o.clock)
  BY DEF Merge
<1> QED
  BY <1>1, Fields, GetClockMerge, CounterAssumption DEF Entry

LEMMA MergeUpdates ==
  ASSUME NEW s, NEW o
  PROVE  Updates(Merge(s, o)) = Updates(s) \cup Updates(o)
<1>1. /\ Merge(s, o).added = s.added \cup o.added
      /\ Merge(s, o).removed = s.removed \cup o.removed
  BY DEF Merge
<1> QED
  BY <1>1 DEF Updates

LEMMA CountedEntries ==
  ASSUME TypeOK, NEW n \in Peer, Counted(n), NEW r
  PROVE  /\ Entry(state'[n], r) = IF r = ReplicaOf[n] THEN Entry(state[n], r) + 1
                                                      ELSE Entry(state[n], r)
         /\ Updates(state[n]) \subseteq Updates(state'[n])
<1>1. state[n] \in TodoStates
  BY DEF TypeOK, Sync!SyncTypeOK
<1>2. Updates(state[n]) \subseteq Updates(state'[n])
  BY DEF Counted, Updates
<1> QED
  BY <1>1, <1>2, Fields, GetIncrement, CounterAssumption DEF Counted, Entry

LEMMA NextTyped ==
  ASSUME TypeOK, TypeOK', [Next]_vars, NEW s \in KnownStates'
  PROVE  s \in TodoStates
<1>1. \A n \in Peer : state'[n] \in TodoStates
  BY DEF TypeOK, Sync!SyncTypeOK
<1> QED
  BY <1>1, KnownStep, KnownTyped, NewStateType, MergeEffect DEF Made

(* Without restarts no peer's entries go down. *)
LEMMA EntriesGrow ==
  ASSUME TypeOK, NoStops', [Next]_vars, NEW n \in Peer, NEW r
  PROVE  Entry(state[n], r) <= Entry(state'[n], r)
<1>1. state[n] \in TodoStates /\ Entry(state[n], r) \in Nat
  BY EntryNat DEF TypeOK, Sync!SyncTypeOK
<1>2. CASE Command(n)
  BY <1>1, <1>2, CommandCounts, CountedEntries
<1>3. CASE state'[n] = state[n]
  BY <1>1, <1>3
<1>4. ASSUME NEW o \in KnownStates, state'[n] = Merge(state[n], o)
      PROVE  Entry(state[n], r) <= Entry(state'[n], r)
  <2>1. o \in TodoStates /\ Entry(o, r) \in Nat
    BY KnownTyped, EntryNat
  <2> QED
    BY <1>1, <1>4, <2>1, MergeEntries DEF Larger
<1> QED
  BY <1>2, <1>3, <1>4, StateStep

-----------------------------------------------------------------------------
(* The command of peer n that counts k in its own entry, and makes s. *)
CountsTo(n, s, r, k) ==
  /\ Command(n) /\ Counted(n) /\ s = state'[n]
  /\ r = ReplicaOf[n] /\ k = Entry(state[n], r) + 1

(* How a state has come to a count of an entry: a known one was there      *)
(* before, or the command counts it.                                       *)
LEMMA EntryOrigin ==
  ASSUME TypeOK, [Next]_vars, NEW t \in KnownStates', NEW r,
         NEW k \in Nat, 1 <= k, k <= Entry(t, r)
  PROVE  \/ \E w \in KnownStates : k <= Entry(w, r) /\ Updates(w) \subseteq Updates(t)
         \/ \E n \in Peer : CountsTo(n, t, r, k)
<1>0. KnownStates \subseteq TodoStates
  BY KnownTyped
<1>1. CASE t \in KnownStates
  BY <1>1
<1>2. CASE t = NewState
  BY <1>2, NothingYet
<1>3. ASSUME NEW v \in KnownStates, NEW w \in KnownStates, t = Merge(v, w)
      PROVE  \E x \in KnownStates : k <= Entry(x, r) /\ Updates(x) \subseteq Updates(t)
  <2>1. k <= Entry(v, r) \/ k <= Entry(w, r)
    BY <1>0, <1>3, MergeEntries DEF Larger
  <2> QED
    BY <1>3, <2>1, MergeUpdates
<1>4. ASSUME NEW n \in Peer, Command(n), t = state'[n]
      PROVE  \/ k <= Entry(state[n], r) /\ Updates(state[n]) \subseteq Updates(t)
             \/ CountsTo(n, t, r, k)
  <2>1. Entry(state[n], r) \in Nat
    BY EntryNat DEF TypeOK, Sync!SyncTypeOK
  <2>2. CASE t = state[n]
    BY <2>2
  <2>3. CASE Counted(n)
    BY <1>4, <2>1, <2>3, CountedEntries DEF CountsTo
  <2> QED
    BY <1>4, <2>2, <2>3, CommandCounts
<1> QED
  BY <1>1, <1>2, <1>3, <1>4, KnownStep, KnownWhere DEF Made

(* Where an update of a state comes from: a known state that is not ahead  *)
(* of it, or the command that counts it.                                   *)
LEMMA UpdateOrigin ==
  ASSUME TypeOK, [Next]_vars, NEW s \in KnownStates', NEW u \in Updates(s)
  PROVE  \/ \E v \in KnownStates : u \in Updates(v) /\ \A r : Entry(v, r) <= Entry(s, r)
         \/ \E n \in Peer : CountsTo(n, s, ReplicaOf[n], Entry(s, ReplicaOf[n]))
<1>0. KnownStates \subseteq TodoStates /\ \A v \in KnownStates : \A r : Entry(v, r) \in Nat
  BY KnownTyped, EntryNat
<1>1. CASE s \in KnownStates
  BY <1>0, <1>1
<1>2. CASE s = NewState
  BY <1>2, NothingYet
<1>3. ASSUME NEW v \in KnownStates, NEW w \in KnownStates, s = Merge(v, w)
      PROVE  \E x \in KnownStates : u \in Updates(x) /\ \A r : Entry(x, r) <= Entry(s, r)
  <2>1. u \in Updates(v) \/ u \in Updates(w)
    BY <1>3, MergeUpdates
  <2>2. \A r : Entry(v, r) <= Entry(s, r) /\ Entry(w, r) <= Entry(s, r)
    BY <1>0, <1>3, MergeEntries DEF Larger
  <2> QED
    BY <2>1, <2>2
<1>4. ASSUME NEW n \in Peer, Command(n), s = state'[n]
      PROVE  \/ s \in KnownStates
             \/ CountsTo(n, s, ReplicaOf[n], Entry(s, ReplicaOf[n]))
  BY <1>4, CommandCounts, CountedEntries, KnownWhere DEF CountsTo
<1> QED
  BY <1>1, <1>2, <1>3, <1>4, KnownStep DEF Made

-----------------------------------------------------------------------------
LEMMA OwnEntriesStep ==
  ASSUME DistinctReplicas, TypeOK, OwnEntries, NoStops', [Next]_vars,
         TypeOK', NEW t \in KnownStates', NEW n \in Peer
  PROVE  Entry(t, ReplicaOf[n]) <= Entry(state'[n], ReplicaOf[n])
<1> DEFINE r == ReplicaOf[n]
<1>1. /\ t \in TodoStates /\ Entry(t, r) \in Nat
      /\ state[n] \in TodoStates /\ Entry(state[n], r) \in Nat
      /\ state'[n] \in TodoStates /\ Entry(state'[n], r) \in Nat
  <2>1. state[n] \in TodoStates /\ state'[n] \in TodoStates
    BY DEF TypeOK, Sync!SyncTypeOK
  <2>2. t \in TodoStates
    BY NextTyped
  <2> QED
    BY <2>1, <2>2, EntryNat
<1>2. CASE Entry(t, r) = 0
  BY <1>1, <1>2
<1>3. ASSUME NEW w \in KnownStates, Entry(t, r) <= Entry(w, r)
      PROVE  Entry(t, r) <= Entry(state'[n], r)
  <2>1. Entry(w, r) <= Entry(state[n], r) /\ Entry(state[n], r) <= Entry(state'[n], r)
    BY EntriesGrow DEF OwnEntries
  <2>2. Entry(w, r) \in Nat
    BY KnownTyped, EntryNat
  <2> QED
    BY <1>1, <1>3, <2>1, <2>2
<1>4. ASSUME NEW m \in Peer, CountsTo(m, t, r, Entry(t, r))
      PROVE  Entry(t, r) <= Entry(state'[n], r)
  <2>1. m = n /\ t = state'[n]
    BY <1>4 DEF CountsTo, DistinctReplicas
  <2> QED
    BY <1>1, <2>1
<1> QED
  BY <1>1, <1>2, <1>3, <1>4, EntryOrigin

LEMMA AttributedStep ==
  ASSUME DistinctReplicas, TypeOK, OwnEntries, Attributed, NoStops', [Next]_vars,
         TypeOK', NEW s \in KnownStates', NEW u \in Updates(s)
  PROVE  \E r \in ReplicaId : \E k \in 1 .. Entry(s, r) :
           \A t \in KnownStates' : k <= Entry(t, r) => u \in Updates(t)
<1>0. \A v \in KnownStates : \A r : Entry(v, r) \in Nat
  BY KnownTyped, EntryNat
<1>1. ASSUME NEW v \in KnownStates, u \in Updates(v),
             \A x : Entry(v, x) <= Entry(s, x)
      PROVE  \E r \in ReplicaId : \E k \in 1 .. Entry(s, r) :
               \A t \in KnownStates' : k <= Entry(t, r) => u \in Updates(t)
  <2>0. PICK r \in ReplicaId : \E k \in 1 .. Entry(v, r) :
          \A t \in KnownStates : k <= Entry(t, r) => u \in Updates(t)
    BY <1>1 DEF Attributed
  <2>1. PICK k \in 1 .. Entry(v, r) :
          \A t \in KnownStates : k <= Entry(t, r) => u \in Updates(t)
    BY <2>0
  <2>2. k \in Nat /\ 1 <= k /\ k <= Entry(v, r)
    BY <1>0, <2>1
  <2>3. ASSUME NEW t \in KnownStates', k <= Entry(t, r) PROVE u \in Updates(t)
    <3>1. ASSUME NEW n \in Peer, CountsTo(n, t, r, k) PROVE FALSE
      <4>1. Entry(v, r) <= Entry(state[n], r) /\ k = Entry(state[n], r) + 1
        BY <3>1 DEF OwnEntries, CountsTo
      <4> QED
        BY <1>0, <2>2, <4>1, KnownWhere
    <3> QED
      BY <2>1, <2>2, <2>3, <3>1, EntryOrigin
  <2>4. Entry(s, r) \in Nat /\ k <= Entry(s, r)
    BY <1>0, <1>1, <2>2, NextTyped, EntryNat
  <2>5. k \in 1 .. Entry(s, r)
    BY <2>2, <2>4
  <2> QED
    BY <2>3, <2>5
<1>2. ASSUME NEW n \in Peer, CountsTo(n, s, ReplicaOf[n], Entry(s, ReplicaOf[n]))
      PROVE  \E r \in ReplicaId : \E k \in 1 .. Entry(s, r) :
               \A t \in KnownStates' : k <= Entry(t, r) => u \in Updates(t)
  <2> DEFINE r == ReplicaOf[n]
             k == Entry(s, r)
  <2>1. /\ r \in ReplicaId /\ k = Entry(state[n], r) + 1 /\ s = state'[n]
        /\ Entry(state[n], r) \in Nat
    BY <1>0, <1>2, ReplicaOfAssumption, KnownWhere DEF CountsTo
  <2>2. k \in Nat /\ 1 <= k /\ k \in 1 .. Entry(s, r)
    BY <2>1
  <2>3. ASSUME NEW t \in KnownStates', k <= Entry(t, r) PROVE u \in Updates(t)
    <3>1. ASSUME NEW w \in KnownStates, k <= Entry(w, r) PROVE FALSE
      BY <1>0, <2>1, <2>2, <3>1 DEF OwnEntries
    <3>2. ASSUME NEW m \in Peer, CountsTo(m, t, r, k) PROVE t = s
      BY <2>1, <3>2 DEF CountsTo, DistinctReplicas
    <3> QED
      BY <2>2, <2>3, <3>1, <3>2, EntryOrigin
  <2> QED
    BY <2>1, <2>2, <2>3
<1> QED
  BY <1>1, <1>2, UpdateOrigin

LEMMA ClockStep == ASSUME DistinctReplicas, ClockInv, [Next]_vars PROVE ClockInv'
<1>1. TypeOK /\ TypeOK'
  BY TypeStep DEF ClockInv
<1>2. ASSUME NoStops' PROVE NoStops /\ OwnEntries /\ Attributed
  BY <1>1, <1>2, StillNoStops DEF ClockInv
<1>3. (NoStops => OwnEntries)'
  BY <1>1, <1>2, OwnEntriesStep DEF OwnEntries
<1>4. (NoStops => Attributed)'
  BY <1>1, <1>2, AttributedStep DEF Attributed
<1> QED
  BY <1>1, <1>3, <1>4 DEF ClockInv

LEMMA ClockInit == ASSUME Init PROVE ClockInv
<1>1. \A s \in KnownStates : s = NewState
  BY SyncBoundAssumption DEF Init, Sync!SyncInit, KnownStates, InTransit, Frames
<1>2. OwnEntries
  <2>1. \A n \in Peer : state[n] = NewState
    BY <1>1, KnownWhere
  <2> QED
    BY <1>1, <2>1, NothingYet DEF OwnEntries
<1>3. Attributed
  BY <1>1, NothingYet DEF Attributed
<1> QED
  BY <1>2, <1>3, TypeInit DEF ClockInv

THEOREM ClockInvariant == ASSUME DistinctReplicas PROVE Spec => []ClockInv
<1>1. Init => ClockInv
  BY ClockInit
<1>2. ClockInv /\ [Next]_vars => ClockInv'
  BY ClockStep
<1> QED
  BY <1>1, <1>2, PTL DEF Spec

(* A clock below or equal to another's reaches every count the other has   *)
(* not passed, so it holds every update such a count stands for.           *)
LEMMA AttributionCovers == ASSUME TypeOK, Attributed PROVE ClockCoversUpdates
<1> SUFFICES ASSUME NEW s \in KnownStates, NEW t \in KnownStates,
                    PartialCmp(s.clock, t.clock) \in {"Less", "Equal"}
             PROVE  s.added \subseteq t.added /\ s.removed \subseteq t.removed
  BY DEF ClockCoversUpdates
<1>1. /\ s \in TodoStates /\ s.clock \in Maps(ReplicaId, 0 .. MaxCount)
      /\ t \in TodoStates /\ t.clock \in Maps(ReplicaId, 0 .. MaxCount)
  BY KnownTyped, Fields
<1>2. NotAbove(s.clock, t.clock)
  BY <1>1, ComparesEntries, CounterAssumption DEF HappensBefore
<1>3. \A r : Entry(s, r) <= Entry(t, r)
  <2>1. \A r : Entry(s, r) \in Nat /\ Entry(t, r) \in Nat
    BY <1>1, EntryNat
  <2>2. \A r : r \notin DOMAIN s.clock => Entry(s, r) = 0
    BY DEF Entry, Get, GetOr
  <2> QED
    BY <1>2, <2>1, <2>2 DEF NotAbove, Entry
<1>4. Updates(s) \subseteq Updates(t)
  <2> SUFFICES ASSUME NEW u \in Updates(s) PROVE u \in Updates(t)
    OBVIOUS
  <2>0. PICK r \in ReplicaId : \E k \in 1 .. Entry(s, r) :
          \A v \in KnownStates : k <= Entry(v, r) => u \in Updates(v)
    BY DEF Attributed
  <2>1. PICK k \in 1 .. Entry(s, r) :
          \A v \in KnownStates : k <= Entry(v, r) => u \in Updates(v)
    BY <2>0
  <2>2. Entry(s, r) \in Nat /\ Entry(t, r) \in Nat
    BY <1>1, EntryNat
  <2>3. k <= Entry(t, r)
    BY <1>3, <2>1, <2>2
  <2> QED
    BY <2>1, <2>3
<1>5. \A id : id \in s.added => <<id, "item">> \in Updates(t)
  BY <1>4 DEF Updates
<1>6. \A id : id \in s.removed => <<id, "removal">> \in Updates(t)
  BY <1>4 DEF Updates
<1> QED
  BY <1>5, <1>6 DEF Updates

(* As long as no process has ended, and if no two peers share a replica    *)
(* id, a clock that is not above another says that no update is missing    *)
(* there: commands of unsynchronised replicas, clones sent late and frames *)
(* still on the way included.                                              *)
THEOREM ClocksCoverUntilStop ==
  ASSUME DistinctReplicas
  PROVE  Spec => [](NoStops => ClockCoversUpdates)
<1>1. ClockInv => (NoStops => ClockCoversUpdates)
  BY AttributionCovers DEF ClockInv
<1> QED
  BY <1>1, ClockInvariant, PTL

(* Where no process ends, in every state. *)
THEOREM ClocksCover ==
  ASSUME DistinctReplicas, NeverStops
  PROVE  Spec => []ClockCoversUpdates
  BY ClocksCoverUntilStop, NeverStopsHolds, PTL

-----------------------------------------------------------------------------
(* As long as nothing broke, a connection that was made is open.           *)
Wired == \A l \in Link : tcp[l] \in {"closed", "open"}

WayInv == NoStops /\ breaks = 0 => Wired /\ \A l \in Link : UnderWay(l)

(* Count v of entry r has reached l's peer or is on its way there.         *)
Coming(l, r, v) ==
  \/ v <= Entry(state[l[2]], r)
  \/ \E c \in Slot : \E i \in 1 .. Len(inbox[l][c]) : v <= Entry(inbox[l][c][i], r)
  \/ task[l] \in {"connecting", "reading"}
  \/ task[l] = "sending" /\ v <= Entry(snapshot[l], r)
  \/ pending[l] > 0
  \/ applied[l[1]] > 0

LEMMA UnderWayComing ==
  ASSUME NEW l \in Link, UnderWay(l)
  PROVE  Coming(l, ReplicaOf[l[1]], Entry(state[l[1]], ReplicaOf[l[1]]))
  BY DEF UnderWay, Coming, Reaches, Frames, Entry

LEMMA ComingReaches ==
  ASSUME NEW l \in Link, NEW v, v = Entry(state'[l[1]], ReplicaOf[l[1]]),
         Coming(l, ReplicaOf[l[1]], v)'
  PROVE  UnderWay(l)'
<1> DEFINE n == l[1]
           r == ReplicaOf[n]
<1>1. \A s : Reaches(s, n)' <=> v <= Entry(s, r)
  BY DEF Reaches, Entry
<1>2. /\ Reaches(state[l[2]], n)' <=> v <= Entry(state'[l[2]], r)
      /\ Reaches(snapshot[l], n)' <=> v <= Entry(snapshot'[l], r)
  BY DEF Reaches, Entry
<1>3. ASSUME NEW c \in Slot, NEW i \in 1 .. Len(inbox'[l][c]), v <= Entry(inbox'[l][c][i], r)
      PROVE  \E s \in Frames(l)' : Reaches(s, n)'
  BY <1>1, <1>3 DEF Frames
<1> QED
  BY <1>2, <1>3 DEF UnderWay, Coming

(* What a step of another task leaves of it. *)
LEMMA ComingKept ==
  ASSUME NEW l \in Link, NEW r, NEW v, Coming(l, r, v),
         v <= Entry(state[l[2]], r) => v <= Entry(state'[l[2]], r),
         inbox'[l] = inbox[l], task'[l] = task[l], snapshot'[l] = snapshot[l],
         pending'[l] = pending[l], applied'[l[1]] = applied[l[1]]
  PROVE  Coming(l, r, v)'
  BY DEF Coming

(* A step of the link itself hands the count on. *)
LEMMA ComingLink ==
  ASSUME TypeOK, TypeOK', NoStops', [Next]_vars, NEW l \in Link, Wired,
         SyncStep(l), breaks' = breaks, NEW r, NEW v \in Nat,
         v <= Entry(state[l[1]], r), Coming(l, r, v)
  PROVE  Coming(l, r, v)' /\ tcp'[l] \in {"closed", "open"}
<1> DEFINE Goal == Coming(l, r, v)' /\ tcp'[l] \in {"closed", "open"}
<1>1. /\ l[1] \in Peer /\ l[2] \in Peer
      /\ state \in [Peer -> TodoStates] /\ task \in [Link -> Sync!TaskStates]
      /\ snapshot \in [Link -> TodoStates] /\ tcp \in [Link -> Sync!TcpStates]
      /\ inbox \in [Link -> [Slot -> Seq(TodoStates)]]
      /\ pending \in [Link -> 0 .. ChannelCap + 1] /\ current \in [Link -> Slot]
      /\ breaks \in Nat
  <2>1. l[1] \in Peer /\ l[2] \in Peer
    BY LinkAssumption
  <2>2. breaks \in Nat
    BY SyncBoundAssumption DEF TypeOK, Sync!SyncTypeOK
  <2> QED
    BY <2>1, <2>2 DEF TypeOK, Sync!SyncTypeOK
<1>2. Sync!LinkStep(l) /\ applied' = applied /\ tcp[l] \in {"closed", "open"}
  BY DEF SyncStep, Wired
<1>3. v <= Entry(state[l[2]], r) => v <= Entry(state'[l[2]], r)
  <2>1. Entry(state[l[2]], r) <= Entry(state'[l[2]], r)
    BY <1>1, EntriesGrow
  <2>2. Entry(state[l[2]], r) \in Nat /\ Entry(state'[l[2]], r) \in Nat
    BY <1>1, EntryNat DEF TypeOK, Sync!SyncTypeOK
  <2> QED
    BY <2>1, <2>2
<1>4. CASE task'[l] \in {"connecting", "reading"} /\ tcp'[l] \in {"closed", "open"}
  BY <1>4 DEF Coming
<1>5. ASSUME Sync!Connect(l) PROVE Goal
  BY <1>1, <1>4, <1>5 DEF Sync!Connect
<1>6. ASSUME Sync!SendError(l) \/ Sync!RecvLagged(l) PROVE Goal
  <2>1. task' = [task EXCEPT ![l] = "connecting"] /\ tcp' = [tcp EXCEPT ![l] = "closed"]
    BY <1>6 DEF Sync!SendError, Sync!RecvLagged, Sync!HangUp
  <2> QED
    BY <1>1, <1>4, <2>1
<1>7. ASSUME Sync!RecvChange(l) \/ Sync!Tick(l) PROVE Goal
  BY <1>1, <1>2, <1>4, <1>7 DEF Sync!RecvChange, Sync!Tick
<1>8. ASSUME Sync!ReadState(l) PROVE Goal
  <2>1. task'[l] = "sending" /\ snapshot'[l] = state[l[1]] /\ tcp' = tcp
    BY <1>1, <1>8 DEF Sync!ReadState
  <2> QED
    BY <1>2, <2>1 DEF Coming
<1>9. ASSUME Sync!SendFrame(l) PROVE Goal
  <2> DEFINE c == current[l]
             old == inbox[l][c]
             new == Append(old, snapshot[l])
  <2>1. /\ inbox' = [inbox EXCEPT ![l][c] = new] /\ task[l] = "sending"
        /\ UNCHANGED <<state, pending, tcp>>
    BY <1>9 DEF Sync!SendFrame
  <2>2. /\ c \in Slot /\ inbox'[l][c] = new
        /\ \A d \in Slot : d # c => inbox'[l][d] = inbox[l][d]
    BY <1>1, <2>1
  <2>3. /\ Len(new) = Len(old) + 1 /\ Len(old) \in Nat
        /\ new[Len(old) + 1] = snapshot[l]
        /\ \A i \in 1 .. Len(old) : new[i] = old[i] /\ i \in 1 .. Len(new)
    <3>1. old \in Seq(TodoStates) /\ snapshot[l] \in TodoStates
      BY <1>1
    <3> HIDE DEF old
    <3> QED
      BY <3>1
  <2> HIDE DEF c, old, new
  <2>4. CASE v <= Entry(snapshot[l], r)
    <3>1. Len(old) + 1 \in 1 .. Len(new)
      BY <2>3
    <3>2. \E i \in 1 .. Len(inbox'[l][c]) : v <= Entry(inbox'[l][c][i], r)
      BY <2>2, <2>3, <2>4, <3>1
    <3> QED
      BY <1>2, <2>1, <2>2, <3>2 DEF Coming
  <2>5. CASE \E d \in Slot : \E i \in 1 .. Len(inbox[l][d]) : v <= Entry(inbox[l][d][i], r)
    <3>1. PICK d \in Slot : \E i \in 1 .. Len(inbox[l][d]) : v <= Entry(inbox[l][d][i], r)
      BY <2>5
    <3>2. \E i \in 1 .. Len(inbox'[l][d]) : v <= Entry(inbox'[l][d][i], r)
      <4>1. CASE d = c
        BY <2>2, <2>3, <3>1, <4>1 DEF old
      <4>2. CASE d # c
        BY <2>2, <3>1, <4>2
      <4> QED
        BY <4>1, <4>2
    <3> QED
      BY <1>2, <2>1, <3>2 DEF Coming
  <2>6. CASE v <= Entry(state[l[2]], r) \/ pending[l] > 0 \/ applied[l[1]] > 0
    BY <1>2, <2>1, <2>6 DEF Coming
  <2> QED
    BY <2>1, <2>4, <2>5, <2>6 DEF Coming
<1>10. ASSUME Sync!SendIntoReset(l) \/ Sync!ResetArrives(l) PROVE Goal
  BY <1>2, <1>10 DEF Sync!SendIntoReset, Sync!ResetArrives
<1>11. ASSUME NEW c \in Slot, Sync!Deliver(l, c) PROVE Goal
  <2> DEFINE seq == inbox[l][c]
  <2>1. /\ state' = [state EXCEPT ![l[2]] = Merge(state[l[2]], Head(seq))]
        /\ inbox' = [inbox EXCEPT ![l][c] = Tail(seq)]
        /\ UNCHANGED <<task, snapshot, pending, tcp>>
        /\ seq # <<>> /\ seq \in Seq(TodoStates)
    BY <1>1, <1>11 DEF Sync!Deliver
  <2>2. /\ state'[l[2]] = Merge(state[l[2]], Head(seq))
        /\ inbox'[l][c] = Tail(seq)
        /\ \A d \in Slot : d # c => inbox'[l][d] = inbox[l][d]
    BY <1>1, <2>1
  <2>3. /\ Head(seq) = seq[1] /\ Head(seq) \in TodoStates
        /\ \A i \in 1 .. Len(seq) :
             i # 1 => i - 1 \in 1 .. Len(Tail(seq)) /\ Tail(seq)[i - 1] = seq[i]
    <3> HIDE DEF seq
    <3> QED
      BY <2>1
  <2> HIDE DEF seq
  <2>4. CASE \E d \in Slot : \E i \in 1 .. Len(inbox[l][d]) : v <= Entry(inbox[l][d][i], r)
    <3>1. PICK d \in Slot : \E i \in 1 .. Len(inbox[l][d]) : v <= Entry(inbox[l][d][i], r)
      BY <2>4
    <3>2. PICK i \in 1 .. Len(inbox[l][d]) : v <= Entry(inbox[l][d][i], r)
      BY <3>1
    <3>3. CASE d = c /\ i = 1
      <4>1. v <= Entry(Head(seq), r)
        BY <2>3, <3>2, <3>3 DEF seq
      <4>2. Entry(Head(seq), r) \in Nat /\ Entry(state[l[2]], r) \in Nat
        BY <1>1, <2>3, EntryNat
      <4>3. v <= Entry(state'[l[2]], r)
        BY <1>1, <2>2, <2>3, <4>1, <4>2, MergeEntries DEF Larger
      <4> QED
        BY <1>2, <2>1, <4>3 DEF Coming
    <3>4. CASE d = c /\ i # 1
      <4>1. i - 1 \in 1 .. Len(inbox'[l][d]) /\ v <= Entry(inbox'[l][d][i - 1], r)
        BY <2>2, <2>3, <3>2, <3>4 DEF seq
      <4> QED
        BY <1>2, <2>1, <4>1 DEF Coming
    <3>5. CASE d # c
      <4>1. i \in 1 .. Len(inbox'[l][d]) /\ v <= Entry(inbox'[l][d][i], r)
        BY <2>2, <3>2, <3>5
      <4> QED
        BY <1>2, <2>1, <4>1 DEF Coming
    <3> QED
      BY <3>3, <3>4, <3>5
  <2> QED
    BY <1>2, <1>3, <2>1, <2>4 DEF Coming
<1>12. ASSUME Sync!Break(l) PROVE FALSE
  BY <1>1, <1>12 DEF Sync!Break
<1> QED
  BY <1>2, <1>5, <1>6, <1>7, <1>8, <1>9, <1>10, <1>11, <1>12 DEF Sync!LinkStep

(* A step of one link leaves the others alone. *)
LEMMA OtherLinks ==
  ASSUME TypeOK, NEW m \in Link, Sync!LinkStep(m), NEW l \in Link, l # m
  PROVE  /\ inbox'[l] = inbox[l] /\ task'[l] = task[l] /\ snapshot'[l] = snapshot[l]
         /\ pending'[l] = pending[l] /\ tcp'[l] = tcp[l]
<1>1. /\ task \in [Link -> Sync!TaskStates] /\ snapshot \in [Link -> TodoStates]
      /\ tcp \in [Link -> Sync!TcpStates] /\ pending \in [Link -> 0 .. ChannelCap + 1]
      /\ inbox \in [Link -> [Slot -> Seq(TodoStates)]]
  BY DEF TypeOK, Sync!SyncTypeOK
<1>2. ASSUME Sync!HangUp(m)
      PROVE  /\ inbox'[l] = inbox[l] /\ task'[l] = task[l] /\ snapshot'[l] = snapshot[l]
             /\ pending'[l] = pending[l] /\ tcp'[l] = tcp[l]
  BY <1>1, <1>2 DEF Sync!HangUp, Sync!LoseFrames
<1>3. CASE Sync!SendError(m) \/ Sync!RecvLagged(m)
  BY <1>2, <1>3 DEF Sync!SendError, Sync!RecvLagged
<1>4. CASE Sync!Break(m)
  BY <1>1, <1>4 DEF Sync!Break, Sync!LoseFrames
<1>5. CASE Sync!Connect(m)
  BY <1>1, <1>5 DEF Sync!Connect
<1>6. CASE Sync!ReadState(m) \/ Sync!RecvChange(m) \/ Sync!Tick(m)
  BY <1>1, <1>6 DEF Sync!ReadState, Sync!RecvChange, Sync!Tick
<1>7. CASE Sync!SendFrame(m) \/ Sync!SendIntoReset(m) \/ Sync!ResetArrives(m)
  BY <1>1, <1>7 DEF Sync!SendFrame, Sync!SendIntoReset, Sync!ResetArrives
<1>8. ASSUME NEW c \in Slot, Sync!Deliver(m, c)
      PROVE  /\ inbox'[l] = inbox[l] /\ task'[l] = task[l] /\ snapshot'[l] = snapshot[l]
             /\ pending'[l] = pending[l] /\ tcp'[l] = tcp[l]
  BY <1>1, <1>8 DEF Sync!Deliver
<1> QED
  BY <1>3, <1>4, <1>5, <1>6, <1>7, <1>8 DEF Sync!LinkStep

(* Broken connections stay counted. *)
LEMMA BreaksGrow ==
  ASSUME TypeOK, [Next]_vars, NoStops'
  PROVE  breaks \in Nat /\ breaks <= breaks'
<1>1. breaks \in Nat
  BY SyncBoundAssumption DEF TypeOK, Sync!SyncTypeOK
<1>2. ASSUME NEW m \in Link, SyncStep(m) PROVE breaks' = breaks \/ breaks' = breaks + 1
  BY <1>2 DEF SyncStep, Sync!LinkStep, Sync!Connect, Sync!ReadState, Sync!SendFrame,
              Sync!SendIntoReset, Sync!SendError, Sync!RecvChange, Sync!RecvLagged,
              Sync!ResetArrives, Sync!Tick, Sync!Deliver, Sync!Break
<1>3. ASSUME NEW n \in Peer, Command(n) PROVE breaks' = breaks
  BY <1>3 DEF Command, AddTodo, ToggleTodo, DeleteTodo, Resync, Apply
<1>4. ASSUME NEW n \in Peer, NotifySync(n) \/ StartPeer(n) PROVE breaks' = breaks
  BY <1>4 DEF NotifySync, StartPeer, Sync!Start
<1>5. CASE UNCHANGED vars
  BY <1>1, <1>5 DEF vars
<1> QED
  BY <1>1, <1>2, <1>3, <1>4, <1>5, StillNoStops DEF Next

(* Without stops and broken connections, all other steps leave connections *)
(* and frames alone.                                                       *)
LEMMA ComingStep ==
  ASSUME TypeOK, TypeOK', NoStops', breaks' = 0, [Next]_vars, Wired, NEW l \in Link,
         NEW r, NEW v \in Nat, v <= Entry(state[l[1]], r), Coming(l, r, v)
  PROVE  Coming(l, r, v)' /\ tcp'[l] \in {"closed", "open"}
<1> DEFINE Goal == Coming(l, r, v)' /\ tcp'[l] \in {"closed", "open"}
<1>1. /\ l[1] \in Peer /\ l[2] \in Peer
      /\ task \in [Link -> Sync!TaskStates] /\ applied \in [Peer -> 0 .. MaxHandlers]
      /\ snapshot \in [Link -> TodoStates] /\ tcp \in [Link -> Sync!TcpStates]
      /\ inbox \in [Link -> [Slot -> Seq(TodoStates)]] /\ current \in [Link -> Slot]
      /\ pending \in [Link -> 0 .. ChannelCap + 1] /\ breaks \in Nat
  <2>1. l[1] \in Peer /\ l[2] \in Peer
    BY LinkAssumption
  <2>2. breaks \in Nat
    BY SyncBoundAssumption DEF TypeOK, Sync!SyncTypeOK
  <2> QED
    BY <2>1, <2>2 DEF TypeOK, Sync!SyncTypeOK
<1>2. v <= Entry(state[l[2]], r) => v <= Entry(state'[l[2]], r)
  <2>1. Entry(state[l[2]], r) <= Entry(state'[l[2]], r)
    BY <1>1, EntriesGrow
  <2>2. Entry(state[l[2]], r) \in Nat /\ Entry(state'[l[2]], r) \in Nat
    BY <1>1, EntryNat DEF TypeOK, Sync!SyncTypeOK
  <2> QED
    BY <2>1, <2>2
<1>3. tcp[l] \in {"closed", "open"}
  BY DEF Wired
<1>4. ASSUME NEW n \in Peer, Command(n) PROVE Goal
  <2>1. /\ applied' = [applied EXCEPT ![n] = @ + 1]
        /\ UNCHANGED <<task, snapshot, pending, tcp, inbox>>
    BY <1>4 DEF Command, AddTodo, ToggleTodo, DeleteTodo, Resync, Apply
  <2>2. CASE n = l[1]
    <3>1. applied'[l[1]] > 0
      BY <1>1, <2>1, <2>2, ClusterBoundAssumption
    <3> QED
      BY <1>3, <2>1, <3>1 DEF Coming
  <2>3. CASE n # l[1]
    <3>1. applied'[l[1]] = applied[l[1]]
      BY <1>1, <2>1, <2>3
    <3> QED
      BY <1>2, <1>3, <2>1, <3>1, ComingKept
  <2> QED
    BY <2>2, <2>3
<1>5. ASSUME NEW n \in Peer, NotifySync(n) PROVE Goal
  <2>1. /\ applied' = [applied EXCEPT ![n] = @ - 1]
        /\ UNCHANGED <<state, task, snapshot, tcp, inbox>>
        /\ pending'[l] = IF n = l[1] /\ task[l] # "connecting" /\ pending[l] <= ChannelCap
                         THEN pending[l] + 1 ELSE pending[l]
    BY <1>5 DEF NotifySync, Sync!Notify
  <2>2. CASE n = l[1]
    <3>1. task[l] = "connecting" \/ pending'[l] > 0
      BY <1>1, <2>1, <2>2, SyncBoundAssumption
    <3> QED
      BY <1>3, <2>1, <3>1 DEF Coming
  <2>3. CASE n # l[1]
    <3>1. applied'[l[1]] = applied[l[1]] /\ pending'[l] = pending[l]
      BY <1>1, <2>1, <2>3
    <3> QED
      BY <1>2, <1>3, <2>1, <3>1, ComingKept
  <2> QED
    BY <2>2, <2>3
<1>6. ASSUME NEW n \in Peer, StartPeer(n) PROVE Goal
  <2>1. UNCHANGED <<state, task, snapshot, pending, tcp, inbox, applied>>
    BY <1>6 DEF StartPeer, Sync!Start
  <2> QED
    BY <1>3, <2>1, ComingKept
<1>7. ASSUME NEW m \in Link, SyncStep(m) PROVE breaks' = breaks
  <2>1. ASSUME Sync!Break(m) PROVE FALSE
    BY <1>1, <2>1 DEF Sync!Break
  <2> QED
    BY <1>7, <2>1 DEF SyncStep, Sync!LinkStep, Sync!Connect, Sync!ReadState, Sync!SendFrame,
                      Sync!SendIntoReset, Sync!SendError, Sync!RecvChange, Sync!RecvLagged,
                      Sync!ResetArrives, Sync!Tick, Sync!Deliver
<1>8. ASSUME NEW m \in Link, SyncStep(m), m # l PROVE Goal
  <2>1. /\ inbox'[l] = inbox[l] /\ task'[l] = task[l] /\ snapshot'[l] = snapshot[l]
        /\ pending'[l] = pending[l] /\ tcp'[l] = tcp[l] /\ applied' = applied
    BY <1>1, <1>8, OtherLinks DEF SyncStep
  <2> QED
    BY <1>2, <1>3, <2>1, ComingKept
<1>9. CASE UNCHANGED vars
  <2>1. UNCHANGED <<state, task, snapshot, pending, tcp, inbox, applied>>
    BY <1>9 DEF vars
  <2> QED
    BY <1>3, <2>1, ComingKept
<1>10. ASSUME NEW m \in Link, SyncStep(m) PROVE Goal
  BY <1>7, <1>8, <1>10, ComingLink
<1> QED
  BY <1>4, <1>5, <1>6, <1>9, <1>10, StillNoStops DEF Next

(* Merges do not move a peer's own entry; only its commands do, and these  *)
(* are due to be notified of.                                              *)
LEMMA OwnEntryMoves ==
  ASSUME TypeOK, OwnEntries, NoStops', [Next]_vars, NEW n \in Peer
  PROVE  \/ Entry(state'[n], ReplicaOf[n]) = Entry(state[n], ReplicaOf[n])
         \/ applied'[n] > 0
<1>1. state[n] \in TodoStates /\ Entry(state[n], ReplicaOf[n]) \in Nat
  BY EntryNat DEF TypeOK, Sync!SyncTypeOK
<1>2. CASE Command(n)
  <2>1. applied' = [applied EXCEPT ![n] = @ + 1]
    BY <1>2 DEF Command, AddTodo, ToggleTodo, DeleteTodo, Resync, Apply
  <2>2. applied \in [Peer -> 0 .. MaxHandlers]
    BY DEF TypeOK
  <2> QED
    BY <2>1, <2>2, ClusterBoundAssumption
<1>3. ASSUME NEW o \in KnownStates, state'[n] = Merge(state[n], o)
      PROVE  Entry(state'[n], ReplicaOf[n]) = Entry(state[n], ReplicaOf[n])
  <2>1. o \in TodoStates /\ Entry(o, ReplicaOf[n]) \in Nat
    BY KnownTyped, EntryNat
  <2>2. Entry(o, ReplicaOf[n]) <= Entry(state[n], ReplicaOf[n])
    BY DEF OwnEntries
  <2> QED
    BY <1>1, <1>3, <2>1, <2>2, MergeEntries DEF Larger
<1> QED
  BY <1>2, <1>3, StateStep

LEMMA WayStep ==
  ASSUME DistinctReplicas, ClockInv, ClockInv', WayInv, [Next]_vars
  PROVE  WayInv'
<1> SUFFICES ASSUME NoStops', breaks' = 0
             PROVE  Wired' /\ \A l \in Link : UnderWay(l)'
  BY DEF WayInv
<1>1. TypeOK /\ TypeOK' /\ NoStops /\ OwnEntries
  BY StillNoStops DEF ClockInv
<1>2. breaks = 0
  BY <1>1, BreaksGrow
<1>3. Wired /\ \A l \in Link : UnderWay(l)
  BY <1>1, <1>2 DEF WayInv
<1>4. ASSUME NEW l \in Link PROVE UnderWay(l)' /\ tcp'[l] \in {"closed", "open"}
  <2> DEFINE n == l[1]
             r == ReplicaOf[n]
  <2>1. n \in Peer /\ Entry(state[n], r) \in Nat
    BY <1>1, LinkAssumption, EntryNat DEF TypeOK, Sync!SyncTypeOK
  <2>2. PICK v \in Nat : v = Entry(state[n], r)
    BY <2>1
  <2>3. v <= Entry(state[n], r) /\ Coming(l, r, v)
    BY <1>3, <2>2, UnderWayComing
  <2>4. Coming(l, r, v)' /\ tcp'[l] \in {"closed", "open"}
    BY <1>1, <1>3, <2>3, ComingStep
  <2>5. CASE Entry(state'[n], r) = Entry(state[n], r)
    BY <2>2, <2>4, <2>5, ComingReaches
  <2>6. CASE applied'[n] > 0
    BY <2>4, <2>6 DEF UnderWay
  <2> QED
    BY <1>1, <2>1, <2>4, <2>5, <2>6, OwnEntryMoves
<1> QED
  BY <1>4 DEF Wired

(* Where no process ends and no connection breaks, every command is under  *)
(* way to every configured peer until it has arrived: there is no moment   *)
(* at which a task that waits in select! has missed it, whatever the order *)
(* of handlers, clones, sends, lagging receivers and reconnects.           *)
THEOREM ChangesUnderWay ==
  ASSUME DistinctReplicas
  PROVE  Spec => []ChangeUnderWay
<1>1. Init => WayInv
  BY DEF Init, Sync!SyncInit, WayInv, Wired, UnderWay
<1>2. ClockInv /\ ClockInv' /\ WayInv /\ [Next]_vars => WayInv'
  BY WayStep
<1>3. WayInv => ChangeUnderWay
  BY DEF WayInv, ChangeUnderWay
<1> QED
  BY <1>1, <1>2, <1>3, ClockInvariant, PTL DEF Spec
=============================================================================
