--------------------------- MODULE TodoSyncProofs ---------------------------
(***************************************************************************)
(* Proofs about the cluster of TodoSync, for every number of peers, every  *)
(* topology of links and every bound.                                      *)
(***************************************************************************)
EXTENDS TodoSync, TodoStateProofs

(* What a connection keeps of its frames is a sequence of the first ones. *)
LEMMA PrefixType ==
  ASSUME NEW E, NEW seq \in Seq(E), NEW k \in 0 .. Len(seq)
  PROVE  /\ SubSeq(seq, 1, k) \in Seq(E)
         /\ Len(SubSeq(seq, 1, k)) = k
         /\ \A i \in 1 .. k : SubSeq(seq, 1, k)[i] = seq[i]
  OBVIOUS

(* The frames behind the oldest one are the next to be merged. *)
LEMMA TailType ==
  ASSUME NEW E, NEW seq \in Seq(E), seq # <<>>
  PROVE  /\ Tail(seq) \in Seq(E)
         /\ Head(seq) = seq[1] /\ 1 \in 1 .. Len(seq) /\ Head(seq) \in E
         /\ \A i \in 1 .. Len(Tail(seq)) : i + 1 \in 1 .. Len(seq) /\ Tail(seq)[i] = seq[i + 1]
  OBVIOUS

(* A frame is sent behind the ones in flight. *)
LEMMA AppendType ==
  ASSUME NEW E, NEW seq \in Seq(E), NEW e \in E
  PROVE  /\ Append(seq, e) \in Seq(E)
         /\ \A i \in 1 .. Len(Append(seq, e)) :
              Append(seq, e)[i] = e \/ (i \in 1 .. Len(seq) /\ Append(seq, e)[i] = seq[i])
  OBVIOUS

-----------------------------------------------------------------------------
(* A command leaves its replica with a state of the right type. *)
LEMMA ApplyType ==
  ASSUME TypeOK, NEW n \in Peer, NEW new \in TodoStates, Apply(n, new)
  PROVE  /\ Sync!SyncTypeOK'
         /\ applied' \in [Peer -> 0 .. MaxHandlers]
         /\ stops' \in [Peer -> Nat]
  BY ClusterBoundAssumption DEF TypeOK, Sync!SyncTypeOK, Apply

(* The bound on what a browser changes keeps the clock within its type. *)
LEMMA MayChangeBound ==
  ASSUME TypeOK, NEW n \in Peer, MayChange(n)
  PROVE  Get(state[n].clock, ReplicaOf[n]) < MaxCount
<1>1. state[n] \in TodoStates
  BY DEF TypeOK, Sync!SyncTypeOK
<1>2. Get(state[n].clock, ReplicaOf[n]) \in Nat
  <2>1. state[n].clock \in Maps(ReplicaId, 0 .. MaxCount)
    BY <1>1, Fields
  <2>2. state[n].clock \in [DOMAIN state[n].clock -> 0 .. MaxCount]
    BY <2>1, MapsMember
  <2> QED
    BY <2>2, CounterAssumption DEF Get, GetOr
<1>3. MaxClock[n] \in 0 .. MaxCount
  BY ClusterBoundAssumption
<1> QED
  BY <1>2, <1>3, CounterAssumption DEF MayChange

(* A command draws an id for a new item or leaves items and texts alone. *)
Drawn(n) == TodoId(n, next_local_id[n] + 1)

KeepsItems(n, new) ==
  /\ new.added = state[n].added
  /\ new.texts = state[n].texts
  /\ next_local_id' = next_local_id

AddsItem(n, new) ==
  /\ next_local_id[n] < MaxLocalId
  /\ next_local_id' = [next_local_id EXCEPT ![n] = @ + 1]
  /\ new.added = state[n].added \cup {Drawn(n)}
  /\ new.removed = state[n].removed
  /\ DOMAIN new.texts = DOMAIN state[n].texts \cup {Drawn(n)}
  /\ \A id \in DOMAIN state[n].texts :
       id # Drawn(n) => new.texts[id] = state[n].texts[id]

LEMMA CommandEffect ==
  ASSUME TypeOK, NEW n \in Peer, Command(n)
  PROVE  \E new \in TodoStates :
           /\ Apply(n, new)
           /\ WellFormed(state[n]) => WellFormed(new)
           /\ KeepsItems(n, new) \/ AddsItem(n, new)
<1> DEFINE s == state[n]
           r == ReplicaOf[n]
           k == next_local_id[n] + 1
<1>1. s \in TodoStates /\ r \in ReplicaId /\ next_local_id[n] \in 0 .. MaxLocalId
  BY ReplicaOfAssumption DEF TypeOK, Sync!SyncTypeOK
<1>2. ASSUME NEW new, Apply(n, new), new # s PROVE Get(s.clock, r) < MaxCount
  BY <1>2, MayChangeBound DEF Apply
<1>3. ASSUME NEW text \in Text \cup {Blank}, AddTodo(n, text), text # Blank
      PROVE  /\ Apply(n, Add(s, n, r, k, text))
             /\ next_local_id[n] < MaxLocalId
             /\ next_local_id' = [next_local_id EXCEPT ![n] = @ + 1]
             /\ text \in Text
  BY <1>3 DEF AddTodo
<1>4. ASSUME NEW text \in Text \cup {Blank}, AddTodo(n, text), text # Blank
      PROVE  \E new \in TodoStates : /\ Apply(n, new)
                                     /\ WellFormed(s) => WellFormed(new)
                                     /\ AddsItem(n, new)
  <2> DEFINE new == Add(s, n, r, k, text)
  <2>1. new # s
    <3>1. new.clock = Insert(s.clock, r, Get(s.clock, r) + 1)
      BY DEF Add, Increment
    <3>2. new.clock[r] = Get(s.clock, r) + 1 /\ r \in DOMAIN new.clock
      BY <3>1 DEF Insert
    <3>3. s.clock \in Maps(ReplicaId, 0 .. MaxCount)
      BY <1>1, Fields
    <3>4. s.clock \in [DOMAIN s.clock -> 0 .. MaxCount]
      BY <3>3, MapsMember
    <3>5. r \in DOMAIN s.clock => s.clock[r] # Get(s.clock, r) + 1
      BY <3>4, CounterAssumption DEF Get, GetOr
    <3> QED
      BY <3>2, <3>5
  <2>2. Get(s.clock, r) < MaxCount
    BY <1>2, <1>3, <1>4, <2>1
  <2>3. k \in 1 .. MaxLocalId
    BY <1>1, <1>3, <1>4, CounterAssumption
  <2>4. /\ new \in TodoStates
        /\ WellFormed(s) => WellFormed(new)
        /\ new.added = s.added \cup {<<n, k>>}
        /\ new.removed = s.removed
        /\ DOMAIN new.texts = DOMAIN s.texts \cup {<<n, k>>}
        /\ \A x \in DOMAIN s.texts : x # <<n, k>> => new.texts[x] = s.texts[x]
    <3> HIDE DEF s, r, k
    <3> QED
      BY <1>1, <1>3, <1>4, <2>2, <2>3, AddEffect
  <2> HIDE DEF new
  <2>5. AddsItem(n, new)
    BY <1>3, <1>4, <2>4 DEF AddsItem, Drawn, TodoId
  <2> QED
    BY <1>3, <1>4, <2>4, <2>5 DEF new
<1>5. ASSUME Apply(n, s), UNCHANGED next_local_id
      PROVE  \E new \in TodoStates : /\ Apply(n, new)
                                     /\ WellFormed(s) => WellFormed(new)
                                     /\ KeepsItems(n, new)
  BY <1>1, <1>5 DEF KeepsItems
<1>6. ASSUME NEW id \in Id, ToggleTodo(n, id)
      PROVE  \E new \in TodoStates : /\ Apply(n, new)
                                     /\ WellFormed(s) => WellFormed(new)
                                     /\ KeepsItems(n, new)
  <2>1. Apply(n, Toggle(s, r, id)) /\ UNCHANGED next_local_id
    BY <1>6 DEF ToggleTodo
  <2>2. Toggle(s, r, id) # s => Get(s.clock, r) < MaxCount
    BY <1>2, <2>1
  <2>3. /\ Toggle(s, r, id) \in TodoStates
        /\ WellFormed(s) => WellFormed(Toggle(s, r, id))
        /\ Toggle(s, r, id).added = s.added
        /\ Toggle(s, r, id).texts = s.texts
    <3> HIDE DEF s, r
    <3> QED
      BY <1>1, <2>2, ToggleEffect
  <2> QED
    BY <2>1, <2>3 DEF KeepsItems
<1>7. ASSUME NEW id \in Id, DeleteTodo(n, id)
      PROVE  \E new \in TodoStates : /\ Apply(n, new)
                                     /\ WellFormed(s) => WellFormed(new)
                                     /\ KeepsItems(n, new)
  <2>1. Apply(n, Delete(s, r, id)) /\ UNCHANGED next_local_id
    BY <1>7 DEF DeleteTodo
  <2>2. Delete(s, r, id) # s => Get(s.clock, r) < MaxCount
    BY <1>2, <2>1
  <2>3. /\ Delete(s, r, id) \in TodoStates
        /\ WellFormed(s) => WellFormed(Delete(s, r, id))
        /\ Delete(s, r, id).added = s.added
        /\ Delete(s, r, id).texts = s.texts
    <3> HIDE DEF s, r
    <3> QED
      BY <1>1, <2>2, DeleteEffect
  <2> QED
    BY <2>1, <2>3 DEF KeepsItems
<1>8. CASE \E text \in Text \cup {Blank} : AddTodo(n, text)
  <2> PICK text \in Text \cup {Blank} : AddTodo(n, text)
    BY <1>8
  <2>1. CASE text # Blank
    BY <1>4, <2>1
  <2>2. CASE text = Blank
    <3>1. Apply(n, s) /\ UNCHANGED next_local_id
      BY <2>2 DEF AddTodo
    <3> QED
      BY <1>5, <3>1
  <2> QED
    BY <2>1, <2>2
<1>9. CASE Resync(n)
  <2>1. Apply(n, s) /\ UNCHANGED next_local_id
    BY <1>9 DEF Resync
  <2> QED
    BY <1>5, <2>1
<1> HIDE DEF s
<1>10. CASE \E id \in Id : ToggleTodo(n, id)
  BY <1>6, <1>10 DEF s
<1>11. CASE \E id \in Id : DeleteTodo(n, id)
  BY <1>7, <1>11 DEF s
<1> QED
  BY <1>8, <1>9, <1>10, <1>11 DEF Command

-----------------------------------------------------------------------------
(* The first states are of the right type. *)
LEMMA TypeInit == ASSUME Init PROVE TypeOK
<1>1. Sync!SyncTypeOK
  <2>1. (CHOOSE c \in Slot : TRUE) \in Slot
    BY SyncBoundAssumption
  <2>2. <<>> \in Seq(TodoStates)
    OBVIOUS
  <2>3. [l \in Link |-> [c \in Slot |-> <<>>]] \in [Link -> [Slot -> Seq(TodoStates)]]
    BY <2>2
  <2> QED
    BY <2>1, <2>3, NewStateType, SyncBoundAssumption
    DEF Init, Sync!SyncInit, Sync!SyncTypeOK, Sync!TaskStates, Sync!TcpStates
<1>2. /\ next_local_id \in [Peer -> 0 .. MaxLocalId]
      /\ applied \in [Peer -> 0 .. MaxHandlers]
      /\ stops \in [Peer -> Nat]
  BY CounterAssumption, ClusterBoundAssumption DEF Init
<1> QED
  BY <1>1, <1>2 DEF TypeOK

(* A connection that ends leaves prefixes of the frames in flight. *)
LEMMA LoseFramesType ==
  ASSUME TypeOK, NEW l \in Link, NEW k \in Sync!InFlight(l), Sync!LoseFrames(l, k)
  PROVE  /\ inbox' \in [Link -> [Slot -> Seq(TodoStates)]]
         /\ \A m \in Link, c \in Slot : \A i \in 1 .. Len(inbox'[m][c]) :
              i \in 1 .. Len(inbox[m][c]) /\ inbox'[m][c][i] = inbox[m][c][i]
<1> DEFINE cur == current[l]
           old == inbox[l][cur]
           new == SubSeq(old, 1, k)
<1>1. cur \in Slot /\ inbox \in [Link -> [Slot -> Seq(TodoStates)]]
  BY DEF TypeOK, Sync!SyncTypeOK
<1>2. old \in Seq(TodoStates) /\ k \in 0 .. Len(old)
  BY <1>1 DEF Sync!InFlight
<1>3. /\ new \in Seq(TodoStates) /\ Len(new) = k
      /\ \A i \in 1 .. k : new[i] = old[i]
  <2> HIDE DEF old
  <2> QED
    BY <1>2, PrefixType
<1>4. inbox' = [inbox EXCEPT ![l][cur] = new]
  BY DEF Sync!LoseFrames
<1> HIDE DEF new
<1>5. inbox' \in [Link -> [Slot -> Seq(TodoStates)]]
  BY <1>1, <1>3, <1>4
<1>6. ASSUME NEW m \in Link, NEW c \in Slot, NEW i \in 1 .. Len(inbox'[m][c])
      PROVE  i \in 1 .. Len(inbox[m][c]) /\ inbox'[m][c][i] = inbox[m][c][i]
  <2>1. CASE m = l /\ c = cur
    <3>1. inbox'[m][c] = new
      BY <1>1, <1>4, <2>1
    <3>2. Len(old) \in Nat
      BY <1>2
    <3> QED
      BY <1>2, <1>3, <2>1, <3>1, <3>2
  <2>2. CASE ~(m = l /\ c = cur)
    <3>1. inbox'[m][c] = inbox[m][c]
      BY <1>1, <1>4, <2>2
    <3> QED
      BY <3>1
  <2> QED
    BY <2>1, <2>2
<1> QED
  BY <1>5, <1>6

(* Every step of a link keeps the types. *)
LEMMA TypeLink ==
  ASSUME TypeOK, NEW l \in Link, Sync!LinkStep(l)
  PROVE  Sync!SyncTypeOK'
<1>0. /\ Sync!SyncTypeOK /\ l[1] \in Peer /\ l[2] \in Peer
      /\ state[l[1]] \in TodoStates /\ NewState \in TodoStates
      /\ inbox \in [Link -> [Slot -> Seq(TodoStates)]]
  BY LinkAssumption, NewStateType DEF TypeOK, Sync!SyncTypeOK
<1>1. CASE Sync!Connect(l)
  <2>1. (CHOOSE c \in Slot : inbox[l][c] = <<>>) \in Slot
    BY <1>1 DEF Sync!Connect
  <2> QED
    BY <1>0, <1>1, <2>1, SyncBoundAssumption
    DEF Sync!Connect, Sync!SyncTypeOK, Sync!TaskStates, Sync!TcpStates
<1>2. CASE Sync!ReadState(l)
  BY <1>0, <1>2 DEF Sync!ReadState, Sync!SyncTypeOK, Sync!TaskStates
<1>3. CASE Sync!SendFrame(l)
  <2>1. Append(inbox[l][current[l]], snapshot[l]) \in Seq(TodoStates)
    BY <1>0, AppendType DEF Sync!SyncTypeOK
  <2>2. inbox' = [inbox EXCEPT ![l][current[l]] = Append(inbox[l][current[l]], snapshot[l])]
    BY <1>3 DEF Sync!SendFrame
  <2>3. inbox' \in [Link -> [Slot -> Seq(TodoStates)]]
    BY <1>0, <2>1, <2>2 DEF Sync!SyncTypeOK
  <2> QED
    BY <1>0, <1>3, <2>3 DEF Sync!SendFrame, Sync!SyncTypeOK, Sync!TaskStates
<1>4. CASE Sync!SendIntoReset(l)
  BY <1>0, <1>4 DEF Sync!SendIntoReset, Sync!SyncTypeOK, Sync!TaskStates, Sync!TcpStates
<1>12. CASE Sync!ResetArrives(l)
  BY <1>0, <1>12 DEF Sync!ResetArrives, Sync!SyncTypeOK, Sync!TcpStates
<1>5. ASSUME Sync!HangUp(l), UNCHANGED <<state, up, current, breaks>>
      PROVE  Sync!SyncTypeOK'
  <2>1. inbox' \in [Link -> [Slot -> Seq(TodoStates)]]
    BY <1>5, LoseFramesType DEF Sync!HangUp
  <2>2. /\ task' = [task EXCEPT ![l] = "connecting"]
        /\ snapshot' = [snapshot EXCEPT ![l] = NewState]
        /\ pending' = [pending EXCEPT ![l] = 0]
        /\ tcp' = [tcp EXCEPT ![l] = "closed"]
    BY <1>5 DEF Sync!HangUp
  <2>3. 0 \in 0 .. ChannelCap + 1
    BY SyncBoundAssumption
  <2>4. /\ task' \in [Link -> Sync!TaskStates]
        /\ snapshot' \in [Link -> TodoStates]
        /\ pending' \in [Link -> 0 .. ChannelCap + 1]
        /\ tcp' \in [Link -> Sync!TcpStates]
    BY <1>0, <2>2, <2>3 DEF Sync!SyncTypeOK, Sync!TaskStates, Sync!TcpStates
  <2> QED
    BY <1>0, <1>5, <2>1, <2>4 DEF Sync!SyncTypeOK
<1>6. CASE Sync!SendError(l)
  BY <1>5, <1>6 DEF Sync!SendError
<1>7. CASE Sync!RecvLagged(l)
  BY <1>5, <1>7 DEF Sync!RecvLagged
<1>8. CASE Sync!RecvChange(l)
  BY <1>0, <1>8, SyncBoundAssumption DEF Sync!RecvChange, Sync!SyncTypeOK, Sync!TaskStates
<1>9. CASE Sync!Tick(l)
  BY <1>0, <1>9 DEF Sync!Tick, Sync!SyncTypeOK, Sync!TaskStates
<1>10. ASSUME NEW c \in Slot, Sync!Deliver(l, c) PROVE Sync!SyncTypeOK'
  <2> DEFINE seq    == inbox[l][c]
             merged == Merge(state[l[2]], Head(seq))
  <2>1. seq \in Seq(TodoStates) /\ seq # <<>>
    BY <1>0, <1>10 DEF Sync!Deliver
  <2>2. Head(seq) \in TodoStates /\ Tail(seq) \in Seq(TodoStates)
    BY <2>1
  <2>3. merged \in TodoStates
    BY <1>0, <2>2, MergeEffect DEF Sync!SyncTypeOK
  <2>4. /\ state' = [state EXCEPT ![l[2]] = merged]
        /\ inbox' = [inbox EXCEPT ![l][c] = Tail(seq)]
        /\ UNCHANGED <<up, task, snapshot, pending, tcp, current, breaks>>
    BY <1>10 DEF Sync!Deliver
  <2> HIDE DEF seq, merged
  <2> QED
    BY <1>0, <2>2, <2>3, <2>4 DEF Sync!SyncTypeOK
<1>11. CASE Sync!Break(l)
  <2>1. inbox' \in [Link -> [Slot -> Seq(TodoStates)]]
    BY <1>11, LoseFramesType DEF Sync!Break
  <2>2. tcp' \in [Link -> Sync!TcpStates]
    BY <1>0, <1>11 DEF Sync!Break, Sync!SyncTypeOK, Sync!TcpStates
  <2>3. breaks' \in 0 .. MaxBreaks
    BY <1>0, <1>11, SyncBoundAssumption DEF Sync!Break, Sync!SyncTypeOK
  <2>4. UNCHANGED <<state, up, task, snapshot, pending, current>>
    BY <1>11 DEF Sync!Break
  <2> QED
    BY <1>0, <2>1, <2>2, <2>3, <2>4 DEF Sync!SyncTypeOK
<1> QED
  BY <1>1, <1>2, <1>3, <1>4, <1>6, <1>7, <1>8, <1>9, <1>10, <1>11, <1>12 DEF Sync!LinkStep

(* The process that ends keeps nothing; prefixes of its frames stay on the *)
(* way.                                                                    *)
LEMMA StopType ==
  ASSUME TypeOK, NEW n \in Peer, Sync!Stop(n)
  PROVE  /\ Sync!SyncTypeOK'
         /\ \A l \in Link, c \in Slot : \A i \in 1 .. Len(inbox'[l][c]) :
              i \in 1 .. Len(inbox[l][c]) /\ inbox'[l][c][i] = inbox[l][c][i]
<1>0. /\ Sync!SyncTypeOK /\ NewState \in TodoStates
      /\ inbox \in [Link -> [Slot -> Seq(TodoStates)]]
  BY NewStateType DEF TypeOK, Sync!SyncTypeOK
<1>1. PICK kept \in [Link -> 0 .. WireCap] :
        inbox' = [l \in Link |-> [c \in Slot |->
                   IF l[2] = n THEN <<>>
                   ELSE IF /\ l[1] = n /\ tcp[l] # "closed" /\ c = current[l]
                           /\ kept[l] <= Len(inbox[l][c])
                        THEN SubSeq(inbox[l][c], 1, kept[l])
                        ELSE inbox[l][c]]]
  BY DEF Sync!Stop
<1>2. ASSUME NEW l \in Link, NEW c \in Slot
      PROVE  /\ inbox'[l][c] \in Seq(TodoStates)
             /\ \A i \in 1 .. Len(inbox'[l][c]) :
                  i \in 1 .. Len(inbox[l][c]) /\ inbox'[l][c][i] = inbox[l][c][i]
  <2> DEFINE old == inbox[l][c]
             k   == kept[l]
  <2>1. old \in Seq(TodoStates) /\ Len(old) \in Nat /\ k \in Nat
    BY <1>0, SyncBoundAssumption
  <2>2. inbox'[l][c] \in {<<>>, old} \/ (inbox'[l][c] = SubSeq(old, 1, k) /\ k <= Len(old))
    BY <1>1
  <2>3. CASE inbox'[l][c] = <<>>
    BY <2>3
  <2>4. CASE inbox'[l][c] = old
    BY <2>1, <2>4
  <2>5. CASE inbox'[l][c] = SubSeq(old, 1, k) /\ k <= Len(old)
    <3>1. k \in 0 .. Len(old)
      BY <2>1, <2>5
    <3>2. /\ SubSeq(old, 1, k) \in Seq(TodoStates) /\ Len(SubSeq(old, 1, k)) = k
          /\ \A i \in 1 .. k : SubSeq(old, 1, k)[i] = old[i]
      <4> HIDE DEF old, k
      <4> QED
        BY <2>1, <3>1, PrefixType
    <3>3. 1 .. k \subseteq 1 .. Len(old)
      BY <2>1, <2>5
    <3> QED
      BY <2>5, <3>2, <3>3
  <2> QED
    BY <2>2, <2>3, <2>4, <2>5
<1>3. inbox' \in [Link -> [Slot -> Seq(TodoStates)]]
  <2>1. /\ DOMAIN inbox' = Link /\ inbox' = [l \in Link |-> inbox'[l]]
        /\ \A l \in Link : inbox'[l] = [c \in Slot |-> inbox'[l][c]]
    BY <1>1
  <2>2. \A l \in Link : inbox'[l] \in [Slot -> Seq(TodoStates)]
    BY <1>2, <2>1
  <2> QED
    BY <2>1, <2>2
<1>4. /\ up' \in [Peer -> BOOLEAN] /\ state' \in [Peer -> TodoStates]
      /\ UNCHANGED <<current, breaks>>
  BY <1>0 DEF Sync!Stop, Sync!SyncTypeOK
<1>5. /\ task' \in [Link -> Sync!TaskStates]
      /\ snapshot' \in [Link -> TodoStates]
  BY <1>0 DEF Sync!Stop, Sync!SyncTypeOK, Sync!TaskStates
<1>6. pending' \in [Link -> 0 .. ChannelCap + 1]
  BY <1>0, SyncBoundAssumption DEF Sync!Stop, Sync!SyncTypeOK
<1>7. tcp' \in [Link -> Sync!TcpStates]
  <2> PICK t \in {"reset", "dead"} :
        tcp' = [l \in Link |-> IF l[1] = n THEN "closed"
                               ELSE IF l[2] = n /\ tcp[l] = "open" THEN t
                               ELSE tcp[l]]
    BY DEF Sync!Stop
  <2> QED
    BY <1>0 DEF Sync!SyncTypeOK, Sync!TcpStates
<1>8. Sync!SyncTypeOK'
  BY <1>0, <1>3, <1>4, <1>5, <1>6, <1>7 DEF Sync!SyncTypeOK
<1> QED
  BY <1>2, <1>8

(* Every step keeps the types. *)
LEMMA TypeStep == ASSUME TypeOK, [Next]_vars PROVE TypeOK'
<1>1. ASSUME NEW n \in Peer, Command(n) PROVE TypeOK'
  <2>1. PICK new \in TodoStates : Apply(n, new) /\ (KeepsItems(n, new) \/ AddsItem(n, new))
    BY <1>1, CommandEffect
  <2>2. next_local_id' \in [Peer -> 0 .. MaxLocalId]
    BY <2>1, CounterAssumption DEF KeepsItems, AddsItem, TypeOK
  <2> QED
    BY <2>1, <2>2, ApplyType DEF TypeOK
<1>2. ASSUME NEW n \in Peer, NotifySync(n) PROVE TypeOK'
  <2>1. /\ UNCHANGED <<state, up, task, snapshot, tcp, current, inbox, breaks>>
        /\ UNCHANGED <<next_local_id, stops>>
    BY <1>2 DEF NotifySync
  <2>2. pending' \in [Link -> 0 .. ChannelCap + 1]
    BY <1>2, SyncBoundAssumption DEF NotifySync, Sync!Notify, TypeOK, Sync!SyncTypeOK
  <2>3. applied' \in [Peer -> 0 .. MaxHandlers]
    BY <1>2, ClusterBoundAssumption DEF NotifySync, TypeOK
  <2> QED
    BY <2>1, <2>2, <2>3 DEF TypeOK, Sync!SyncTypeOK
<1>3. ASSUME NEW n \in Peer, StopPeer(n) PROVE TypeOK'
  <2>1. /\ next_local_id' \in [Peer -> 0 .. MaxLocalId]
        /\ applied' \in [Peer -> 0 .. MaxHandlers]
        /\ stops' \in [Peer -> Nat]
    BY <1>3, CounterAssumption, ClusterBoundAssumption DEF StopPeer, TypeOK
  <2> QED
    BY <1>3, <2>1, StopType DEF StopPeer, TypeOK
<1>4. ASSUME NEW n \in Peer, StartPeer(n) PROVE TypeOK'
  BY <1>4 DEF StartPeer, Sync!Start, TypeOK, Sync!SyncTypeOK
<1>5. ASSUME NEW l \in Link, SyncStep(l) PROVE TypeOK'
  BY <1>5, TypeLink DEF SyncStep, TypeOK
<1>6. CASE UNCHANGED vars
  BY <1>6 DEF vars, TypeOK, Sync!SyncTypeOK
<1> QED
  BY <1>1, <1>2, <1>3, <1>4, <1>5, <1>6 DEF Next

(* Every variable has its type in every reachable state. *)
THEOREM TypeCorrect == Spec => []TypeOK
<1>1. Init => TypeOK
  BY TypeInit
<1>2. TypeOK /\ [Next]_vars => TypeOK'
  BY TypeStep
<1> QED
  BY <1>1, <1>2, PTL DEF Spec

-----------------------------------------------------------------------------
(* Where a value of the replicated state can be. *)
LEMMA KnownWhere ==
  /\ \A n \in Peer : state[n] \in KnownStates
  /\ \A l \in Link : snapshot[l] \in KnownStates
  /\ \A l \in Link, c \in Slot : \A i \in 1 .. Len(inbox[l][c]) : inbox[l][c][i] \in KnownStates
  BY DEF KnownStates, InTransit, Frames

LEMMA KnownWhereNext ==
  ASSUME NEW s \in KnownStates'
  PROVE  \/ \E n \in Peer : s = state'[n]
         \/ \E l \in Link : s = snapshot'[l]
         \/ \E l \in Link, c \in Slot : \E i \in 1 .. Len(inbox'[l][c]) : s = inbox'[l][c][i]
  BY DEF KnownStates, InTransit, Frames

(* All of them are states of the right type. *)
LEMMA KnownTyped == ASSUME TypeOK PROVE KnownStates \subseteq TodoStates
<1>1. \A l \in Link, c \in Slot : inbox[l][c] \in Seq(TodoStates)
  BY DEF TypeOK, Sync!SyncTypeOK
<1>2. \A l \in Link, c \in Slot : \A i \in 1 .. Len(inbox[l][c]) : inbox[l][c][i] \in TodoStates
  BY <1>1
<1>3. \A n \in Peer : state[n] \in TodoStates
  BY DEF TypeOK, Sync!SyncTypeOK
<1>4. \A l \in Link : snapshot[l] \in TodoStates
  BY DEF TypeOK, Sync!SyncTypeOK
<1> QED
  BY <1>2, <1>3, <1>4 DEF KnownStates, InTransit, Frames

(* What a step makes of the known states: a command's result, a merge of   *)
(* two of them, or what a process starts with.                             *)
Made(s) ==
  \/ s \in KnownStates
  \/ s = NewState
  \/ \E t, u \in KnownStates : s = Merge(t, u)

(* The ones on the way: clones to be sent and frames. *)
LEMMA TransitWhere ==
  /\ \A l \in Link : snapshot[l] \in InTransit
  /\ \A l \in Link, c \in Slot : \A i \in 1 .. Len(inbox[l][c]) : inbox[l][c][i] \in InTransit
  BY DEF InTransit, Frames

LEMMA TransitWhereNext ==
  ASSUME NEW s \in InTransit'
  PROVE  \/ \E l \in Link : s = snapshot'[l]
         \/ \E l \in Link, c \in Slot : \E i \in 1 .. Len(inbox'[l][c]) : s = inbox'[l][c][i]
  BY DEF InTransit, Frames

(* A step of a link clones, moves, drops and merges them. *)
Moved(l, s) == s \in InTransit \cup {state[l[1]], NewState}

LEMMA LinkMoves ==
  ASSUME TypeOK, NEW l \in Link, Sync!LinkStep(l)
  PROVE  /\ \A s \in InTransit' : Moved(l, s)
         /\ \/ state' = state
            \/ \E h \in InTransit :
                 /\ state' = [state EXCEPT ![l[2]] = Merge(state[l[2]], h)]
                 /\ InTransit' \subseteq InTransit
<1> DEFINE Goal == /\ \A s \in InTransit' : Moved(l, s)
                   /\ \/ state' = state
                      \/ \E h \in InTransit :
                           /\ state' = [state EXCEPT ![l[2]] = Merge(state[l[2]], h)]
                           /\ InTransit' \subseteq InTransit
<1>0. /\ Sync!SyncTypeOK /\ l[1] \in Peer /\ l[2] \in Peer
      /\ inbox \in [Link -> [Slot -> Seq(TodoStates)]]
      /\ state \in [Peer -> TodoStates] /\ snapshot \in [Link -> TodoStates]
      /\ current[l] \in Slot
  BY LinkAssumption DEF TypeOK, Sync!SyncTypeOK
<1>1. ASSUME UNCHANGED <<state, inbox>>,
             \A m \in Link : Moved(l, snapshot'[m])
      PROVE  Goal
  BY <1>1, TransitWhere, TransitWhereNext DEF Moved
<1>2. ASSUME UNCHANGED state,
             \A m \in Link : Moved(l, snapshot'[m]),
             \A m \in Link, c \in Slot : \A i \in 1 .. Len(inbox'[m][c]) : Moved(l, inbox'[m][c][i])
      PROVE  Goal
  BY <1>2, TransitWhere, TransitWhereNext
<1>3. \A m \in Link : Moved(l, snapshot[m])
  BY TransitWhere DEF Moved
<1>4. ASSUME \E k \in Sync!InFlight(l) : Sync!LoseFrames(l, k)
      PROVE  \A m \in Link, c \in Slot : \A i \in 1 .. Len(inbox'[m][c]) : Moved(l, inbox'[m][c][i])
  BY <1>4, LoseFramesType, TransitWhere DEF Moved
<1>5. CASE Sync!Connect(l)
  BY <1>1, <1>3, <1>5 DEF Sync!Connect
<1>6. CASE Sync!ReadState(l)
  <2>1. snapshot' = [snapshot EXCEPT ![l] = state[l[1]]] /\ UNCHANGED <<state, inbox>>
    BY <1>6 DEF Sync!ReadState
  <2>2. \A m \in Link : snapshot'[m] \in {state[l[1]], snapshot[m]}
    BY <1>0, <2>1
  <2>3. \A m \in Link : Moved(l, snapshot'[m])
    BY <1>0, <2>2, TransitWhere DEF Moved
  <2> QED
    BY <1>1, <2>1, <2>3
<1>7. ASSUME snapshot' = [snapshot EXCEPT ![l] = NewState]
      PROVE  \A m \in Link : Moved(l, snapshot'[m])
  <2>1. \A m \in Link : snapshot'[m] \in {NewState, snapshot[m]}
    BY <1>0, <1>7
  <2> QED
    BY <2>1, TransitWhere DEF Moved
<1>8. CASE Sync!SendFrame(l)
  <2> DEFINE old == inbox[l][current[l]]
             new == Append(old, snapshot[l])
  <2>1. /\ inbox' = [inbox EXCEPT ![l][current[l]] = new]
        /\ snapshot' = [snapshot EXCEPT ![l] = NewState]
        /\ UNCHANGED state
    BY <1>8 DEF Sync!SendFrame
  <2>2. \A i \in 1 .. Len(new) : new[i] = snapshot[l] \/ (i \in 1 .. Len(old) /\ new[i] = old[i])
    <3>1. old \in Seq(TodoStates) /\ snapshot[l] \in TodoStates
      BY <1>0
    <3> HIDE DEF old
    <3> QED
      BY <3>1, AppendType
  <2> HIDE DEF new
  <2>3. ASSUME NEW m \in Link, NEW c \in Slot, NEW i \in 1 .. Len(inbox'[m][c])
        PROVE  Moved(l, inbox'[m][c][i])
    <3>1. CASE m = l /\ c = current[l]
      <4>1. inbox'[m][c] = new
        BY <1>0, <2>1, <3>1
      <4> QED
        BY <1>0, <2>2, <3>1, <4>1, TransitWhere DEF Moved
    <3>2. CASE ~(m = l /\ c = current[l])
      <4>1. inbox'[m][c] = inbox[m][c]
        BY <1>0, <2>1, <3>2
      <4> QED
        BY <4>1, TransitWhere DEF Moved
    <3> QED
      BY <3>1, <3>2
  <2> QED
    BY <1>2, <1>7, <2>1, <2>3
<1>9. CASE Sync!SendIntoReset(l) \/ Sync!ResetArrives(l)
  BY <1>1, <1>2, <1>3, <1>7, <1>9 DEF Sync!SendIntoReset, Sync!ResetArrives
<1>10. CASE Sync!SendError(l)
  BY <1>2, <1>4, <1>7, <1>10 DEF Sync!SendError, Sync!HangUp
<1>11. CASE Sync!RecvLagged(l)
  BY <1>2, <1>4, <1>7, <1>11 DEF Sync!RecvLagged, Sync!HangUp
<1>12. CASE Sync!RecvChange(l)
  BY <1>1, <1>3, <1>12 DEF Sync!RecvChange
<1>13. CASE Sync!Tick(l)
  BY <1>1, <1>3, <1>13 DEF Sync!Tick
<1>14. ASSUME NEW c \in Slot, Sync!Deliver(l, c) PROVE Goal
  <2> DEFINE seq == inbox[l][c]
  <2>1. /\ state' = [state EXCEPT ![l[2]] = Merge(state[l[2]], Head(seq))]
        /\ inbox' = [inbox EXCEPT ![l][c] = Tail(seq)]
        /\ UNCHANGED snapshot
        /\ seq # <<>> /\ seq \in Seq(TodoStates)
    BY <1>0, <1>14 DEF Sync!Deliver
  <2>2. /\ Head(seq) = seq[1] /\ 1 \in 1 .. Len(seq)
        /\ \A i \in 1 .. Len(Tail(seq)) : i + 1 \in 1 .. Len(seq) /\ Tail(seq)[i] = seq[i + 1]
    <3> HIDE DEF seq
    <3> QED
      BY <2>1, TailType
  <2>3. Head(seq) \in InTransit
    BY <2>2, TransitWhere
  <2>4. ASSUME NEW m \in Link, NEW d \in Slot, NEW i \in 1 .. Len(inbox'[m][d])
        PROVE  inbox'[m][d][i] \in InTransit
    <3>1. CASE m = l /\ d = c
      <4>1. inbox'[m][d] = Tail(seq)
        BY <1>0, <2>1, <3>1
      <4>2. inbox'[m][d][i] = seq[i + 1] /\ i + 1 \in 1 .. Len(seq)
        BY <2>2, <4>1
      <4> QED
        BY <4>2, TransitWhere
    <3>2. CASE ~(m = l /\ d = c)
      <4>1. inbox'[m][d] = inbox[m][d]
        BY <1>0, <2>1, <3>2
      <4> QED
        BY <4>1, TransitWhere
    <3> QED
      BY <3>1, <3>2
  <2>5. InTransit' \subseteq InTransit
    BY <2>1, <2>4, TransitWhere, TransitWhereNext
  <2> QED
    BY <2>1, <2>3, <2>5 DEF Moved
<1>15. CASE Sync!Break(l)
  BY <1>2, <1>3, <1>4, <1>15 DEF Sync!Break
<1> QED
  BY <1>5, <1>6, <1>8, <1>9, <1>10, <1>11, <1>12, <1>13, <1>14, <1>15 DEF Sync!LinkStep

(* So what is known after it was known before, or is merged of that. *)
LEMMA KnownLink ==
  ASSUME TypeOK, NEW l \in Link, Sync!LinkStep(l), NEW s \in KnownStates'
  PROVE  Made(s)
<1>1. /\ l[1] \in Peer /\ l[2] \in Peer /\ state \in [Peer -> TodoStates]
      /\ \A n \in Peer : state[n] \in KnownStates
      /\ InTransit \subseteq KnownStates
  BY LinkAssumption DEF TypeOK, Sync!SyncTypeOK, KnownStates
<1>2. CASE s \in InTransit'
  BY <1>1, <1>2, LinkMoves DEF Moved, Made
<1>3. ASSUME NEW n \in Peer, s = state'[n] PROVE Made(s)
  <2>1. CASE state' = state
    BY <1>1, <1>3, <2>1 DEF Made
  <2>2. ASSUME NEW h \in InTransit, state' = [state EXCEPT ![l[2]] = Merge(state[l[2]], h)]
        PROVE  Made(s)
    BY <1>1, <1>3, <2>2 DEF Made
  <2> QED
    BY <2>1, <2>2, LinkMoves
<1> QED
  BY <1>2, <1>3 DEF KnownStates

(* Any other step: only a command makes a state that is not made this way, *)
(* and it is the one behind its replica's lock.                            *)
LEMMA KnownStep ==
  ASSUME TypeOK, [Next]_vars, NEW s \in KnownStates'
  PROVE  Made(s) \/ \E n \in Peer : Command(n) /\ s = state'[n]
<1>1. ASSUME NEW n \in Peer, Command(n) PROVE Made(s) \/ (Command(n) /\ s = state'[n])
  <2>1. PICK new \in TodoStates : Apply(n, new)
    BY <1>1, CommandEffect
  <2>2. /\ UNCHANGED <<snapshot, inbox>>
        /\ state' = [state EXCEPT ![n] = new]
    BY <2>1 DEF Apply
  <2>3. \A m \in Peer : m # n => state'[m] = state[m]
    BY <2>2 DEF TypeOK, Sync!SyncTypeOK
  <2> QED
    BY <1>1, <2>2, <2>3, KnownWhere, KnownWhereNext DEF Made
<1>2. ASSUME UNCHANGED <<state, snapshot, inbox>> PROVE Made(s)
  BY <1>2, KnownWhere, KnownWhereNext DEF Made
<1>3. ASSUME NEW n \in Peer, NotifySync(n) PROVE Made(s)
  BY <1>2, <1>3 DEF NotifySync
<1>4. ASSUME NEW n \in Peer, StartPeer(n) PROVE Made(s)
  BY <1>2, <1>4 DEF StartPeer, Sync!Start
<1>5. ASSUME NEW n \in Peer, StopPeer(n) PROVE Made(s)
  <2>1. Sync!Stop(n)
    BY <1>5 DEF StopPeer
  <2>2. \A m \in Peer : state'[m] \in {NewState, state[m]}
    BY <2>1 DEF Sync!Stop, TypeOK, Sync!SyncTypeOK
  <2>3. \A l \in Link : snapshot'[l] \in {NewState, snapshot[l]}
    BY <2>1 DEF Sync!Stop
  <2>4. \A l \in Link, c \in Slot : \A i \in 1 .. Len(inbox'[l][c]) :
          i \in 1 .. Len(inbox[l][c]) /\ inbox'[l][c][i] = inbox[l][c][i]
    BY <2>1, StopType
  <2> QED
    BY <2>2, <2>3, <2>4, KnownWhere, KnownWhereNext DEF Made
<1>6. ASSUME NEW l \in Link, SyncStep(l) PROVE Made(s)
  BY <1>6, KnownLink DEF SyncStep
<1>7. CASE UNCHANGED vars
  BY <1>2, <1>7 DEF vars
<1> QED
  BY <1>1, <1>3, <1>4, <1>5, <1>6, <1>7 DEF Next

-----------------------------------------------------------------------------
(* The command behind a new state, with what it did. *)
LEMMA CommandState ==
  ASSUME TypeOK, NEW n \in Peer, Command(n)
  PROVE  /\ WellFormed(state[n]) => WellFormed(state'[n])
         /\ KeepsItems(n, state'[n]) \/ AddsItem(n, state'[n])
         /\ \A m \in Peer : m # n => state'[m] = state[m]
         /\ UNCHANGED <<up, stops>>
<1>1. PICK new \in TodoStates : /\ Apply(n, new)
                                /\ WellFormed(state[n]) => WellFormed(new)
                                /\ KeepsItems(n, new) \/ AddsItem(n, new)
  BY CommandEffect
<1>2. /\ state'[n] = new /\ UNCHANGED <<up, stops>>
      /\ \A m \in Peer : m # n => state'[m] = state[m]
  BY <1>1 DEF Apply, TypeOK, Sync!SyncTypeOK
<1> QED
  BY <1>1, <1>2

(* Commands and merges keep every state well formed. *)
LEMMA WellFormedStep ==
  ASSUME TypeOK, StatesWellFormed, [Next]_vars
  PROVE  StatesWellFormed'
<1> SUFFICES ASSUME NEW s \in KnownStates' PROVE WellFormed(s)
  BY DEF StatesWellFormed, WellFormed
<1>1. CASE Made(s)
  BY <1>1, NewStateType, MergeEffect, KnownTyped DEF Made, StatesWellFormed
<1>2. ASSUME NEW n \in Peer, Command(n), s = state'[n] PROVE WellFormed(s)
  BY <1>2, CommandState, KnownWhere DEF StatesWellFormed
<1> QED
  BY <1>1, <1>2, KnownStep

(* Every copy of the list is well formed, restarts, lost frames and        *)
(* reordered ones included: no item without text, flag or creator, no      *)
(* removal without its item.                                               *)
THEOREM WellFormedAlways == Spec => []StatesWellFormed
<1>1. Init => TypeOK /\ StatesWellFormed
  <2> SUFFICES ASSUME Init PROVE TypeOK /\ StatesWellFormed
    OBVIOUS
  <2>1. \A s \in KnownStates : s = NewState
    BY SyncBoundAssumption DEF Init, Sync!SyncInit, KnownStates, InTransit, Frames
  <2> QED
    BY <2>1, TypeInit, NewStateType DEF StatesWellFormed
<1>2. TypeOK /\ StatesWellFormed /\ [Next]_vars => TypeOK' /\ StatesWellFormed'
  BY TypeStep, WellFormedStep
<1> QED
  BY <1>1, <1>2, PTL DEF Spec

-----------------------------------------------------------------------------
(* TextsAgree is not inductive: the next id a peer draws must not be in    *)
(* use anywhere, and both hold only until a process ends and starts to     *)
(* count from zero.                                                        *)
ItemsInv ==
  /\ TypeOK
  /\ StatesWellFormed
  /\ IdsDrawn
  /\ NoStops => TextsAgree

(* Counters of ended processes never go back. *)
LEMMA StillNoStops ==
  ASSUME TypeOK, [Next]_vars, NoStops'
  PROVE  NoStops /\ \A n \in Peer : ~StopPeer(n)
<1>1. ASSUME NEW n \in Peer, Command(n) PROVE UNCHANGED stops
  BY <1>1, CommandState
<1>2. ASSUME NEW n \in Peer, NotifySync(n) \/ StartPeer(n) PROVE UNCHANGED stops
  BY <1>2 DEF NotifySync, StartPeer
<1>3. ASSUME NEW l \in Link, SyncStep(l) PROVE UNCHANGED stops
  BY <1>3 DEF SyncStep
<1>4. ASSUME NEW n \in Peer, StopPeer(n) PROVE FALSE
  <2>1. stops'[n] = stops[n] + 1 /\ stops[n] \in Nat
    BY <1>4 DEF StopPeer, TypeOK
  <2> QED
    BY <2>1 DEF NoStops
<1>5. CASE UNCHANGED vars
  BY <1>4, <1>5 DEF vars, NoStops
<1>6. CASE Next
  BY <1>1, <1>2, <1>3, <1>4, <1>6 DEF Next, NoStops
<1> QED
  BY <1>5, <1>6

(* Without restarts the count of ids only grows, and only commands move it. *)
LEMMA IdCount ==
  ASSUME TypeOK, [Next]_vars, NoStops', NEW m \in Peer
  PROVE  /\ next_local_id[m] \in Nat /\ next_local_id'[m] \in Nat
         /\ next_local_id[m] <= next_local_id'[m]
<1>0. next_local_id \in [Peer -> 0 .. MaxLocalId]
  BY DEF TypeOK
<1>1. ASSUME NEW n \in Peer, Command(n)
      PROVE  \/ next_local_id' = next_local_id
             \/ next_local_id' = [next_local_id EXCEPT ![n] = @ + 1]
  BY <1>1, CommandState DEF KeepsItems, AddsItem
<1>2. ASSUME NEW n \in Peer, NotifySync(n) \/ StartPeer(n) PROVE UNCHANGED next_local_id
  BY <1>2 DEF NotifySync, StartPeer
<1>3. ASSUME NEW l \in Link, SyncStep(l) PROVE UNCHANGED next_local_id
  BY <1>3 DEF SyncStep
<1>4. \/ next_local_id' = next_local_id
      \/ \E n \in Peer : next_local_id' = [next_local_id EXCEPT ![n] = @ + 1]
  BY <1>1, <1>2, <1>3, StillNoStops DEF Next, vars
<1> QED
  BY <1>0, <1>4, CounterAssumption

(* Where an item with its text comes from: a state known before, or the    *)
(* add that draws its id.                                                  *)
LEMMA TextOrigin ==
  ASSUME ItemsInv, [Next]_vars, NoStops', NEW s \in KnownStates', NEW id \in s.added
  PROVE  \/ \E u \in KnownStates : id \in u.added /\ u.texts[id] = s.texts[id]
         \/ \E n \in Peer : /\ id = Drawn(n)
                            /\ next_local_id' = [next_local_id EXCEPT ![n] = @ + 1]
                            /\ s.texts[id] = state'[n].texts[id]
<1>0. /\ TypeOK
      /\ \A u \in KnownStates : u \in TodoStates /\ WellFormed(u) /\ DOMAIN u.texts = u.added
  BY KnownTyped DEF ItemsInv, StatesWellFormed, WellFormed
<1>1. CASE s \in KnownStates
  BY <1>1
<1>2. CASE s = NewState
  BY <1>2, NewStateType
<1>3. ASSUME NEW t \in KnownStates, NEW u \in KnownStates, s = Merge(t, u)
      PROVE  \E v \in KnownStates : id \in v.added /\ v.texts[id] = s.texts[id]
  <2>1. /\ id \in DOMAIN t.texts \cup DOMAIN u.texts
        /\ s.texts[id] = IF id \in DOMAIN t.texts THEN t.texts[id] ELSE u.texts[id]
    BY <1>0, <1>3, MergeEffect
  <2> QED
    BY <1>0, <2>1
<1>4. ASSUME NEW n \in Peer, Command(n), s = state'[n]
      PROVE  \/ \E u \in KnownStates : id \in u.added /\ u.texts[id] = s.texts[id]
             \/ /\ id = Drawn(n)
                /\ next_local_id' = [next_local_id EXCEPT ![n] = @ + 1]
  <2>1. CASE KeepsItems(n, s)
    BY <2>1, KnownWhere DEF KeepsItems
  <2>2. CASE AddsItem(n, s)
    <3>1. CASE id = Drawn(n)
      BY <2>2, <3>1 DEF AddsItem
    <3>2. CASE id # Drawn(n)
      <4>1. id \in state[n].added /\ state[n] \in KnownStates
        BY <2>2, <3>2, KnownWhere DEF AddsItem
      <4>2. s.texts[id] = state[n].texts[id]
        BY <1>0, <2>2, <3>2, <4>1 DEF AddsItem
      <4> QED
        BY <4>1, <4>2
    <3> QED
      BY <3>1, <3>2
  <2> QED
    BY <1>0, <1>4, <2>1, <2>2, CommandState
<1> QED
  BY <1>0, <1>1, <1>2, <1>3, <1>4, KnownStep DEF Made

(* An id in use is not the next one of its peer. *)
LEMMA DrawnIsNew ==
  ASSUME ItemsInv, NoStops, NEW u \in KnownStates, NEW n \in Peer
  PROVE  Drawn(n) \notin u.added
<1>1. next_local_id[n] \in Nat
  BY CounterAssumption DEF ItemsInv, TypeOK
<1>2. Drawn(n)[1] = n /\ Drawn(n)[2] = next_local_id[n] + 1
  BY DEF Drawn, TodoId
<1> QED
  BY <1>1, <1>2 DEF ItemsInv, IdsDrawn

(* Every step keeps the ids below their counters and the texts in          *)
(* agreement.                                                              *)
LEMMA ItemsStep == ASSUME ItemsInv, [Next]_vars PROVE ItemsInv'
<1>0. TypeOK /\ StatesWellFormed
  BY DEF ItemsInv
<1>1. TypeOK' /\ StatesWellFormed'
  BY <1>0, TypeStep, WellFormedStep
<1>2. ASSUME NoStops'
      PROVE  NoStops /\ IdsDrawn /\ TextsAgree
  BY <1>0, <1>2, StillNoStops DEF ItemsInv
<1>3. ASSUME NoStops', NEW s \in KnownStates', NEW id \in s.added
      PROVE  id[2] <= next_local_id'[id[1]]
  <2>1. ASSUME NEW u \in KnownStates, id \in u.added PROVE id[2] <= next_local_id'[id[1]]
    <3>1. id \in Id
      BY <1>0, <2>1, KnownTyped, Fields
    <3>2. id[2] <= next_local_id[id[1]]
      BY <1>2, <1>3, <2>1 DEF IdsDrawn
    <3> QED
      BY <1>0, <1>3, <3>1, <3>2, IdCount, CounterAssumption DEF Id
  <2>2. ASSUME NEW n \in Peer, id = Drawn(n),
               next_local_id' = [next_local_id EXCEPT ![n] = @ + 1]
        PROVE  id[2] <= next_local_id'[id[1]]
    <3>1. id[1] = n /\ id[2] = next_local_id[n] + 1
      BY <2>2 DEF Drawn, TodoId
    <3>2. next_local_id'[n] = next_local_id[n] + 1 /\ next_local_id[n] \in Nat
      BY <1>0, <2>2, CounterAssumption DEF TypeOK
    <3> QED
      BY <3>1, <3>2
  <2> QED
    BY <1>3, <2>1, <2>2, TextOrigin
<1>4. ASSUME NoStops', NEW s \in KnownStates', NEW t \in KnownStates',
             NEW id \in s.added \cap t.added
      PROVE  s.texts[id] = t.texts[id]
  <2> DEFINE Old(v) == \E u \in KnownStates : id \in u.added /\ u.texts[id] = v.texts[id]
             New(v) == \E n \in Peer : /\ id = Drawn(n)
                                       /\ v.texts[id] = state'[n].texts[id]
  <2>1. (Old(s) \/ New(s)) /\ (Old(t) \/ New(t))
    BY <1>4, TextOrigin
  <2>2. ~(Old(s) \/ Old(t)) \/ ~(New(s) \/ New(t))
    BY <1>2, <1>4, DrawnIsNew
  <2>3. CASE Old(s) /\ Old(t)
    BY <1>2, <1>4, <2>3 DEF TextsAgree
  <2>4. CASE New(s) /\ New(t)
    <3>1. \A n, m \in Peer : Drawn(n) = Drawn(m) => n = m
      BY DEF Drawn, TodoId
    <3> QED
      BY <2>4, <3>1
  <2> QED
    BY <2>1, <2>2, <2>3, <2>4
<1>5. IdsDrawn'
  BY <1>3 DEF IdsDrawn
<1>6. (NoStops => TextsAgree)'
  BY <1>4 DEF TextsAgree
<1> QED
  BY <1>1, <1>5, <1>6 DEF ItemsInv

(* It holds at first, when there is no item. *)
LEMMA ItemsInit == ASSUME Init PROVE ItemsInv
<1>1. \A s \in KnownStates : s = NewState
  BY SyncBoundAssumption DEF Init, Sync!SyncInit, KnownStates, InTransit, Frames
<1>2. StatesWellFormed /\ IdsDrawn /\ TextsAgree
  BY <1>1, NewStateType DEF StatesWellFormed, IdsDrawn, TextsAgree
<1> QED
  BY <1>2, TypeInit DEF ItemsInv

THEOREM ItemsInvariant == Spec => []ItemsInv
<1>1. Init => ItemsInv
  BY ItemsInit
<1>2. ItemsInv /\ [Next]_vars => ItemsInv'
  BY ItemsStep
<1> QED
  BY <1>1, <1>2, PTL DEF Spec

(* As long as no process has ended, no two copies of an item, behind a     *)
(* lock or on the way, differ in their text.                               *)
THEOREM TextsAgreeUntilStop == Spec => [](NoStops => TextsAgree)
<1>1. ItemsInv => (NoStops => TextsAgree)
  BY DEF ItemsInv
<1> QED
  BY <1>1, ItemsInvariant, PTL

(* So any two copies that can meet end up alike, whichever merges the      *)
(* other.                                                                  *)
MergesCommute == \A s, t \in KnownStates : Alike(Merge(s, t), Merge(t, s))

(* As long as no process has ended, it is of no account in which order two *)
(* copies of the list are merged, behind a lock or on the way.             *)
THEOREM MergesCommuteUntilStop == Spec => [](NoStops => MergesCommute)
<1>1. ItemsInv => (NoStops => MergesCommute)
  <2> SUFFICES ASSUME ItemsInv, NoStops, NEW s \in KnownStates, NEW t \in KnownStates
               PROVE  Alike(Merge(s, t), Merge(t, s))
    BY DEF MergesCommute
  <2>1. s \in TodoStates /\ t \in TodoStates /\ WellFormed(s) /\ WellFormed(t)
    BY KnownTyped DEF ItemsInv, StatesWellFormed
  <2>2. \A id \in s.added \cap t.added : s.texts[id] = t.texts[id]
    BY DEF ItemsInv, TextsAgree
  <2> QED
    BY <2>1, <2>2, MergeLaws
<1> QED
  BY <1>1, ItemsInvariant, PTL

(* As long as no process has ended, the next id of a peer is unused.       *)
THEOREM IdsStayBelowCounter == Spec => []IdsDrawn
<1>1. ItemsInv => IdsDrawn
  BY DEF ItemsInv
<1> QED
  BY <1>1, ItemsInvariant, PTL

-----------------------------------------------------------------------------
(* What a step makes of the state of a process that does not end. *)
LEMMA StateStep ==
  ASSUME TypeOK, [Next]_vars, NEW n \in Peer, NoStops' \/ (up[n] /\ up'[n])
  PROVE  \/ Command(n)
         \/ state'[n] = state[n] /\ (NoStops' => next_local_id'[n] = next_local_id[n])
         \/ /\ \E o \in KnownStates : state'[n] = Merge(state[n], o)
            /\ next_local_id'[n] = next_local_id[n]
<1>0. /\ state \in [Peer -> TodoStates] /\ inbox \in [Link -> [Slot -> Seq(TodoStates)]]
      /\ next_local_id \in [Peer -> 0 .. MaxLocalId] /\ up \in [Peer -> BOOLEAN]
  BY DEF TypeOK, Sync!SyncTypeOK
<1>1. ASSUME NEW m \in Peer, Command(m), m # n
      PROVE  state'[n] = state[n] /\ next_local_id'[n] = next_local_id[n]
  BY <1>0, <1>1, CommandState DEF KeepsItems, AddsItem
<1>2. ASSUME NEW m \in Peer, NotifySync(m) \/ StartPeer(m)
      PROVE  state'[n] = state[n] /\ next_local_id'[n] = next_local_id[n]
  BY <1>2 DEF NotifySync, StartPeer, Sync!Start
<1>3. ASSUME NEW m \in Peer, StopPeer(m) PROVE state'[n] = state[n] /\ ~NoStops'
  <2>1. ~NoStops'
    BY <1>3, StillNoStops
  <2>2. m # n
    BY <1>0, <1>3, <2>1 DEF StopPeer, Sync!Stop
  <2>3. state' = [state EXCEPT ![m] = NewState]
    BY <1>3 DEF StopPeer, Sync!Stop
  <2> QED
    BY <1>0, <2>1, <2>2, <2>3
<1>4. ASSUME NEW l \in Link, SyncStep(l)
      PROVE  /\ state'[n] = state[n] \/ \E o \in KnownStates : state'[n] = Merge(state[n], o)
             /\ next_local_id'[n] = next_local_id[n]
  <2>1. UNCHANGED next_local_id /\ InTransit \subseteq KnownStates /\ Sync!LinkStep(l)
    BY <1>4 DEF SyncStep, KnownStates
  <2>2. ASSUME NEW h \in InTransit, state' = [state EXCEPT ![l[2]] = Merge(state[l[2]], h)]
        PROVE  state'[n] = state[n] \/ state'[n] = Merge(state[n], h)
    BY <1>0, <2>2
  <2> QED
    BY <2>1, <2>2, LinkMoves
<1>6. CASE UNCHANGED vars
  BY <1>6 DEF vars
<1> QED
  BY <1>1, <1>2, <1>3, <1>4, <1>6 DEF Next

(* The configurations in which no process ends. *)
NeverStops == \A n \in Peer : MaxStops[n] = 0

LEMMA NeverStopsHolds == ASSUME NeverStops PROVE Spec => []NoStops
<1>1. Init => NoStops
  BY DEF Init, NoStops
<1>2. ASSUME NoStops, [Next]_vars, TypeOK PROVE NoStops'
  <2>1. ASSUME NEW n \in Peer, StopPeer(n) PROVE FALSE
    BY <1>2, <2>1 DEF StopPeer, NeverStops, NoStops
  <2>2. ASSUME NEW n \in Peer, Command(n) PROVE UNCHANGED stops
    BY <1>2, <2>2, CommandState
  <2>3. ASSUME NEW n \in Peer, NotifySync(n) \/ StartPeer(n) PROVE UNCHANGED stops
    BY <2>3 DEF NotifySync, StartPeer
  <2>4. ASSUME NEW l \in Link, SyncStep(l) PROVE UNCHANGED stops
    BY <2>4 DEF SyncStep
  <2> QED
    BY <1>2, <2>1, <2>2, <2>3, <2>4 DEF Next, vars, NoStops
<1> QED
  BY <1>1, <1>2, TypeCorrect, PTL DEF Spec

(* The action TextsImmutable is about. *)
LEMMA TextsKept ==
  ASSUME ItemsInv, NoStops, NoStops', [Next]_vars, NEW n \in Peer, up[n], up'[n],
         NEW id \in DOMAIN state[n].texts
  PROVE  id \in DOMAIN state'[n].texts /\ state'[n].texts[id] = state[n].texts[id]
<1>0. TypeOK /\ state[n] \in KnownStates /\ state[n].added = DOMAIN state[n].texts
  BY KnownWhere DEF ItemsInv, StatesWellFormed, WellFormed
<1>1. CASE Command(n)
  BY <1>0, <1>1, CommandState, DrawnIsNew DEF KeepsItems, AddsItem
<1>2. CASE state'[n] = state[n]
  BY <1>2
<1>3. ASSUME NEW o \in KnownStates, state'[n] = Merge(state[n], o)
      PROVE  id \in DOMAIN state'[n].texts /\ state'[n].texts[id] = state[n].texts[id]
  BY <1>0, <1>3, KnownTyped, MergeEffect
<1> QED
  BY <1>0, <1>1, <1>2, <1>3, StateStep

(* Where no process ends, a replica never changes the text of an item it   *)
(* holds: neither by a command nor by a merge.                             *)
THEOREM TextsImmutableProved == ASSUME NeverStops PROVE Spec => TextsImmutable
<1>1. ItemsInv /\ NoStops /\ NoStops' /\ [Next]_vars =>
        [\A n \in Peer : up[n] /\ up'[n] =>
           \A id \in DOMAIN state[n].texts :
             /\ id \in DOMAIN state'[n].texts
             /\ state'[n].texts[id] = state[n].texts[id]]_vars
  BY TextsKept
<1> QED
  BY <1>1, NeverStopsHolds, ItemsInvariant, PTL DEF Spec, TextsImmutable

(* The action AddIsShown is about. *)
LEMMA AddShown ==
  ASSUME ItemsInv, NoStops, NoStops', [Next]_vars, NEW n \in Peer,
         next_local_id'[n] > next_local_id[n]
  PROVE  /\ TodoId(n, next_local_id'[n]) \notin state[n].added
         /\ \E todo \in Todos(state'[n], n) : todo.id = TodoId(n, next_local_id'[n])
<1>0. /\ TypeOK /\ state[n] \in KnownStates /\ state[n].removed \subseteq state[n].added
      /\ next_local_id[n] \in Nat /\ next_local_id \in [Peer -> 0 .. MaxLocalId]
  BY KnownWhere, CounterAssumption DEF ItemsInv, StatesWellFormed, WellFormed, TypeOK
<1>1. Command(n)
  <2>1. ASSUME next_local_id'[n] = next_local_id[n] PROVE FALSE
    BY <1>0, <2>1
  <2>2. ASSUME NEW m \in Peer, Command(m), m # n PROVE next_local_id'[n] = next_local_id[n]
    BY <1>0, <2>2, CommandState DEF KeepsItems, AddsItem
  <2>3. ASSUME NEW m \in Peer, NotifySync(m) \/ StartPeer(m)
        PROVE  next_local_id'[n] = next_local_id[n]
    BY <2>3 DEF NotifySync, StartPeer
  <2>4. ASSUME NEW l \in Link, SyncStep(l) PROVE next_local_id'[n] = next_local_id[n]
    BY <2>4 DEF SyncStep
  <2> QED
    BY <1>0, <2>1, <2>2, <2>3, <2>4, StillNoStops DEF Next, vars
<1>2. AddsItem(n, state'[n])
  BY <1>0, <1>1, CommandState DEF KeepsItems
<1>3. next_local_id'[n] = next_local_id[n] + 1
  BY <1>0, <1>2 DEF AddsItem
<1>4. TodoId(n, next_local_id'[n]) = Drawn(n)
  BY <1>3 DEF Drawn
<1>5. Drawn(n) \notin state[n].added
  BY <1>0, DrawnIsNew
<1>6. Drawn(n) \in state'[n].added \ state'[n].removed /\ Drawn(n) \in DOMAIN state'[n].texts
  BY <1>0, <1>2, <1>5 DEF AddsItem
<1>7. \E todo \in Todos(state'[n], n) : todo.id = Drawn(n)
  BY <1>6, TodosShow
<1> QED
  BY <1>4, <1>5, <1>7

(* Where no process ends, an added todo is new to its replica and not      *)
(* removed already.                                                        *)
THEOREM AddIsShownProved == ASSUME NeverStops PROVE Spec => AddIsShown
<1>1. ItemsInv /\ NoStops /\ NoStops' /\ [Next]_vars =>
        [\A n \in Peer : next_local_id'[n] > next_local_id[n] =>
           LET id == TodoId(n, next_local_id'[n])
           IN  /\ id \notin state[n].added
               /\ \E todo \in Todos(state'[n], n) : todo.id = id]_vars
  BY AddShown
<1> QED
  BY <1>1, NeverStopsHolds, ItemsInvariant, PTL DEF Spec, AddIsShown

-----------------------------------------------------------------------------
(* What a replica never loses: items, removals, clock entries. *)
Undone(s, t) == ~(/\ s.added \subseteq t.added
                  /\ s.removed \subseteq t.removed
                  /\ PartialCmp(s.clock, t.clock) \in {"Less", "Equal"})

LEMMA SameUndoesNothing == ASSUME NEW s \in TodoStates PROVE ~Undone(s, s)
<1>1. s.clock \in Maps(ReplicaId, 0 .. MaxCount)
  BY Fields
<1>2. NotAbove(s.clock, s.clock)
  BY <1>1, GetType, CounterAssumption DEF NotAbove
<1> QED
  BY <1>1, <1>2, NotAboveCompares, CounterAssumption DEF Undone

LEMMA MergeUndoesNothing ==
  ASSUME NEW s \in TodoStates, NEW o \in TodoStates
  PROVE  ~Undone(s, Merge(s, o))
<1>1. /\ s.clock \in Maps(ReplicaId, 0 .. MaxCount)
      /\ o.clock \in Maps(ReplicaId, 0 .. MaxCount)
      /\ Merge(s, o).clock \in Maps(ReplicaId, 0 .. MaxCount)
  BY Fields, MergeEffect
<1>2. Merge(s, o).clock = ClockMerge(s.clock, o.clock)
  BY DEF Merge
<1>3. NotAbove(s.clock, Merge(s, o).clock)
  BY <1>1, <1>2, ClockMergeAbove, CounterAssumption
<1>4. PartialCmp(s.clock, Merge(s, o).clock) \in {"Less", "Equal"}
  BY <1>1, <1>3, NotAboveCompares, CounterAssumption
<1> QED
  BY <1>4, MergeEffect DEF Undone

(* A command without effect, or one its clock entry counts. *)
Counted(n) ==
  /\ state'[n].clock = Increment(state[n].clock, ReplicaOf[n])
  /\ state[n].added \subseteq state'[n].added
  /\ state[n].removed \subseteq state'[n].removed

LEMMA CommandCounts ==
  ASSUME TypeOK, NEW n \in Peer, Command(n)
  PROVE  state'[n] = state[n] \/ Counted(n)
<1> DEFINE s == state[n]
           r == ReplicaOf[n]
<1>1. s \in TodoStates /\ \A new : Apply(n, new) => state'[n] = new
  BY DEF Apply, TypeOK, Sync!SyncTypeOK
<1>2. ASSUME NEW text, AddTodo(n, text) PROVE state'[n] = s \/ Counted(n)
  <2>1. state'[n] = s \/ state'[n] = Add(s, n, r, next_local_id[n] + 1, text)
    BY <1>1, <1>2 DEF AddTodo
  <2> QED
    BY <2>1 DEF Add, Counted
<1>3. ASSUME NEW id, ToggleTodo(n, id) PROVE state'[n] = s \/ Counted(n)
  <2>1. state'[n] = Toggle(s, r, id)
    BY <1>1, <1>3 DEF ToggleTodo
  <2> QED
    BY <1>1, <2>1 DEF Toggle, TodoStates, Counted
<1>4. ASSUME NEW id, DeleteTodo(n, id) PROVE state'[n] = s \/ Counted(n)
  <2>1. state'[n] = Delete(s, r, id)
    BY <1>1, <1>4 DEF DeleteTodo
  <2> QED
    BY <1>1, <2>1 DEF Delete, TodoStates, Counted
<1>5. CASE Resync(n)
  BY <1>1, <1>5 DEF Resync
<1> HIDE DEF s
<1>6. CASE \E text \in Text \cup {Blank} : AddTodo(n, text)
  BY <1>2, <1>6 DEF s
<1>7. CASE \E id \in Id : ToggleTodo(n, id)
  BY <1>3, <1>7 DEF s
<1>8. CASE \E id \in Id : DeleteTodo(n, id)
  BY <1>4, <1>8 DEF s
<1> QED
  BY <1>5, <1>6, <1>7, <1>8 DEF Command, s

LEMMA CommandUndoesNothing ==
  ASSUME TypeOK, TypeOK', NEW n \in Peer, Command(n)
  PROVE  ~Undone(state[n], state'[n])
<1>1. /\ state[n] \in TodoStates /\ state[n].clock \in Maps(ReplicaId, 0 .. MaxCount)
      /\ state'[n].clock \in Maps(ReplicaId, 0 .. MaxCount)
  BY Fields DEF TypeOK, Sync!SyncTypeOK
<1>2. CASE state'[n] = state[n]
  BY <1>1, <1>2, SameUndoesNothing
<1>3. CASE Counted(n)
  <2>1. NotAbove(state[n].clock, state'[n].clock)
    BY <1>1, <1>3, IncrementAbove, CounterAssumption DEF Counted
  <2>2. PartialCmp(state[n].clock, state'[n].clock) \in {"Less", "Equal"}
    BY <1>1, <2>1, NotAboveCompares, CounterAssumption
  <2> QED
    BY <1>3, <2>2 DEF Counted, Undone
<1> QED
  BY <1>2, <1>3, CommandCounts

(* While a process runs, no command, no merge and no stale or repeated     *)
(* frame takes an item, a removal or a clock entry from it, restarts of    *)
(* other processes included.                                               *)
THEOREM NothingUndoneProved == Spec => NothingUndone
<1>1. ASSUME TypeOK, TypeOK', [Next]_vars, NEW n \in Peer, up[n], up'[n]
      PROVE  ~Undone(state[n], state'[n])
  <2>1. state[n] \in TodoStates
    BY <1>1 DEF TypeOK, Sync!SyncTypeOK
  <2>2. CASE Command(n)
    BY <1>1, <2>2, CommandUndoesNothing
  <2>3. CASE state'[n] = state[n]
    BY <2>1, <2>3, SameUndoesNothing
  <2>4. ASSUME NEW o \in KnownStates, state'[n] = Merge(state[n], o)
        PROVE  ~Undone(state[n], state'[n])
    BY <1>1, <2>1, <2>4, KnownTyped, MergeUndoesNothing
  <2> QED
    BY <1>1, <2>2, <2>3, <2>4, StateStep
<1>2. TypeOK /\ TypeOK' /\ [Next]_vars =>
        [\A n \in Peer : up[n] /\ up'[n] =>
           /\ state[n].added \subseteq state'[n].added
           /\ state[n].removed \subseteq state'[n].removed
           /\ PartialCmp(state[n].clock, state'[n].clock) \in {"Less", "Equal"}]_vars
  BY <1>1 DEF Undone
<1> QED
  BY <1>2, TypeCorrect, PTL DEF Spec, NothingUndone
=============================================================================
