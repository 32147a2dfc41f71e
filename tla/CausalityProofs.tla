-------------------------- MODULE CausalityProofs ---------------------------
(***************************************************************************)
(* Proof that the order of the clocks is the happened-before order, for    *)
(* any number of replicas, events and states sent.                         *)
(***************************************************************************)
EXTENDS Causality, VectorClockProofs

(* An event names its replica and its number. *)
LEMMA EventFields ==
  ASSUME NEW e \in Event
  PROVE  e[1] \in Replica /\ e[2] \in 1 .. MaxEvents /\ e = <<e[1], e[2]>>
  BY EventsAssumption DEF Event

(* Entries are within the bound, absent ones zero. *)
LEMMA ClockEntries ==
  ASSUME NEW c \in Clocks
  PROVE  /\ DOMAIN c \subseteq Replica
         /\ \A r : Get(c, r) \in 0 .. MaxEvents
         /\ \A r : r \notin DOMAIN c => Get(c, r) = 0
<1>1. DOMAIN c \subseteq Replica /\ c \in [DOMAIN c -> 0 .. MaxEvents]
  BY MapsMember DEF Clocks
<1> QED
  BY <1>1, EventsAssumption DEF Get, GetOr

(* Clocks are ordered as the sets of events they stand for. *)
LEMMA CoverOrder ==
  ASSUME NEW a \in Clocks, NEW b \in Clocks
  PROVE  NotAbove(a, b) <=> CoverOf(a) \subseteq CoverOf(b)
<1>1. /\ DOMAIN a \subseteq Replica /\ DOMAIN b \subseteq Replica
      /\ \A r : Get(a, r) \in 0 .. MaxEvents /\ Get(b, r) \in 0 .. MaxEvents
      /\ \A r : r \notin DOMAIN a => Get(a, r) = 0
  BY ClockEntries
<1>2. ASSUME NotAbove(a, b), NEW e \in CoverOf(a) PROVE e \in CoverOf(b)
  <2>1. e \in Event /\ e[2] \in 1 .. MaxEvents /\ e[2] <= Get(a, e[1])
    BY EventFields DEF CoverOf
  <2>2. e[1] \in DOMAIN a
    BY <1>1, <2>1, EventsAssumption
  <2>3. Get(a, e[1]) <= Get(b, e[1])
    BY <1>2, <2>2 DEF NotAbove
  <2>4. e[2] <= Get(b, e[1])
    BY <1>1, <2>1, <2>3, EventsAssumption
  <2> QED
    BY <2>1, <2>4 DEF CoverOf
<1>3. ASSUME CoverOf(a) \subseteq CoverOf(b), NEW r \in DOMAIN a \cup DOMAIN b,
             Get(a, r) > Get(b, r)
      PROVE  FALSE
  <2>1. r \in Replica
    BY <1>1
  <2>2. Get(a, r) \in 1 .. MaxEvents
    BY <1>1, <1>3, EventsAssumption
  <2> DEFINE e == <<r, Get(a, r)>>
  <2>3. e \in Event /\ e[1] = r /\ e[2] = Get(a, r)
    BY <2>1, <2>2 DEF Event
  <2> HIDE DEF e
  <2>4. e \in CoverOf(a)
    BY <2>2, <2>3, EventsAssumption DEF CoverOf
  <2>5. e[2] <= Get(b, r)
    BY <1>3, <2>3, <2>4 DEF CoverOf
  <2> QED
    BY <1>1, <1>3, <2>2, <2>3, <2>5, EventsAssumption
<1> QED
  BY <1>1, <1>2, <1>3, EventsAssumption DEF NotAbove

-----------------------------------------------------------------------------
(* A clock after an increment stands for one event more. *)
LEMMA CoverIncrement ==
  ASSUME NEW c \in Clocks, NEW r \in Replica, Get(c, r) < MaxEvents
  PROVE  /\ Increment(c, r) \in Clocks
         /\ <<r, Get(c, r) + 1>> \in Event
         /\ Get(Increment(c, r), r) = Get(c, r) + 1
         /\ CoverOf(Increment(c, r)) = CoverOf(c) \cup {<<r, Get(c, r) + 1>>}
<1> DEFINE d == Increment(c, r)
           new == <<r, Get(c, r) + 1>>
<1>1. d \in Clocks
  BY IncrementType, EventsAssumption DEF Clocks
<1>2. \A x : Get(d, x) = IF x = r THEN Get(c, r) + 1 ELSE Get(c, x)
  BY GetIncrement, EventsAssumption DEF Clocks
<1>3. \A x : Get(c, x) \in 0 .. MaxEvents
  BY ClockEntries
<1>4. Get(c, r) + 1 \in 1 .. MaxEvents
  BY <1>3, EventsAssumption
<1>5. new \in Event /\ new[1] = r /\ new[2] = Get(c, r) + 1
  BY <1>4 DEF Event
<1> HIDE DEF d, new
<1>6. ASSUME NEW e \in Event
      PROVE  e[2] <= Get(d, e[1]) <=> e[2] <= Get(c, e[1]) \/ e = new
  <2>1. e[2] \in 1 .. MaxEvents /\ e = <<e[1], e[2]>>
    BY EventFields
  <2>2. CASE e[1] = r
    <3>1. e = new <=> e[2] = Get(c, r) + 1
      BY <1>5, <2>1, <2>2 DEF new
    <3> QED
      BY <1>2, <1>3, <2>1, <2>2, <3>1, EventsAssumption
  <2>3. CASE e[1] # r
    <3>1. e # new
      BY <1>5, <2>3
    <3> QED
      BY <1>2, <2>3, <3>1
  <2> QED
    BY <2>2, <2>3
<1>7. CoverOf(d) = CoverOf(c) \cup {new}
  BY <1>5, <1>6 DEF CoverOf
<1> QED
  BY <1>1, <1>2, <1>5, <1>7 DEF d, new

(* A merged clock stands for the events of both. *)
LEMMA CoverMerge ==
  ASSUME NEW c \in Clocks, NEW d \in Clocks
  PROVE  /\ ClockMerge(c, d) \in Clocks
         /\ CoverOf(ClockMerge(c, d)) = CoverOf(c) \cup CoverOf(d)
         /\ \A r : Get(c, r) <= Get(ClockMerge(c, d), r)
<1>1. ClockMerge(c, d) \in Clocks
  BY ClockMergeType, EventsAssumption DEF Clocks
<1>2. \A x : Get(ClockMerge(c, d), x) = Larger(Get(c, x), Get(d, x))
  BY GetClockMerge, EventsAssumption DEF Clocks
<1>3. \A x : Get(c, x) \in Nat /\ Get(d, x) \in Nat
  BY ClockEntries, EventsAssumption
<1>4. \A r : Get(c, r) <= Get(ClockMerge(c, d), r)
  BY <1>2, <1>3 DEF Larger
<1>5. ASSUME NEW e \in Event
      PROVE  e[2] <= Get(ClockMerge(c, d), e[1])
               <=> e[2] <= Get(c, e[1]) \/ e[2] <= Get(d, e[1])
  <2>1. e[2] \in Nat
    BY EventFields, EventsAssumption
  <2> QED
    BY <1>2, <1>3, <2>1 DEF Larger
<1> QED
  BY <1>1, <1>4, <1>5 DEF CoverOf

-----------------------------------------------------------------------------
LEMMA InitCausal == Init => CausalInv
<1> SUFFICES ASSUME Init PROVE CausalInv
  OBVIOUS
<1>1. NewClock \in Clocks /\ DOMAIN NewClock = {}
  BY EmptyMapType DEF NewClock, Clocks
<1>2. CoverOf(NewClock) = {}
  <2>1. \A r : Get(NewClock, r) = 0
    BY <1>1, ClockEntries
  <2> QED
    BY <2>1, EventFields, EventsAssumption DEF CoverOf
<1>3. DOMAIN stamp = {} /\ DOMAIN past = {}
  BY EmptyMapType DEF Init
<1>4. ClockTypeOK
  BY <1>1, <1>3 DEF Init, ClockTypeOK
<1>5. ClocksCover /\ OwnEntryCounts
  BY <1>2, <1>3 DEF Init, ClocksCover, OwnEntryCounts, Closed
<1> QED
  BY <1>4, <1>5 DEF CausalInv

(* An operation: the new event is beyond all its replica had, and its past *)
(* is what its replica knew.                                               *)
LEMMA UpdateCausal ==
  ASSUME CausalInv, NEW r \in Replica, NEW what, Update(r, what)
  PROVE  CausalInv'
<1> DEFINE next == Increment(clock[r], r)
           e == <<r, Get(clock[r], r) + 1>>
<1> USE DEF CausalInv
<1>1. clock[r] \in Clocks /\ Get(clock[r], r) < MaxEvents
  BY DEF ClockTypeOK, Update
<1>2. /\ next \in Clocks /\ e \in Event /\ Get(next, r) = Get(clock[r], r) + 1
      /\ CoverOf(next) = CoverOf(clock[r]) \cup {e}
  BY <1>1, CoverIncrement
<1>3. e[1] = r /\ e[2] = Get(clock[r], r) + 1
  OBVIOUS
<1>4. \A x : Get(next, x) = IF x = r THEN Get(clock[r], r) + 1 ELSE Get(clock[r], x)
  BY <1>1, GetIncrement, EventsAssumption DEF Clocks
<1> HIDE DEF next, e
<1>5. /\ clock' = [clock EXCEPT ![r] = next]
      /\ known' = [known EXCEPT ![r] = known[r] \cup {e}]
      /\ stamp' = Insert(stamp, e, next)
      /\ past' = Insert(past, e, known[r])
      /\ sent' = sent
  BY <1>2 DEF Update, next, e
<1>6. \A x : Get(clock[r], x) \in 0 .. MaxEvents
  BY <1>1, ClockEntries
<1>7. e \notin DOMAIN stamp
  BY <1>3, <1>6, EventsAssumption DEF OwnEntryCounts
<1>8. /\ DOMAIN stamp' = DOMAIN stamp \cup {e}
      /\ DOMAIN past' = DOMAIN past \cup {e}
      /\ stamp'[e] = next /\ past'[e] = known[r]
      /\ \A f \in DOMAIN stamp : stamp'[f] = stamp[f]
      /\ \A f \in DOMAIN past : f # e => past'[f] = past[f]
  <2>1. stamp' = [x \in DOMAIN stamp \cup {e} |-> IF x = e THEN next ELSE stamp[x]]
    BY <1>5 DEF Insert
  <2>2. past' = [x \in DOMAIN past \cup {e} |-> IF x = e THEN known[r] ELSE past[x]]
    BY <1>5 DEF Insert
  <2> QED
    BY <1>7, <2>1, <2>2
<1>9. DOMAIN past = DOMAIN stamp
  BY DEF ClockTypeOK
<1>10. \A ev : Closed(ev) => Closed(ev)'
  BY <1>7, <1>8, <1>9 DEF Closed
<1>11. known[r] = CoverOf(clock[r]) /\ Closed(known[r]) /\ known[r] \subseteq DOMAIN stamp
  BY DEF ClocksCover, Closed
<1>12. \A ev : ev = known[r] \cup {e} => Closed(ev)'
  BY <1>7, <1>8, <1>9, <1>11 DEF Closed
<1>13. ClockTypeOK'
  <2>1. clock' \in [Replica -> Clocks] /\ known' \in [Replica -> SUBSET Event]
    BY <1>2, <1>5 DEF ClockTypeOK
  <2>2. \A f \in DOMAIN stamp' : stamp'[f] \in Clocks /\ past'[f] \subseteq Event
    BY <1>2, <1>7, <1>8, <1>9 DEF ClockTypeOK
  <2>3. DOMAIN stamp' \subseteq Event /\ DOMAIN past' = DOMAIN stamp'
    BY <1>2, <1>8 DEF ClockTypeOK
  <2> QED
    BY <1>5, <2>1, <2>2, <2>3 DEF ClockTypeOK
<1>14. ClocksCover'
  <2>1. ASSUME NEW q \in Replica
        PROVE  known'[q] = CoverOf(clock'[q]) /\ Closed(known[q])' 
    <3>1. CASE q = r
      <4>1. known'[q] = known[r] \cup {e} /\ clock'[q] = next
        BY <1>5, <3>1 DEF ClockTypeOK
      <4> QED
        BY <1>2, <1>11, <1>12, <4>1 DEF Closed
    <3>2. CASE q # r
      <4>1. known'[q] = known[q] /\ clock'[q] = clock[q]
        BY <1>5, <3>2 DEF ClockTypeOK
      <4>2. known[q] = CoverOf(clock[q]) /\ Closed(known[q])
        BY DEF ClocksCover
      <4> QED
        BY <1>10, <4>1, <4>2 DEF Closed
    <3> QED
      BY <3>1, <3>2
  <2>2. ASSUME NEW s \in sent
        PROVE  s.known = CoverOf(s.clock) /\ Closed(s.known)'
    BY <1>10 DEF ClocksCover, Closed
  <2>3. ASSUME NEW f \in DOMAIN stamp'
        PROVE  /\ past'[f] \cup {f} = CoverOf(stamp'[f])
               /\ Closed(past[f])'
               /\ f \notin past'[f]
    <3>1. CASE f = e
      BY <1>2, <1>7, <1>8, <1>9, <1>11, <3>1 DEF Closed
    <3>2. CASE f # e
      <4>1. f \in DOMAIN stamp /\ past'[f] = past[f] /\ stamp'[f] = stamp[f]
        BY <1>8, <1>9, <3>2
      <4>2. /\ past[f] \cup {f} = CoverOf(stamp[f]) /\ Closed(past[f])
            /\ f \notin past[f]
        BY <4>1 DEF ClocksCover
      <4> QED
        BY <1>7, <1>8, <1>9, <4>1, <4>2 DEF Closed
    <3> QED
      BY <3>1, <3>2
  <2> QED
    BY <1>5, <2>1, <2>2, <2>3 DEF ClocksCover, CoverOf, Closed
<1>15. OwnEntryCounts'
  <2> SUFFICES ASSUME NEW f \in DOMAIN stamp'
               PROVE  f[2] <= Get(clock'[f[1]], f[1])
    BY DEF OwnEntryCounts
  <2>1. CASE f = e
    <3>1. clock'[r] = next
      BY <1>5 DEF ClockTypeOK
    <3> QED
      BY <1>2, <1>3, <1>6, <2>1, <3>1, EventsAssumption
  <2>2. CASE f # e
    <3>1. f \in DOMAIN stamp /\ f \in Event
      BY <1>8, <2>2 DEF ClockTypeOK
    <3>2. f[1] \in Replica /\ f[2] \in Nat /\ f[2] <= Get(clock[f[1]], f[1])
      BY <3>1, EventFields, EventsAssumption DEF OwnEntryCounts
    <3>3. CASE f[1] = r
      <4>1. clock'[r] = next
        BY <1>5 DEF ClockTypeOK
      <4> QED
        BY <1>2, <1>6, <3>2, <3>3, <4>1, EventsAssumption
    <3>4. CASE f[1] # r
      <4>1. clock'[f[1]] = clock[f[1]]
        BY <1>5, <3>2, <3>4 DEF ClockTypeOK
      <4> QED
        BY <3>2, <4>1
    <3> QED
      BY <3>3, <3>4
  <2> QED
    BY <2>1, <2>2
<1> QED
  BY <1>13, <1>14, <1>15

LEMMA SendCausal ==
  ASSUME CausalInv, NEW r \in Replica, Send(r)
  PROVE  CausalInv'
<1> USE DEF CausalInv
<1> DEFINE s == StateOf(r)
<1>1. s.clock = clock[r] /\ s.known = known[r]
  BY DEF StateOf
<1>2. s.clock \in Clocks /\ s.known \subseteq Event
  BY <1>1 DEF ClockTypeOK
<1> HIDE DEF s
<1>3. sent' = sent \cup {s} /\ UNCHANGED <<clock, known, stamp, past>>
  BY DEF Send, s
<1>4. ClockTypeOK'
  BY <1>2, <1>3 DEF ClockTypeOK
<1>5. \A ev : Closed(ev)' <=> Closed(ev)
  BY <1>3 DEF Closed
<1>6. s.known = CoverOf(s.clock) /\ Closed(s.known)
  BY <1>1 DEF ClocksCover
<1>7. ClocksCover'
  BY <1>3, <1>6 DEF ClocksCover, CoverOf, Closed
<1>8. OwnEntryCounts'
  BY <1>3 DEF OwnEntryCounts
<1> QED
  BY <1>4, <1>7, <1>8

LEMMA ReceiveCausal ==
  ASSUME CausalInv, NEW r \in Replica, NEW s \in sent, Receive(r, s)
  PROVE  CausalInv'
<1> USE DEF CausalInv
<1> DEFINE c == ClockMerge(clock[r], s.clock)
<1>1. clock[r] \in Clocks /\ s.clock \in Clocks
  BY DEF ClockTypeOK
<1>2. /\ c \in Clocks
      /\ CoverOf(c) = CoverOf(clock[r]) \cup CoverOf(s.clock)
      /\ \A q : Get(clock[r], q) <= Get(c, q)
  BY <1>1, CoverMerge
<1> HIDE DEF c
<1>3. /\ clock' = [clock EXCEPT ![r] = c]
      /\ known' = [known EXCEPT ![r] = known[r] \cup s.known]
      /\ UNCHANGED <<sent, stamp, past>>
  BY DEF Receive, c
<1>4. known[r] \in SUBSET Event /\ s.known \in SUBSET Event
  BY DEF ClockTypeOK
<1>5. ClockTypeOK'
  BY <1>2, <1>3, <1>4 DEF ClockTypeOK
<1>6. /\ known[r] = CoverOf(clock[r]) /\ Closed(known[r])
      /\ s.known = CoverOf(s.clock) /\ Closed(s.known)
  BY DEF ClocksCover
<1>7. ClocksCover'
  <2>1. ASSUME NEW q \in Replica
        PROVE  known'[q] = CoverOf(clock'[q]) /\ Closed(known[q])'
    <3>1. CASE q = r
      <4>1. known'[q] = known[r] \cup s.known /\ clock'[q] = c
        BY <1>3, <3>1 DEF ClockTypeOK
      <4>2. Closed(known[r] \cup s.known)
        BY <1>6 DEF Closed
      <4> QED
        BY <1>2, <1>3, <1>6, <4>1, <4>2 DEF Closed
    <3>2. CASE q # r
      <4>1. known'[q] = known[q] /\ clock'[q] = clock[q]
        BY <1>3, <3>2 DEF ClockTypeOK
      <4> QED
        BY <1>3, <4>1 DEF ClocksCover, Closed
    <3> QED
      BY <3>1, <3>2
  <2> QED
    BY <1>3, <2>1 DEF ClocksCover, CoverOf, Closed
<1>8. OwnEntryCounts'
  <2> SUFFICES ASSUME NEW f \in DOMAIN stamp
               PROVE  f[2] <= Get(clock'[f[1]], f[1])
    BY <1>3 DEF OwnEntryCounts
  <2>1. f[1] \in Replica /\ f[2] \in Nat /\ f[2] <= Get(clock[f[1]], f[1])
    BY EventFields, EventsAssumption DEF OwnEntryCounts, ClockTypeOK
  <2>2. CASE f[1] = r
    <3>1. clock'[r] = c
      BY <1>3 DEF ClockTypeOK
    <3>2. Get(clock[r], r) \in Nat /\ Get(c, r) \in Nat
      BY <1>1, <1>2, ClockEntries, EventsAssumption
    <3> QED
      BY <1>2, <2>1, <2>2, <3>1, <3>2
  <2>3. CASE f[1] # r
    <3>1. clock'[f[1]] = clock[f[1]]
      BY <1>3, <2>1, <2>3 DEF ClockTypeOK
    <3> QED
      BY <2>1, <3>1
  <2> QED
    BY <2>2, <2>3
<1> QED
  BY <1>5, <1>7, <1>8

-----------------------------------------------------------------------------
(* Clocks stand for what is known, whatever is sent, lost, late or merged  *)
(* twice.                                                                  *)
THEOREM CausalInvariant == Spec => []CausalInv
<1>1. Init => CausalInv
  BY InitCausal
<1>2. CausalInv /\ [Next]_vars => CausalInv'
  <2> SUFFICES ASSUME CausalInv, [Next]_vars PROVE CausalInv'
    OBVIOUS
  <2>1. CASE Next
    <3> PICK r \in Replica :
           \/ \E n \in Increments[r] : IncrementBy(r, n)
           \/ \E n \in Decrements[r] : DecrementBy(r, n)
           \/ \E v \in Insertions[r] : InsertElement(r, v)
           \/ Send(r)
           \/ \E s \in sent : Receive(r, s)
      BY <2>1 DEF Next
    <3>1. CASE \E what : Update(r, what)
      BY <3>1, UpdateCausal
    <3>2. CASE Send(r) \/ \E s \in sent : Receive(r, s)
      BY <3>2, SendCausal, ReceiveCausal
    <3> QED
      BY <3>1, <3>2 DEF IncrementBy, DecrementBy, InsertElement
  <2>2. CASE UNCHANGED vars
    BY <2>2 DEF vars, CausalInv, ClockTypeOK, ClocksCover, CoverOf, Closed, OwnEntryCounts
  <2> QED
    BY <2>1, <2>2
<1> QED
  BY <1>1, <1>2, PTL DEF Spec

(* Where clocks stand for what is known, their order is the order of       *)
(* events.                                                                 *)
LEMMA CoverGivesOrder == CausalInv => ClockOrderIsCausalOrder
<1> SUFFICES ASSUME CausalInv, NEW e \in DOMAIN stamp, NEW f \in DOMAIN stamp
             PROVE  /\ HappensBefore(stamp[e], stamp[f]) <=> e \in past[f]
                    /\ ConcurrentWith(stamp[e], stamp[f])
                         <=> e # f /\ e \notin past[f] /\ f \notin past[e]
                    /\ PartialCmp(stamp[e], stamp[f]) = "Equal" <=> e = f
  BY DEF ClockOrderIsCausalOrder
<1> USE DEF CausalInv
<1>1. stamp[e] \in Clocks /\ stamp[f] \in Clocks
  BY DEF ClockTypeOK
<1>2. /\ past[e] \cup {e} = CoverOf(stamp[e]) /\ Closed(past[e]) /\ e \notin past[e]
      /\ past[f] \cup {f} = CoverOf(stamp[f]) /\ Closed(past[f]) /\ f \notin past[f]
  BY DEF ClocksCover
<1>3. /\ e \in past[f] => past[e] \subseteq past[f]
      /\ f \in past[e] => past[f] \subseteq past[e]
  BY <1>2 DEF Closed
<1>4. NotAbove(stamp[e], stamp[f]) <=> e = f \/ e \in past[f]
  <2>1. NotAbove(stamp[e], stamp[f]) <=> past[e] \cup {e} \subseteq past[f] \cup {f}
    BY <1>1, <1>2, CoverOrder
  <2> QED
    BY <1>3, <2>1
<1>5. NotAbove(stamp[f], stamp[e]) <=> e = f \/ f \in past[e]
  <2>1. NotAbove(stamp[f], stamp[e]) <=> past[f] \cup {f} \subseteq past[e] \cup {e}
    BY <1>1, <1>2, CoverOrder
  <2> QED
    BY <1>3, <2>1
<1>6. ~(e \in past[f] /\ f \in past[e])
  BY <1>2, <1>3
<1>7. /\ HappensBefore(stamp[e], stamp[f])
           <=> NotAbove(stamp[e], stamp[f]) /\ ~NotAbove(stamp[f], stamp[e])
      /\ ConcurrentWith(stamp[e], stamp[f])
           <=> ~NotAbove(stamp[e], stamp[f]) /\ ~NotAbove(stamp[f], stamp[e])
      /\ PartialCmp(stamp[e], stamp[f]) = "Equal"
           <=> NotAbove(stamp[e], stamp[f]) /\ NotAbove(stamp[f], stamp[e])
  BY <1>1, ComparesEntries, EventsAssumption DEF Clocks
<1> QED
  BY <1>2, <1>4, <1>5, <1>6, <1>7

(* Comparing two clocks tells whether one event happened before another,   *)
(* whether they are the same or concurrent.                                *)
THEOREM ClocksTellCausality == Spec => []ClockOrderIsCausalOrder
<1> QED
  BY CausalInvariant, CoverGivesOrder, PTL
=============================================================================
