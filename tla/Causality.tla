----------------------------- MODULE Causality ------------------------------
(***************************************************************************)
(* Replicas of crdt-core's types and what these promise.  Each replica     *)
(* keeps a PNCounter, a GSet and a VectorClock and uses the clock as       *)
(* TodoState does: each operation increments the replica's own entry, each *)
(* merge of a state merges its clock.  Beside them the module keeps what   *)
(* they stand for: which events a replica knows, and which ones were known *)
(* to an event's replica when it happened.                                 *)
(***************************************************************************)
EXTENDS Counters, GSet

CONSTANTS
  Replica,    \* the replicas
  Value,      \* the elements of the sets
  Increments, \* Increments[r], Decrements[r], Insertions[r]: the arguments of
  Decrements, \*   the operations r performs
  Insertions,
  MaxEvents,  \* bound on the events of a replica (u64::MAX in the code)
  MaxSent     \* bound on the states sent

ASSUME EventsAssumption == MaxEvents \in Nat /\ MaxSent \in Nat
ASSUME OperationsAssumption ==
  /\ Increments \in [Replica -> SUBSET (0 .. Modulus - 1)]
  /\ Decrements \in [Replica -> SUBSET (0 .. Modulus - 1)]
  /\ Insertions \in [Replica -> SUBSET Value]

VARIABLES
  clock,    \* clock[r]: r's VectorClock
  counter,  \* counter[r]: r's PNCounter
  elements, \* elements[r]: r's GSet
  known,    \* known[r]: the events r knows of
  sent,     \* the states sent, each with its known events, in no order, kept
            \*   for ever (a frame may be late, lost or merged many times)
  stamp,    \* stamp[e]: the clock of e's replica just after e
  past,     \* past[e]: the events known to e's replica just before e
  effect    \* effect[e]: what e did

vars == <<clock, counter, elements, known, sent, stamp, past, effect>>

Event == Replica \X (1 .. MaxEvents)
Clocks == Maps(Replica, 0 .. MaxEvents)
GCounters == Maps(Replica, 0 .. Modulus - 1)
PNCounters == [increments : GCounters, decrements : GCounters]
Effects ==
  [type : {"increment", "decrement"}, n : 0 .. Modulus - 1]
    \cup [type : {"insert"}, value : Value]

ClockTypeOK ==
  /\ clock \in [Replica -> Clocks]
  /\ known \in [Replica -> SUBSET Event]
  /\ \A s \in sent : s.clock \in Clocks /\ s.known \subseteq Event
  /\ DOMAIN stamp \subseteq Event /\ DOMAIN past = DOMAIN stamp
  /\ \A e \in DOMAIN stamp : stamp[e] \in Clocks /\ past[e] \subseteq Event

TypeOK ==
  /\ ClockTypeOK
  /\ counter \in [Replica -> PNCounters]
  /\ elements \in [Replica -> SUBSET Value]
  /\ \A s \in sent : s.counter \in PNCounters /\ s.elements \subseteq Value
  /\ effect \in [DOMAIN stamp -> Effects]

Init ==
  /\ clock = [r \in Replica |-> NewClock]
  /\ counter = [r \in Replica |-> NewPNCounter]
  /\ elements = [r \in Replica |-> NewSet]
  /\ known = [r \in Replica |-> {}]
  /\ sent = {}
  /\ stamp = EmptyMap /\ past = EmptyMap /\ effect = EmptyMap

(* An operation of r: its replica's entry counts it. *)
Update(r, what) ==
  LET next == Increment(clock[r], r)
      e    == <<r, Get(next, r)>>
  IN  /\ Get(clock[r], r) < MaxEvents
      /\ clock'  = [clock EXCEPT ![r] = next]
      /\ known'  = [known EXCEPT ![r] = @ \cup {e}]
      /\ stamp'  = Insert(stamp, e, next)
      /\ past'   = Insert(past, e, known[r])
      /\ effect' = Insert(effect, e, what)
      /\ UNCHANGED sent

IncrementBy(r, n) ==
  /\ counter' = [counter EXCEPT ![r] = PNIncrement(@, r, n)]
  /\ Update(r, [type |-> "increment", n |-> n])
  /\ UNCHANGED elements

DecrementBy(r, n) ==
  /\ counter' = [counter EXCEPT ![r] = PNDecrement(@, r, n)]
  /\ Update(r, [type |-> "decrement", n |-> n])
  /\ UNCHANGED elements

InsertElement(r, v) ==
  /\ elements' = [elements EXCEPT ![r] = InsertValue(@, v)]
  /\ Update(r, [type |-> "insert", value |-> v])
  /\ UNCHANGED counter

StateOf(r) ==
  [clock |-> clock[r], counter |-> counter[r], elements |-> elements[r], known |-> known[r]]

Send(r) ==
  /\ Cardinality(sent) < MaxSent
  /\ sent' = sent \cup {StateOf(r)}
  /\ UNCHANGED <<clock, counter, elements, known, stamp, past, effect>>

(* Mutant: a merge takes the events and leaves the clock. *)
ReceiveKeepsClock(r, s) ==
  /\ counter'  = [counter EXCEPT ![r] = PNMerge(@, s.counter)]
  /\ elements' = [elements EXCEPT ![r] = SetMerge(@, s.elements)]
  /\ known'    = [known EXCEPT ![r] = @ \cup s.known]
  /\ UNCHANGED <<clock, sent, stamp, past, effect>>

(* A merge is no event of its own: it does not increment. *)
Receive(r, s) ==
  /\ clock'    = [clock EXCEPT ![r] = ClockMerge(@, s.clock)]
  /\ counter'  = [counter EXCEPT ![r] = PNMerge(@, s.counter)]
  /\ elements' = [elements EXCEPT ![r] = SetMerge(@, s.elements)]
  /\ known'    = [known EXCEPT ![r] = @ \cup s.known]
  /\ UNCHANGED <<sent, stamp, past, effect>>

Next ==
  \E r \in Replica :
    \/ \E n \in Increments[r] : IncrementBy(r, n)
    \/ \E n \in Decrements[r] : DecrementBy(r, n)
    \/ \E v \in Insertions[r] : InsertElement(r, v)
    \/ Send(r)
    \/ \E s \in sent : Receive(r, s)

Spec == Init /\ [][Next]_vars

-----------------------------------------------------------------------------
(* The order of the clocks is the happened-before order of the events.     *)
ClockOrderIsCausalOrder ==
  \A e, f \in DOMAIN stamp :
    /\ HappensBefore(stamp[e], stamp[f]) <=> e \in past[f]
    /\ ConcurrentWith(stamp[e], stamp[f])
         <=> e # f /\ e \notin past[f] /\ f \notin past[e]
    /\ PartialCmp(stamp[e], stamp[f]) = "Equal" <=> e = f

-----------------------------------------------------------------------------
(* Why: a clock stands for a set of events, all up to its entries, ...     *)
CoverOf(c) == {e \in Event : e[2] <= Get(c, e[1])}

(* ... and what is known with an event includes what was known before it.  *)
Closed(events) ==
  events \subseteq DOMAIN stamp /\ \A f \in events : past[f] \subseteq events

ClocksCover ==
  /\ \A r \in Replica : known[r] = CoverOf(clock[r]) /\ Closed(known[r])
  /\ \A s \in sent : s.known = CoverOf(s.clock) /\ Closed(s.known)
  /\ \A e \in DOMAIN stamp :
       /\ past[e] \cup {e} = CoverOf(stamp[e])
       /\ Closed(past[e])
       /\ e \notin past[e]

(* And no event of a replica is beyond the replica's own entry.            *)
OwnEntryCounts ==
  \A e \in DOMAIN stamp : e[2] <= Get(clock[e[1]], e[1])

CausalInv == ClockTypeOK /\ ClocksCover /\ OwnEntryCounts

-----------------------------------------------------------------------------
(* The events of one kind, those of one replica, what they add up to.      *)
OfType(events, type) == {e \in events : effect[e].type = type}

EventsOf(events, r) == {e \in events : e[1] = r}

Total(events, type) == SumFunction([e \in OfType(events, type) |-> effect[e].n])

OwnTotal(events, type, r) == Total(EventsOf(events, r), type)

(* A GCounter has an entry for each replica with a known event, and there  *)
(* what these add up to, while u64 holds that much.                        *)
CountsOf(counts, events, type) ==
  /\ DOMAIN counts = {e[1] : e \in OfType(events, type)}
  /\ \A r \in DOMAIN counts :
       OwnTotal(events, type, r) < Modulus => counts[r] = OwnTotal(events, type, r)

Inserted(events) == {effect[e].value : e \in OfType(events, "insert")}

Copies == sent \cup {StateOf(r) : r \in Replica}

(* What a replica or a frame holds stands for the events known with it.    *)
StandFor(c, els, events) ==
  /\ CountsOf(c.increments, events, "increment")
  /\ CountsOf(c.decrements, events, "decrement")
  /\ els = Inserted(events)

DataInv ==
  /\ TypeOK
  /\ \A s \in Copies : IsFiniteSet(s.known) /\ StandFor(s.counter, s.elements, s.known)

(* No replica has counted beyond u64 with these events. *)
NothingWrapped(events) ==
  \A r \in Replica, type \in {"increment", "decrement"} :
    OwnTotal(events, type, r) < Modulus

(* Strong eventual consistency: clocks compare equal exactly where the same *)
(* events are known, and who knows the same events holds equal values      *)
(* (Rust's ==), in whatever order and however often the states were merged, *)
(* as long as no own count of theirs has wrapped around.                   *)
SameEventsSameValues ==
  \A s, t \in Copies :
    /\ PartialCmp(s.clock, t.clock) = "Equal" <=> s.known = t.known
    /\ s.known = t.known /\ NothingWrapped(s.known) =>
         s.counter = t.counter /\ s.elements = t.elements

(* PNCounter::value is what was added less what was taken, over the known  *)
(* events, while neither sum exceeds u64; replica_count counts replicas    *)
(* with a known increment, by zero too.                                    *)
ValueCountsEvents ==
  \A s \in Copies :
    /\ Total(s.known, "increment") < Modulus /\ Total(s.known, "decrement") < Modulus =>
         PNValue(s.counter) = Total(s.known, "increment") - Total(s.known, "decrement")
    /\ ReplicaCount(s.counter.increments)
         = Cardinality({e[1] : e \in OfType(s.known, "increment")})
=============
