------------------------------ MODULE Counters ------------------------------
(***************************************************************************)
(* crdt-core's GCounter, a HashMap from replica ids to u64 counts, and     *)
(* PNCounter, a pair of them.  Addition and sum wrap around, as in a       *)
(* release build; a debug build panics where they would.                   *)
(***************************************************************************)
EXTENDS VectorClock, Integers, FiniteSets, Functions

CONSTANT Modulus  \* 2^64 in the code

ASSUME ModulusAssumption == Modulus \in Nat \ {0}

NewGCounter == EmptyMap

(* entry(replica).or_insert(0) += n: an increment by zero leaves an entry. *)
GIncrement(counts, replica, n) ==
  Insert(counts, replica, (Get(counts, replica) + n) % Modulus)

GValue(counts) == SumFunction(counts) % Modulus

ReplicaCount(counts) == Cardinality(DOMAIN counts)

(* Mutant: the counts of both sides are added. *)
GMergeAdds(counts, other) ==
  [r \in DOMAIN counts \cup DOMAIN other |-> (Get(counts, r) + Get(other, r)) % Modulus]

(* Element-wise maximum; zero entries are taken over. *)
GMerge(counts, other) ==
  [r \in DOMAIN counts \cup DOMAIN other |-> Larger(Get(counts, r), Get(other, r))]

-----------------------------------------------------------------------------
NewPNCounter == [increments |-> NewGCounter, decrements |-> NewGCounter]

PNIncrement(c, replica, n) == [c EXCEPT !.increments = GIncrement(@, replica, n)]

PNDecrement(c, replica, n) == [c EXCEPT !.decrements = GIncrement(@, replica, n)]

PNValue(c) == GValue(c.increments) - GValue(c.decrements)

(* Mutant: the decrements stay. *)
PNMergeHalf(c, other) == [c EXCEPT !.increments = GMerge(@, other.increments)]

PNMerge(c, other) ==
  [increments |-> GMerge(c.increments, other.increments),
   decrements |-> GMerge(c.decrements, other.decrements)]
=============================================================================
