--------------------------- MODULE CountersProofs ----------------------------
(***************************************************************************)
(* Proof that counters and sets stand for the events known with them: each *)
(* count is what its replica's known events add up to and the value is     *)
(* what all of them do, as long as u64 holds it.                           *)
(***************************************************************************)
EXTENDS CausalityProofs, FiniteSetTheorems, WellFoundedInduction

(* What the library's sum over a function is: induction over the finite    *)
(* sets, by a smallest counterexample each time.                           *)
(* A set of finite sets has one that contains no other of them. *)
LEMMA SmallestSet ==
  ASSUME NEW S, IsFiniteSet(S), NEW U \in SUBSET SUBSET S, U # {}
  PROVE  \E T \in U : \A R \in U : R \subseteq T => R = T
<1>1. IsWellFoundedOn(StrictSubsetOrdering(S), SUBSET S)
  BY FS_StrictSubsetOrderingWellFounded, FS_FiniteSubsetsOfFinite
<1>2. PICK T \in U : \A R \in U : ~ (<<R, T>> \in StrictSubsetOrdering(S))
  BY <1>1, WFMin
<1>3. ASSUME NEW R \in U, R \subseteq T, R # T PROVE FALSE
  BY <1>2, <1>3 DEF StrictSubsetOrdering
<1> QED
  BY <1>3

(* h adds up f over every subset of S, in the order CHOOSE gives. *)
Adding(h, f, S) ==
  h = [T \in SUBSET S |->
         IF T = {} THEN 0 ELSE LET x == CHOOSE x \in T : TRUE IN f[x] + h[T \ {x}]]

LEMMA AddingAt ==
  ASSUME NEW f, NEW S, NEW h, Adding(h, f, S)
  PROVE  /\ h[{}] = 0
         /\ \A T \in SUBSET S : T # {} =>
              h[T] = f[CHOOSE x \in T : TRUE] + h[T \ {CHOOSE x \in T : TRUE}]
<1>1. \A T \in SUBSET S : h[T] = IF T = {} THEN 0
        ELSE f[CHOOSE x \in T : TRUE] + h[T \ {CHOOSE x \in T : TRUE}]
  BY DEF Adding
<1> QED
  BY <1>1

(* There is at most one such function, and its parts are such functions. *)
LEMMA AddingAgrees ==
  ASSUME NEW f, NEW S, NEW T, NEW g, NEW h, IsFiniteSet(S),
         Adding(g, f, S), Adding(h, f, T)
  PROVE  \A R \in SUBSET (S \cap T) : g[R] = h[R]
<1> DEFINE U == {R \in SUBSET (S \cap T) : g[R] # h[R]}
<1> SUFFICES ASSUME U # {} PROVE FALSE
  OBVIOUS
<1>1. IsFiniteSet(S \cap T) /\ U \in SUBSET SUBSET (S \cap T)
  BY FS_Subset
<1>2. PICK R \in U : \A Q \in U : Q \subseteq R => Q = R
  <2> HIDE DEF U
  <2> QED
    BY <1>1, SmallestSet
<1>3. R # {}
  <2>1. g[{}] = 0 /\ h[{}] = 0
    BY AddingAt
  <2> QED
    BY <2>1
<1> DEFINE x == CHOOSE x \in R : TRUE
<1>4. x \in R
  BY <1>3
<1> HIDE DEF x
<1>5. g[R \ {x}] = h[R \ {x}]
  BY <1>2, <1>4
<1>6. g[R] = f[x] + g[R \ {x}] /\ h[R] = f[x] + h[R \ {x}]
  BY <1>3, AddingAt DEF x
<1> QED
  BY <1>5, <1>6

LEMMA AddingExists ==
  ASSUME NEW f, NEW S, IsFiniteSet(S)
  PROVE  \E h : Adding(h, f, S)
<1> DEFINE U == {T \in SUBSET S : ~ \E h : Adding(h, f, T)}
<1> SUFFICES ASSUME U # {} PROVE FALSE
  OBVIOUS
<1>1. PICK T \in U : \A R \in U : R \subseteq T => R = T
  <2>1. U \in SUBSET SUBSET S
    OBVIOUS
  <2> HIDE DEF U
  <2> QED
    BY <2>1, SmallestSet
<1>2. \A R \in SUBSET T : R # T => \E h : Adding(h, f, R)
  BY <1>1
<1> DEFINE part == [R \in SUBSET T |-> CHOOSE h : Adding(h, f, R)]
           x == CHOOSE x \in T : TRUE
           whole == [R \in SUBSET T |->
                       IF R # T THEN part[R][R]
                       ELSE IF T = {} THEN 0 ELSE f[x] + part[T \ {x}][T \ {x}]]
<1>3. \A R \in SUBSET T : R # T => Adding(part[R], f, R)
  BY <1>2
<1>4. ASSUME NEW R \in SUBSET T, R # {}
      PROVE  whole[R] = f[CHOOSE y \in R : TRUE] + whole[R \ {CHOOSE y \in R : TRUE}]
  <2> DEFINE y == CHOOSE y \in R : TRUE
  <2>1. y \in R
    BY <1>4
  <2>2. CASE R = T
    <3>1. T \ {x} # T /\ T \ {x} \in SUBSET T
      BY <1>4, <2>2
    <3>2. whole[T \ {x}] = part[T \ {x}][T \ {x}]
      BY <3>1
    <3>3. whole[T] = f[x] + part[T \ {x}][T \ {x}]
      BY <1>4, <2>2
    <3> QED
      BY <2>2, <3>2, <3>3
  <2>3. CASE R # T
    <3> HIDE DEF y, part
    <3>1. R \ {y} # T /\ R \ {y} \in SUBSET T /\ R \ {y} \in SUBSET R
      BY <2>1
    <3>2. whole[R] = part[R][R] /\ whole[R \ {y}] = part[R \ {y}][R \ {y}]
      BY <2>3, <3>1
    <3>3. Adding(part[R], f, R) /\ Adding(part[R \ {y}], f, R \ {y})
      BY <1>3, <2>3, <3>1
    <3>4. part[R][R] = f[y] + part[R][R \ {y}]
      <4>1. \A h : Adding(h, f, R) => h[R] = f[y] + h[R \ {y}]
        BY <1>4, AddingAt DEF y
      <4> QED
        BY <3>3, <4>1
    <3>5. IsFiniteSet(R)
      <4>1. R \in SUBSET S
        BY <1>1
      <4> QED
        BY <4>1, FS_Subset
    <3>6. part[R][R \ {y}] = part[R \ {y}][R \ {y}]
      <4>1. R \ {y} \in SUBSET (R \cap (R \ {y}))
        OBVIOUS
      <4> QED
        BY <3>3, <3>5, <4>1, AddingAgrees
    <3> HIDE DEF whole
    <3> QED
      BY <3>2, <3>4, <3>6 DEF y
  <2> QED
    BY <2>2, <2>3
<1>5. whole[{}] = 0
  <2>1. CASE T = {}
    BY <2>1
  <2>2. CASE T # {}
    <3>1. {} \in SUBSET T /\ {} # T
      BY <2>2
    <3>2. whole[{}] = part[{}][{}] /\ Adding(part[{}], f, {})
      BY <1>3, <3>1
    <3> QED
      BY <3>2, AddingAt
  <2> QED
    BY <2>1, <2>2
<1>6. whole = [R \in SUBSET T |-> whole[R]]
  OBVIOUS
<1> HIDE DEF whole
<1>7. Adding(whole, f, T)
  <2>1. \A R \in SUBSET T :
          whole[R] = IF R = {} THEN 0 ELSE LET y == CHOOSE y \in R : TRUE
                                           IN  f[y] + whole[R \ {y}]
    BY <1>4, <1>5
  <2> QED
    BY <1>6, <2>1 DEF Adding
<1> QED
  BY <1>1, <1>7

(* The library's sum is such a function's value. *)
LEMMA SumAdds ==
  ASSUME NEW f, NEW S, IsFiniteSet(S)
  PROVE  \E h : Adding(h, f, S) /\ SumFunctionOnSet(f, S) = h[S]
<1>1. SumFunctionOnSet(f, S) = (CHOOSE h : Adding(h, f, S))[S]
  BY DEF SumFunctionOnSet, FoldFunctionOnSet, MapThenFoldSet, Adding
<1>2. Adding(CHOOSE h : Adding(h, f, S), f, S)
  BY AddingExists
<1> QED
  BY <1>1, <1>2

LEMMA SumChosen ==
  ASSUME NEW f, NEW S, IsFiniteSet(S)
  PROVE  /\ SumFunctionOnSet(f, {}) = 0
         /\ S # {} => \E x \in S : SumFunctionOnSet(f, S) = f[x] + SumFunctionOnSet(f, S \ {x})
<1>1. SumFunctionOnSet(f, {}) = 0
  BY FS_EmptySet, SumAdds, AddingAt
<1>2. ASSUME S # {}
      PROVE  \E x \in S : SumFunctionOnSet(f, S) = f[x] + SumFunctionOnSet(f, S \ {x})
  <2> DEFINE x == CHOOSE x \in S : TRUE
  <2>1. x \in S
    BY <1>2
  <2>2. IsFiniteSet(S \ {x}) /\ S \ {x} \in SUBSET (S \cap (S \ {x}))
    BY FS_Subset
  <2>3. PICK h : Adding(h, f, S) /\ SumFunctionOnSet(f, S) = h[S]
    BY SumAdds
  <2>4. PICK g : Adding(g, f, S \ {x}) /\ SumFunctionOnSet(f, S \ {x}) = g[S \ {x}]
    BY <2>2, SumAdds
  <2>5. h[S] = f[x] + h[S \ {x}]
    <3>1. \A k : Adding(k, f, S) => k[S] = f[x] + k[S \ {x}]
      BY <1>2, AddingAt
    <3> QED
      BY <2>3, <3>1
  <2>6. h[S \ {x}] = g[S \ {x}]
    BY <2>2, <2>3, <2>4, AddingAgrees
  <2> QED
    BY <2>1, <2>3, <2>4, <2>5, <2>6
<1> QED
  BY <1>1, <1>2

(* A sum of natural numbers is one, and depends on nothing else. *)
LEMMA SumType ==
  ASSUME NEW f, NEW S, IsFiniteSet(S), \A x \in S : f[x] \in Nat
  PROVE  SumFunctionOnSet(f, S) \in Nat
<1> DEFINE U == {T \in SUBSET S : SumFunctionOnSet(f, T) \notin Nat}
<1> SUFFICES ASSUME U # {} PROVE FALSE
  OBVIOUS
<1>1. PICK T \in U : \A R \in U : R \subseteq T => R = T
  <2>1. U \in SUBSET SUBSET S
    OBVIOUS
  <2> HIDE DEF U
  <2> QED
    BY <2>1, SmallestSet
<1>2. IsFiniteSet(T)
  BY FS_Subset
<1>3. T # {}
  BY <1>2, SumChosen
<1>4. PICK x \in T : SumFunctionOnSet(f, T) = f[x] + SumFunctionOnSet(f, T \ {x})
  BY <1>2, <1>3, SumChosen
<1>5. SumFunctionOnSet(f, T \ {x}) \in Nat /\ f[x] \in Nat
  BY <1>1
<1> QED
  BY <1>4, <1>5

(* Any element may be added last. *)
LEMMA SumRemove ==
  ASSUME NEW f, NEW S, IsFiniteSet(S), \A x \in S : f[x] \in Nat, NEW y \in S
  PROVE  SumFunctionOnSet(f, S) = f[y] + SumFunctionOnSet(f, S \ {y})
<1> DEFINE U == {T \in SUBSET S : \E z \in T :
                   SumFunctionOnSet(f, T) # f[z] + SumFunctionOnSet(f, T \ {z})}
<1> SUFFICES ASSUME U # {} PROVE FALSE
  OBVIOUS
<1>1. PICK T \in U : \A R \in U : R \subseteq T => R = T
  <2>1. U \in SUBSET SUBSET S
    OBVIOUS
  <2> HIDE DEF U
  <2> QED
    BY <2>1, SmallestSet
<1>2. PICK z \in T : SumFunctionOnSet(f, T) # f[z] + SumFunctionOnSet(f, T \ {z})
  OBVIOUS
<1>3. IsFiniteSet(T) /\ T \subseteq S
  BY FS_Subset
<1>4. PICK x \in T : SumFunctionOnSet(f, T) = f[x] + SumFunctionOnSet(f, T \ {x})
  BY <1>3, SumChosen
<1>5. x # z
  BY <1>2, <1>4
<1>6. \A R \in SUBSET S : R \subseteq T /\ R # T =>
        \A w \in R : SumFunctionOnSet(f, R) = f[w] + SumFunctionOnSet(f, R \ {w})
  BY <1>1
<1>7. /\ SumFunctionOnSet(f, T \ {x}) = f[z] + SumFunctionOnSet(f, (T \ {x}) \ {z})
      /\ SumFunctionOnSet(f, T \ {z}) = f[x] + SumFunctionOnSet(f, (T \ {z}) \ {x})
  <2>1. /\ T \ {x} \in SUBSET S /\ T \ {x} \subseteq T /\ T \ {x} # T /\ z \in T \ {x}
        /\ T \ {z} \in SUBSET S /\ T \ {z} \subseteq T /\ T \ {z} # T /\ x \in T \ {z}
    BY <1>3, <1>5
  <2> HIDE DEF U
  <2> QED
    BY <1>6, <2>1
<1>8. (T \ {x}) \ {z} = (T \ {z}) \ {x}
  OBVIOUS
<1>9. SumFunctionOnSet(f, (T \ {z}) \ {x}) \in Nat /\ f[x] \in Nat /\ f[z] \in Nat
  <2>1. (T \ {z}) \ {x} \in SUBSET S
    BY <1>3
  <2>2. IsFiniteSet((T \ {z}) \ {x})
    BY <2>1, FS_Subset
  <2> QED
    BY <1>3, <2>1, <2>2, SumType
<1> QED
  BY <1>2, <1>4, <1>7, <1>8, <1>9

LEMMA SumSame ==
  ASSUME NEW f, NEW g, NEW S, IsFiniteSet(S), \A x \in S : f[x] \in Nat /\ g[x] = f[x]
  PROVE  SumFunctionOnSet(f, S) = SumFunctionOnSet(g, S)
<1> DEFINE U == {T \in SUBSET S : SumFunctionOnSet(f, T) # SumFunctionOnSet(g, T)}
<1> SUFFICES ASSUME U # {} PROVE FALSE
  OBVIOUS
<1>1. PICK T \in U : \A R \in U : R \subseteq T => R = T
  <2>1. U \in SUBSET SUBSET S
    OBVIOUS
  <2> HIDE DEF U
  <2> QED
    BY <2>1, SmallestSet
<1>2. IsFiniteSet(T) /\ T \subseteq S
  BY FS_Subset
<1>3. T # {}
  BY <1>2, SumChosen
<1>4. PICK x \in T : TRUE
  BY <1>3
<1>5. /\ SumFunctionOnSet(f, T) = f[x] + SumFunctionOnSet(f, T \ {x})
      /\ SumFunctionOnSet(g, T) = g[x] + SumFunctionOnSet(g, T \ {x})
  <2>1. \A z \in T : f[z] \in Nat /\ g[z] \in Nat
    BY <1>2
  <2> HIDE DEF U
  <2> QED
    BY <1>2, <2>1, SumRemove
<1>6. SumFunctionOnSet(f, T \ {x}) = SumFunctionOnSet(g, T \ {x})
  BY <1>1
<1> QED
  BY <1>2, <1>5, <1>6

(* The sum over two disjoint sets, and over a part. *)
LEMMA SumDisjoint ==
  ASSUME NEW f, NEW A, NEW B, IsFiniteSet(A), IsFiniteSet(B), A \cap B = {},
         \A x \in A \cup B : f[x] \in Nat
  PROVE  SumFunctionOnSet(f, A \cup B) = SumFunctionOnSet(f, A) + SumFunctionOnSet(f, B)
<1> DEFINE U == {T \in SUBSET A : SumFunctionOnSet(f, T \cup B)
                                    # SumFunctionOnSet(f, T) + SumFunctionOnSet(f, B)}
<1> SUFFICES ASSUME U # {} PROVE FALSE
  OBVIOUS
<1>1. PICK T \in U : \A R \in U : R \subseteq T => R = T
  <2>1. U \in SUBSET SUBSET A
    OBVIOUS
  <2> HIDE DEF U
  <2> QED
    BY <2>1, SmallestSet
<1>2. IsFiniteSet(T) /\ T \subseteq A /\ IsFiniteSet(T \cup B)
  BY FS_Subset, FS_Union
<1>3. SumFunctionOnSet(f, B) \in Nat
  BY SumType
<1>4. T # {}
  <2>1. SumFunctionOnSet(f, {}) = 0 /\ {} \cup B = B
    BY FS_EmptySet, SumChosen
  <2> QED
    BY <1>3, <2>1
<1>5. PICK x \in T : TRUE
  BY <1>4
<1>6. x \notin B /\ (T \cup B) \ {x} = (T \ {x}) \cup B
  BY <1>2
<1>7. /\ SumFunctionOnSet(f, T) = f[x] + SumFunctionOnSet(f, T \ {x})
      /\ SumFunctionOnSet(f, T \cup B) = f[x] + SumFunctionOnSet(f, (T \ {x}) \cup B)
  <2>1. (\A z \in T \cup B : f[z] \in Nat) /\ (\A z \in T : f[z] \in Nat)
    BY <1>2
  <2> HIDE DEF U
  <2> QED
    BY <1>2, <1>6, <2>1, SumRemove
<1>8. SumFunctionOnSet(f, (T \ {x}) \cup B) = SumFunctionOnSet(f, T \ {x}) + SumFunctionOnSet(f, B)
  BY <1>1
<1>9. SumFunctionOnSet(f, T \ {x}) \in Nat /\ f[x] \in Nat
  <2>1. IsFiniteSet(T \ {x}) /\ \A z \in T : f[z] \in Nat
    BY <1>2, FS_Subset
  <2> QED
    BY <2>1, SumType
<1> QED
  BY <1>3, <1>7, <1>8, <1>9

LEMMA SumPart ==
  ASSUME NEW f, NEW S, NEW T \in SUBSET S, IsFiniteSet(S), \A x \in S : f[x] \in Nat
  PROVE  /\ SumFunctionOnSet(f, T) \in Nat /\ SumFunctionOnSet(f, S) \in Nat
         /\ SumFunctionOnSet(f, T) <= SumFunctionOnSet(f, S)
<1>1. IsFiniteSet(T) /\ IsFiniteSet(S \ T) /\ S = T \cup (S \ T)
  BY FS_Subset
<1>2. SumFunctionOnSet(f, S) = SumFunctionOnSet(f, T) + SumFunctionOnSet(f, S \ T)
  BY <1>1, SumDisjoint
<1>3. SumFunctionOnSet(f, T) \in Nat /\ SumFunctionOnSet(f, S \ T) \in Nat
  BY <1>1, SumType
<1> QED
  BY <1>2, <1>3

(* The sums over each replica's elements add up to the sum over all. *)
LEMMA SumOfClasses ==
  ASSUME NEW f, NEW S, IsFiniteSet(S), \A x \in S : f[x] \in Nat,
         NEW g, NEW C, IsFiniteSet(C), \A x \in S : x[1] \in C,
         \A c \in C : g[c] = SumFunctionOnSet(f, EventsOf(S, c))
  PROVE  SumFunctionOnSet(g, C) = SumFunctionOnSet(f, S)
<1> DEFINE In(D) == {x \in S : x[1] \in D}
           U == {D \in SUBSET C : SumFunctionOnSet(g, D) # SumFunctionOnSet(f, In(D))}
<1>0. ASSUME NEW D PROVE IsFiniteSet(In(D)) /\ \A x \in In(D) : f[x] \in Nat
  BY FS_Subset
<1> SUFFICES ASSUME U # {} PROVE FALSE
  <2>1. In(C) = S
    OBVIOUS
  <2>2. U = {} => SumFunctionOnSet(g, C) = SumFunctionOnSet(f, In(C))
    OBVIOUS
  <2> QED
    BY <2>1, <2>2
<1>1. PICK D \in U : \A E \in U : E \subseteq D => E = D
  <2>1. U \in SUBSET SUBSET C
    OBVIOUS
  <2> HIDE DEF U
  <2> QED
    BY <2>1, SmallestSet
<1>2. IsFiniteSet(D) /\ D \subseteq C
  BY FS_Subset
<1>3. D # {}
  <2>1. In({}) = {}
    OBVIOUS
  <2>2. SumFunctionOnSet(g, {}) = 0 /\ SumFunctionOnSet(f, {}) = 0
    BY FS_EmptySet, SumChosen
  <2> QED
    BY <2>1, <2>2
<1>4. PICK c \in D : TRUE
  BY <1>3
<1>5. SumFunctionOnSet(g, D \ {c}) = SumFunctionOnSet(f, In(D \ {c}))
  BY <1>1
<1>6. \A d \in D : g[d] \in Nat
  <2>1. ASSUME NEW d \in D PROVE SumFunctionOnSet(f, EventsOf(S, d)) \in Nat
    <3>1. EventsOf(S, d) \in SUBSET S
      BY DEF EventsOf
    <3> QED
      BY <3>1, FS_Subset, SumType
  <2> QED
    BY <1>2, <2>1
<1>7. SumFunctionOnSet(g, D) = g[c] + SumFunctionOnSet(g, D \ {c})
  <2> HIDE DEF U, In
  <2> QED
    BY <1>2, <1>6, SumRemove
<1>8. SumFunctionOnSet(f, In(D)) = SumFunctionOnSet(f, EventsOf(S, c)) + SumFunctionOnSet(f, In(D \ {c}))
  <2> DEFINE A == EventsOf(S, c)
             B == In(D \ {c})
  <2>1. In(D) = A \cup B /\ A \cap B = {} /\ A \subseteq S
    BY <1>4 DEF EventsOf
  <2>2. IsFiniteSet(A) /\ IsFiniteSet(B)
    BY <1>0, <2>1, FS_Subset
  <2>3. \A x \in A \cup B : f[x] \in Nat
    BY <2>1
  <2> HIDE DEF A, B
  <2>4. SumFunctionOnSet(f, A \cup B) = SumFunctionOnSet(f, A) + SumFunctionOnSet(f, B)
    BY <2>1, <2>2, <2>3, SumDisjoint
  <2> QED
    BY <2>1, <2>4 DEF A, B
<1>9. SumFunctionOnSet(g, D) = SumFunctionOnSet(f, In(D))
  BY <1>2, <1>4, <1>5, <1>7, <1>8
<1> QED
  BY <1>1, <1>9

-----------------------------------------------------------------------------
(* What u64 holds. *)
Count == 0 .. Modulus - 1

LEMMA CountersMember ==
  ASSUME NEW c
  PROVE  c \in GCounters <=> DOMAIN c \subseteq Replica /\ c \in [DOMAIN c -> Count]
  BY MapsMember DEF GCounters, Count

LEMMA GetCount ==
  ASSUME NEW c \in GCounters, NEW r
  PROVE  Get(c, r) \in Count
<1>1. c \in [DOMAIN c -> Count]
  BY CountersMember
<1> QED
  BY <1>1, ModulusAssumption DEF Get, GetOr, Count

(* Addition that wraps stays in u64. *)
LEMMA Wraps ==
  ASSUME NEW a \in Count, NEW b \in Count
  PROVE  (a + b) % Modulus \in Count
  BY ModulusAssumption DEF Count

(* An increment inserts one count, the sum wrapped around. *)
LEMMA GIncrementInserts ==
  ASSUME NEW c \in GCounters, NEW r \in Replica, NEW n \in Count
  PROVE  /\ GIncrement(c, r, n) \in GCounters
         /\ GIncrement(c, r, n) = Insert(c, r, (Get(c, r) + n) % Modulus)
<1> DEFINE v == (Get(c, r) + n) % Modulus
<1>1. v \in Count
  BY GetCount, Wraps
<1>2. GIncrement(c, r, n) = Insert(c, r, v)
  BY DEF GIncrement
<1> HIDE DEF v
<1>3. Insert(c, r, v) \in GCounters
  BY <1>1, InsertType DEF GCounters, Count
<1> QED
  BY <1>2, <1>3 DEF v

(* A merge holds the larger count of each replica either side counts. *)
LEMMA GMergeCounts ==
  ASSUME NEW c \in GCounters, NEW d \in GCounters
  PROVE  /\ GMerge(c, d) \in GCounters
         /\ DOMAIN GMerge(c, d) = DOMAIN c \cup DOMAIN d
         /\ \A r \in DOMAIN c \cup DOMAIN d : GMerge(c, d)[r] = Larger(Get(c, r), Get(d, r))
<1> DEFINE m == GMerge(c, d)
<1>1. DOMAIN c \subseteq Replica /\ DOMAIN d \subseteq Replica
  BY CountersMember
<1>2. /\ DOMAIN m = DOMAIN c \cup DOMAIN d
      /\ \A r \in DOMAIN c \cup DOMAIN d : m[r] = Larger(Get(c, r), Get(d, r))
      /\ m = [r \in DOMAIN m |-> m[r]]
  BY DEF GMerge
<1>3. \A r \in DOMAIN m : m[r] \in Count
  BY <1>2, GetCount DEF Larger
<1> HIDE DEF m
<1>4. m \in [DOMAIN m -> Count]
  BY <1>2, <1>3
<1>5. m \in GCounters
  BY <1>1, <1>2, <1>4, CountersMember
<1> QED
  BY <1>2, <1>5 DEF m

-----------------------------------------------------------------------------
(* Events that are counted. *)
Counted == {"increment", "decrement"}

(* What events add up to is the library's sum of their amounts. *)
LEMMA TotalIsSum ==
  ASSUME TypeOK, NEW type \in Counted, NEW E \in SUBSET DOMAIN effect, IsFiniteSet(E)
  PROVE  /\ IsFiniteSet(OfType(E, type))
         /\ \A f : (\A e \in OfType(E, type) : f[e] = effect[e].n) =>
              Total(E, type) = SumFunctionOnSet(f, OfType(E, type))
         /\ \A e \in OfType(E, type) : effect[e].n \in Nat
<1> DEFINE S == OfType(E, type)
           g == [e \in S |-> effect[e].n]
<1>1. IsFiniteSet(S)
  BY FS_Subset DEF OfType
<1>2. \A e \in S : effect[e].n \in Nat
  BY ModulusAssumption DEF OfType, TypeOK, Effects, Counted
<1>3. Total(E, type) = SumFunctionOnSet(g, S)
  BY DEF Total, SumFunction
<1>4. ASSUME NEW f, \A e \in S : f[e] = effect[e].n
      PROVE  SumFunctionOnSet(g, S) = SumFunctionOnSet(f, S)
  <2>1. \A e \in S : g[e] \in Nat /\ f[e] = g[e]
    BY <1>2, <1>4
  <2> HIDE DEF S, g
  <2> QED
    BY <1>1, <2>1, SumSame
<1> QED
  BY <1>1, <1>2, <1>3, <1>4

(* Fewer events do not add up to more. *)
LEMMA TotalPart ==
  ASSUME TypeOK, NEW type \in Counted, NEW E \in SUBSET DOMAIN effect, IsFiniteSet(E),
         NEW D \in SUBSET E
  PROVE  Total(D, type) \in Nat /\ Total(E, type) \in Nat /\ Total(D, type) <= Total(E, type)
<1> DEFINE f == [e \in OfType(E, type) |-> effect[e].n]
<1>1. D \in SUBSET DOMAIN effect /\ IsFiniteSet(D) /\ OfType(D, type) \in SUBSET OfType(E, type)
  BY FS_Subset DEF OfType
<1>2. /\ \A e \in OfType(E, type) : f[e] = effect[e].n /\ f[e] \in Nat
      /\ IsFiniteSet(OfType(E, type))
  BY TotalIsSum
<1>3. \A e \in OfType(D, type) : f[e] = effect[e].n
  BY <1>1, <1>2
<1> HIDE DEF f
<1>4. Total(D, type) = SumFunctionOnSet(f, OfType(D, type))
  BY <1>1, <1>3, TotalIsSum
<1>5. Total(E, type) = SumFunctionOnSet(f, OfType(E, type))
  BY <1>2, TotalIsSum
<1> QED
  BY <1>1, <1>2, <1>4, <1>5, SumPart

(* No events add up to nothing. *)
LEMMA TotalOfNone ==
  ASSUME NEW E, NEW type, OfType(E, type) = {}
  PROVE  Total(E, type) = 0
<1>1. Total(E, type) = SumFunctionOnSet([e \in {} |-> effect[e].n], {})
  BY DEF Total, SumFunction
<1> QED
  BY <1>1, FS_EmptySet, SumChosen

LEMMA OwnTotals ==
  ASSUME TypeOK, NEW type \in Counted, NEW E \in SUBSET DOMAIN effect, IsFiniteSet(E), NEW r
  PROVE  /\ OwnTotal(E, type, r) \in Nat /\ OwnTotal(E, type, r) <= Total(E, type)
         /\ Total(E, type) \in Nat
         /\ \A D \in SUBSET E : OwnTotal(D, type, r) \in Nat
                                  /\ OwnTotal(D, type, r) <= OwnTotal(E, type, r)
<1>1. EventsOf(E, r) \in SUBSET E
  BY DEF EventsOf
<1>2. EventsOf(E, r) \in SUBSET DOMAIN effect /\ IsFiniteSet(EventsOf(E, r))
  BY <1>1, FS_Subset
<1>3. \A D \in SUBSET E : EventsOf(D, r) \in SUBSET EventsOf(E, r)
  BY DEF EventsOf
<1> QED
  BY <1>1, <1>2, <1>3, TotalPart DEF OwnTotal

-----------------------------------------------------------------------------
(* Counts that stand for events give each replica's own total. *)
LEMMA GetTotal ==
  ASSUME NEW c, NEW E, NEW type, NEW r, CountsOf(c, E, type), OwnTotal(E, type, r) < Modulus
  PROVE  Get(c, r) = OwnTotal(E, type, r)
<1>1. CASE r \in DOMAIN c
  BY <1>1 DEF CountsOf, Get, GetOr
<1>2. CASE r \notin DOMAIN c
  <2>1. OfType(EventsOf(E, r), type) = {}
    BY <1>2 DEF CountsOf, OfType, EventsOf
  <2>2. OwnTotal(E, type, r) = 0
    BY <2>1, TotalOfNone DEF OwnTotal
  <2> QED
    BY <1>2, <2>2 DEF Get, GetOr
<1> QED
  BY <1>1, <1>2

(* Counts that have not wrapped are determined by the events they stand    *)
(* for.                                                                    *)
LEMMA CountsDetermined ==
  ASSUME NEW c \in GCounters, NEW d \in GCounters, NEW type \in Counted, NEW E,
         CountsOf(c, E, type), CountsOf(d, E, type), NothingWrapped(E)
  PROVE  c = d
<1>1. /\ c \in [DOMAIN c -> Count] /\ d \in [DOMAIN d -> Count] /\ DOMAIN c = DOMAIN d
      /\ DOMAIN c \subseteq Replica
  BY CountersMember DEF CountsOf
<1>2. ASSUME NEW r \in DOMAIN c PROVE c[r] = d[r]
  BY <1>1 DEF CountsOf, NothingWrapped, Counted
<1> QED
  BY <1>1, <1>2

(* Merged counts stand for the events of both sides, when for each replica *)
(* one side knows what the other does.                                     *)
LEMMA CountsMerged ==
  ASSUME TypeOK, NEW c \in GCounters, NEW d \in GCounters, NEW type \in Counted,
         NEW E \in SUBSET DOMAIN effect, NEW F \in SUBSET DOMAIN effect,
         IsFiniteSet(E), IsFiniteSet(F),
         \A r : EventsOf(E, r) \subseteq EventsOf(F, r) \/ EventsOf(F, r) \subseteq EventsOf(E, r),
         CountsOf(c, E, type), CountsOf(d, F, type)
  PROVE  CountsOf(GMerge(c, d), E \cup F, type)
<1> DEFINE m == GMerge(c, d)
<1> HIDE DEF m
<1>1. /\ DOMAIN m = DOMAIN c \cup DOMAIN d
      /\ \A r \in DOMAIN m : m[r] = Larger(Get(c, r), Get(d, r))
  <2>1. /\ DOMAIN m = DOMAIN c \cup DOMAIN d
        /\ \A r \in DOMAIN c \cup DOMAIN d : m[r] = Larger(Get(c, r), Get(d, r))
    BY GMergeCounts DEF m
  <2> QED
    BY <2>1
<1>2. DOMAIN m = {e[1] : e \in OfType(E \cup F, type)}
  <2>1. OfType(E \cup F, type) = OfType(E, type) \cup OfType(F, type)
    BY DEF OfType
  <2>2. /\ DOMAIN c = {e[1] : e \in OfType(E, type)}
        /\ DOMAIN d = {e[1] : e \in OfType(F, type)}
    BY DEF CountsOf
  <2>3. DOMAIN m = DOMAIN c \cup DOMAIN d
    BY <1>1
  <2> QED
    BY <2>1, <2>2, <2>3
<1>3. ASSUME NEW r \in DOMAIN m, OwnTotal(E \cup F, type, r) < Modulus
      PROVE  m[r] = OwnTotal(E \cup F, type, r)
  <2> DEFINE total == OwnTotal(E \cup F, type, r)
  <2>1. E \cup F \in SUBSET DOMAIN effect /\ IsFiniteSet(E \cup F)
    BY FS_Union
  <2>2. /\ total \in Nat
        /\ OwnTotal(E, type, r) \in Nat /\ OwnTotal(E, type, r) <= total
        /\ OwnTotal(F, type, r) \in Nat /\ OwnTotal(F, type, r) <= total
    BY <2>1, OwnTotals
  <2>3. OwnTotal(E, type, r) = total \/ OwnTotal(F, type, r) = total
    <3>1. EventsOf(E \cup F, r) = EventsOf(E, r) \/ EventsOf(E \cup F, r) = EventsOf(F, r)
      BY DEF EventsOf
    <3> QED
      BY <3>1 DEF OwnTotal
  <2>4. total < Modulus /\ Modulus \in Nat
    BY <1>3, ModulusAssumption
  <2> HIDE DEF total
  <2>5. OwnTotal(E, type, r) < Modulus /\ OwnTotal(F, type, r) < Modulus
    BY <2>2, <2>4
  <2>6. Get(c, r) = OwnTotal(E, type, r) /\ Get(d, r) = OwnTotal(F, type, r)
    BY <2>5, GetTotal
  <2>7. m[r] = Larger(OwnTotal(E, type, r), OwnTotal(F, type, r))
    BY <1>1, <2>6
  <2>8. m[r] = total
    BY <2>2, <2>3, <2>7 DEF Larger
  <2> QED
    BY <2>8 DEF total
<1> QED
  BY <1>2, <1>3 DEF CountsOf, m

-----------------------------------------------------------------------------
(* A new event leaves what the others did, and what they add up to, ...    *)
LEMMA EffectGrows ==
  ASSUME NEW e, NEW what, e \notin DOMAIN effect, effect' = Insert(effect, e, what)
  PROVE  /\ DOMAIN effect' = DOMAIN effect \cup {e}
         /\ effect'[e] = what
         /\ \A f \in DOMAIN effect : effect'[f] = effect[f]
         /\ \A type : \A E \in SUBSET DOMAIN effect :
              /\ OfType(E, type)' = OfType(E, type)
              /\ OfType(E \cup {e}, type)'
                   = IF what.type = type THEN OfType(E, type) \cup {e} ELSE OfType(E, type)
<1>1. /\ DOMAIN effect' = DOMAIN effect \cup {e}
      /\ effect'[e] = what
      /\ \A f \in DOMAIN effect : effect'[f] = effect[f]
  BY DEF Insert
<1> QED
  BY <1>1 DEF OfType

LEMMA TotalKept ==
  ASSUME NEW e, NEW what, e \notin DOMAIN effect, effect' = Insert(effect, e, what),
         NEW E \in SUBSET DOMAIN effect, NEW type
  PROVE  /\ Total(E, type)' = Total(E, type)
         /\ what.type # type => Total(E \cup {e}, type)' = Total(E, type)
<1>1. \A f \in OfType(E, type) : effect'[f] = effect[f]
  BY EffectGrows DEF OfType
<1>2. [f \in OfType(E, type) |-> effect'[f].n] = [f \in OfType(E, type) |-> effect[f].n]
  BY <1>1
<1>3. OfType(E, type)' = OfType(E, type)
  BY EffectGrows
<1>4. what.type # type => OfType(E \cup {e}, type)' = OfType(E, type)
  BY EffectGrows
<1> QED
  BY <1>2, <1>3, <1>4 DEF Total

(* ... and adds its own amount. *)
LEMMA TotalGrows ==
  ASSUME TypeOK, NEW e, NEW what, e \notin DOMAIN effect, effect' = Insert(effect, e, what),
         NEW E \in SUBSET DOMAIN effect, IsFiniteSet(E),
         what.type \in Counted, what.n \in Nat
  PROVE  Total(E \cup {e}, what.type)' = Total(E, what.type) + what.n
<1> DEFINE S == OfType(E, what.type)
           f == [x \in S \cup {e} |-> effect'[x].n]
<1>1. OfType(E \cup {e}, what.type)' = S \cup {e}
  BY EffectGrows
<1>2. effect'[e] = what /\ \A x \in S : effect'[x] = effect[x]
  BY EffectGrows DEF OfType
<1>3. /\ f[e] = what.n
      /\ \A x \in S : f[x] = effect[x].n
      /\ e \notin S
  BY <1>2 DEF OfType
<1>4. Total(E \cup {e}, what.type)' = SumFunctionOnSet(f, S \cup {e})
  BY <1>1 DEF Total, SumFunction
<1> HIDE DEF f
<1>5. /\ IsFiniteSet(S) /\ Total(E, what.type) = SumFunctionOnSet(f, S)
      /\ \A x \in S : effect[x].n \in Nat
  BY <1>3, TotalIsSum
<1>6. SumFunctionOnSet(f, S) \in Nat
  <2> HIDE DEF S
  <2> QED
    BY <1>3, <1>5, SumType
<1>7. SumFunctionOnSet(f, S \cup {e}) = f[e] + SumFunctionOnSet(f, (S \cup {e}) \ {e})
  <2>1. IsFiniteSet(S \cup {e}) /\ \A x \in S \cup {e} : f[x] \in Nat
    BY <1>3, <1>5, FS_AddElement
  <2> HIDE DEF S
  <2> QED
    BY <2>1, SumRemove
<1>8. (S \cup {e}) \ {e} = S
  BY <1>3
<1>9. SumFunctionOnSet(f, S \cup {e}) = SumFunctionOnSet(f, S) + what.n
  <2>1. SumFunctionOnSet(f, S \cup {e}) = f[e] + SumFunctionOnSet(f, S)
    BY <1>7, <1>8
  <2>2. f[e] = what.n
    BY <1>3
  <2> HIDE DEF S
  <2> QED
    BY <1>6, <2>1, <2>2
<1> QED
  BY <1>4, <1>5, <1>9

(* What counts stand for stays so, as long as the event is not counted. *)
LEMMA CountsKept ==
  ASSUME NEW e, NEW what, e \notin DOMAIN effect, effect' = Insert(effect, e, what),
         NEW E \in SUBSET DOMAIN effect, NEW c, NEW type, CountsOf(c, E, type)
  PROVE  /\ CountsOf(c, E, type)'
         /\ what.type # type => CountsOf(c, E \cup {e}, type)'
<1>1. /\ OfType(E, type)' = OfType(E, type)
      /\ what.type # type => OfType(E \cup {e}, type)' = OfType(E, type)
  BY EffectGrows
<1>2. ASSUME NEW r
      PROVE  /\ OwnTotal(E, type, r)' = OwnTotal(E, type, r)
             /\ what.type # type => OwnTotal(E \cup {e}, type, r)' = OwnTotal(E, type, r)
  <2>1. EventsOf(E, r) \in SUBSET DOMAIN effect
    BY DEF EventsOf
  <2>2. \/ EventsOf(E \cup {e}, r) = EventsOf(E, r)
        \/ EventsOf(E \cup {e}, r) = EventsOf(E, r) \cup {e}
    BY DEF EventsOf
  <2>3. /\ Total(EventsOf(E, r), type)' = Total(EventsOf(E, r), type)
        /\ what.type # type => Total(EventsOf(E, r) \cup {e}, type)' = Total(EventsOf(E, r), type)
    <3> DEFINE D == EventsOf(E, r)
    <3> HIDE DEF D
    <3>1. D \in SUBSET DOMAIN effect
      BY <2>1 DEF D
    <3>2. /\ Total(D, type)' = Total(D, type)
          /\ what.type # type => Total(D \cup {e}, type)' = Total(D, type)
      BY <3>1, TotalKept
    <3> QED
      BY <3>2 DEF D
  <2> QED
    BY <2>2, <2>3 DEF OwnTotal
<1> QED
  BY <1>1, <1>2 DEF CountsOf

(* A counted event adds to the count of its replica, while u64 holds it. *)
LEMMA CountsAdded ==
  ASSUME TypeOK, NEW e, NEW what, e \notin DOMAIN effect, effect' = Insert(effect, e, what),
         NEW E \in SUBSET DOMAIN effect, IsFiniteSet(E),
         NEW c, CountsOf(c, E, what.type),
         what.type \in Counted, what.n \in Nat
  PROVE  CountsOf(Insert(c, e[1], (Get(c, e[1]) + what.n) % Modulus), E \cup {e}, what.type)'
<1> DEFINE v == (Get(c, e[1]) + what.n) % Modulus
           d == Insert(c, e[1], v)
<1>1. /\ DOMAIN d = DOMAIN c \cup {e[1]}
      /\ d[e[1]] = v
      /\ \A r \in DOMAIN c : r # e[1] => d[r] = c[r]
  BY DEF Insert
<1> HIDE DEF d
<1>2. OfType(E \cup {e}, what.type)' = OfType(E, what.type) \cup {e}
  BY EffectGrows
<1>3. DOMAIN d = {f[1] : f \in OfType(E, what.type) \cup {e}}
  BY <1>1 DEF CountsOf
<1>4. ASSUME NEW r, r # e[1]
      PROVE  OwnTotal(E \cup {e}, what.type, r)' = OwnTotal(E, what.type, r)
  <2>1. EventsOf(E \cup {e}, r) = EventsOf(E, r) /\ EventsOf(E, r) \in SUBSET DOMAIN effect
    BY <1>4 DEF EventsOf
  <2> QED
    BY <2>1, TotalKept DEF OwnTotal
<1>5. OwnTotal(E \cup {e}, what.type, e[1])' = OwnTotal(E, what.type, e[1]) + what.n
  <2>1. /\ EventsOf(E \cup {e}, e[1]) = EventsOf(E, e[1]) \cup {e}
        /\ EventsOf(E, e[1]) \in SUBSET DOMAIN effect
        /\ EventsOf(E, e[1]) \in SUBSET E
    BY DEF EventsOf
  <2>2. IsFiniteSet(EventsOf(E, e[1]))
    BY <2>1, FS_Subset
  <2> QED
    BY <2>1, <2>2, TotalGrows DEF OwnTotal
<1>6. OwnTotal(E, what.type, e[1]) \in Nat
  BY OwnTotals
<1>7. ASSUME NEW r \in DOMAIN d, OwnTotal(E \cup {e}, what.type, r)' < Modulus
      PROVE  d[r] = OwnTotal(E \cup {e}, what.type, r)'
  <2>1. CASE r = e[1]
    <3>1. OwnTotal(E, what.type, e[1]) + what.n < Modulus /\ Modulus \in Nat
      BY <1>5, <1>7, <2>1, ModulusAssumption
    <3>2. OwnTotal(E, what.type, e[1]) < Modulus
      BY <1>6, <3>1
    <3>3. Get(c, e[1]) = OwnTotal(E, what.type, e[1])
      BY <3>2, GetTotal
    <3>4. v = OwnTotal(E, what.type, e[1]) + what.n
      BY <1>6, <3>1, <3>3
    <3> QED
      BY <1>1, <1>5, <2>1, <3>4
  <2>2. CASE r # e[1]
    BY <1>1, <1>4, <1>7, <2>2 DEF CountsOf
  <2> QED
    BY <2>1, <2>2
<1> QED
  BY <1>2, <1>3, <1>7 DEF CountsOf, d

-----------------------------------------------------------------------------
(* An operation adds an event beyond those its replica has. *)
Adds(e, r, what) ==
  /\ e \notin DOMAIN effect /\ e[1] = r
  /\ effect' = Insert(effect, e, what)
  /\ DOMAIN stamp' = DOMAIN stamp \cup {e}
  /\ known' = [known EXCEPT ![r] = known[r] \cup {e}]
  /\ known[r] \subseteq DOMAIN effect /\ known'[r] = known[r] \cup {e}
  /\ sent' = sent

LEMMA NewEvent ==
  ASSUME CausalInv, TypeOK, NEW r \in Replica, NEW what, Update(r, what)
  PROVE  \E e \in Event : Adds(e, r, what)
<1> DEFINE next == Increment(clock[r], r)
           e == <<r, Get(next, r)>>
<1>1. clock[r] \in Clocks /\ Get(clock[r], r) < MaxEvents
  BY DEF CausalInv, ClockTypeOK, Update
<1>2. Get(next, r) = Get(clock[r], r) + 1 /\ <<r, Get(clock[r], r) + 1>> \in Event
  BY <1>1, CoverIncrement
<1>3. Get(clock[r], r) \in 0 .. MaxEvents
  BY <1>1, ClockEntries
<1>4. e \in Event /\ e[1] = r /\ e[2] = Get(clock[r], r) + 1
  BY <1>2
<1>5. /\ effect' = Insert(effect, e, what) /\ stamp' = Insert(stamp, e, next)
      /\ known' = [known EXCEPT ![r] = known[r] \cup {e}] /\ sent' = sent
  BY DEF Update
<1> HIDE DEF e, next
<1>6. DOMAIN effect = DOMAIN stamp
  BY DEF TypeOK
<1>7. \A f \in DOMAIN effect : f \in Event /\ (f[1] = r => f[2] <= Get(clock[r], r))
  BY <1>6 DEF CausalInv, ClockTypeOK, OwnEntryCounts
<1>8. e \notin DOMAIN effect
  BY <1>3, <1>4, <1>7, EventsAssumption
<1>9. DOMAIN stamp' = DOMAIN stamp \cup {e}
  BY <1>5 DEF Insert
<1>10. known[r] \subseteq DOMAIN effect /\ known'[r] = known[r] \cup {e}
  BY <1>5, <1>6 DEF CausalInv, ClocksCover, Closed, ClockTypeOK
<1> QED
  BY <1>4, <1>5, <1>8, <1>9, <1>10 DEF Adds


-----------------------------------------------------------------------------
LEMMA InitData == Init => DataInv
<1> SUFFICES ASSUME Init PROVE DataInv
  OBVIOUS
<1>1. NewGCounter \in GCounters /\ DOMAIN NewGCounter = {}
  BY EmptyMapType DEF NewGCounter, GCounters
<1>2. NewPNCounter \in PNCounters
  BY <1>1 DEF NewPNCounter, PNCounters
<1>3. NewClock \in Clocks /\ DOMAIN stamp = {} /\ DOMAIN past = {} /\ DOMAIN effect = {}
  BY EmptyMapType DEF Init, NewClock, Clocks
<1>4. ClockTypeOK
  BY <1>3 DEF Init, ClockTypeOK
<1>5. TypeOK
  <2>1. effect \in [DOMAIN stamp -> Effects]
    BY <1>3 DEF Init, EmptyMap
  <2> QED
    BY <1>2, <1>4, <2>1 DEF Init, TypeOK, NewSet
<1>6. ASSUME NEW r \in Replica
      PROVE  IsFiniteSet(known[r]) /\ StandFor(counter[r], elements[r], known[r])
  <2>1. /\ counter[r].increments = NewGCounter /\ counter[r].decrements = NewGCounter
        /\ elements[r] = {} /\ known[r] = {}
    BY DEF Init, NewPNCounter, NewSet
  <2> QED
    BY <1>1, <2>1, FS_EmptySet DEF StandFor, CountsOf, Inserted, OfType
<1>7. Copies = {StateOf(r) : r \in Replica}
  BY DEF Init, Copies
<1> QED
  BY <1>5, <1>6, <1>7 DEF DataInv, StateOf

(* A replica's own values are a copy. *)
LEMMA OwnCopy ==
  ASSUME NEW r \in Replica
  PROVE  /\ StateOf(r) \in Copies
         /\ StateOf(r).clock = clock[r] /\ StateOf(r).known = known[r]
         /\ StateOf(r).counter = counter[r] /\ StateOf(r).elements = elements[r]
  BY DEF Copies, StateOf

(* What copies stand for does not change with a new event. *)
LEMMA StandKept ==
  ASSUME NEW e, NEW what, e \notin DOMAIN effect, effect' = Insert(effect, e, what),
         NEW E \in SUBSET DOMAIN effect, NEW c, NEW els, StandFor(c, els, E)
  PROVE  StandFor(c, els, E)'
<1>1. CountsOf(c.increments, E, "increment")'
  BY CountsKept DEF StandFor
<1>2. CountsOf(c.decrements, E, "decrement")'
  BY CountsKept DEF StandFor
<1>3. OfType(E, "insert")' = OfType(E, "insert") /\ OfType(E, "insert") \subseteq DOMAIN effect
  <2>1. OfType(E, "insert")' = OfType(E, "insert")
    BY EffectGrows
  <2> QED
    BY <2>1 DEF OfType
<1>4. \A f \in OfType(E, "insert") : effect'[f] = effect[f]
  BY <1>3, EffectGrows
<1> QED
  BY <1>1, <1>2, <1>3, <1>4 DEF StandFor, Inserted

(* The invariant is about the replicas and about what is sent. *)
LEMMA CopiesStand ==
  ASSUME TypeOK',
         \A q \in Replica : IsFiniteSet(known'[q]) /\ StandFor(counter[q], elements[q], known[q])',
         \A s \in sent' : IsFiniteSet(s.known) /\ StandFor(s.counter, s.elements, s.known)'
  PROVE  DataInv'
<1>1. ASSUME NEW s \in Copies'
      PROVE  (IsFiniteSet(s.known) /\ StandFor(s.counter, s.elements, s.known))'
  <2>1. s \in sent' \/ \E q \in Replica : s = StateOf(q)'
    BY DEF Copies
  <2>2. ASSUME NEW q \in Replica, s = StateOf(q)'
        PROVE  IsFiniteSet(s.known) /\ StandFor(s.counter, s.elements, s.known)'
    <3>1. s.counter = counter'[q] /\ s.elements = elements'[q] /\ s.known = known'[q]
      BY <2>2 DEF StateOf
    <3> QED
      BY <3>1
  <2> QED
    BY <2>1, <2>2
<1> QED
  BY <1>1 DEF DataInv

(* An operation keeps the invariant when what it makes of its replica's    *)
(* values stands for the events known to it, the new one included.         *)
LEMMA UpdateData ==
  ASSUME CausalInv, DataInv, NEW r \in Replica, NEW what \in Effects, Update(r, what),
         NEW c \in PNCounters, NEW els \in SUBSET Value,
         counter' = [counter EXCEPT ![r] = c], elements' = [elements EXCEPT ![r] = els],
         StandFor(counter[r], elements[r], known[r])
           => \A events : events = known'[r] => StandFor(c, els, events)'
  PROVE  DataInv'
<1>1. TypeOK /\ \A s \in Copies : IsFiniteSet(s.known) /\ StandFor(s.counter, s.elements, s.known)
  BY DEF DataInv
<1>2. PICK e \in Event : Adds(e, r, what)
  BY <1>1, NewEvent
<1> USE DEF Adds
<1>3. TypeOK'
  <2>1. CausalInv'
    BY UpdateCausal
  <2>2. effect' \in [DOMAIN stamp' -> Effects]
    BY <1>1, <1>2 DEF TypeOK, Insert
  <2> QED
    BY <1>1, <1>2, <2>1, <2>2 DEF TypeOK, CausalInv
<1>4. ASSUME NEW s \in Copies
      PROVE  \A x, y, z : x = s.counter /\ y = s.elements /\ z = s.known
                            => StandFor(x, y, z)'
  <2>1. s.known \subseteq DOMAIN effect
    BY <1>1 DEF Copies, StateOf, CausalInv, ClocksCover, Closed, TypeOK
  <2> QED
    BY <1>1, <1>2, <2>1, StandKept
<1>5. ASSUME NEW q \in Replica
      PROVE  IsFiniteSet(known'[q]) /\ StandFor(counter[q], elements[q], known[q])'
  <2>1. CASE q = r
    <3>1. StandFor(counter[r], elements[r], known[r]) /\ IsFiniteSet(known[r])
      BY <1>1, OwnCopy
    <3>2. counter'[q] = c /\ elements'[q] = els
      BY <1>1, <2>1 DEF TypeOK
    <3>3. \A events : events = known'[r] => StandFor(c, els, events)'
      BY <3>1
    <3>4. IsFiniteSet(known'[r])
      BY <1>2, <3>1, FS_AddElement
    <3>5. StandFor(counter[r], elements[r], known[r])'
      BY <2>1, <3>2, <3>3
    <3> QED
      BY <2>1, <3>4, <3>5
  <2>2. CASE q # r
    <3>1. counter'[q] = counter[q] /\ elements'[q] = elements[q] /\ known'[q] = known[q]
      BY <1>1, <1>2, <2>2 DEF TypeOK, ClockTypeOK
    <3>2. \A x, y, z : x = counter[q] /\ y = elements[q] /\ z = known[q]
                         => StandFor(x, y, z)'
      BY <1>4, OwnCopy
    <3>3. IsFiniteSet(known'[q])
      BY <1>1, <3>1, OwnCopy
    <3>4. StandFor(counter[q], elements[q], known[q])'
      BY <3>1, <3>2
    <3> QED
      BY <3>1, <3>3, <3>4
  <2> QED
    BY <2>1, <2>2
<1>6. ASSUME NEW s \in sent'
      PROVE  IsFiniteSet(s.known) /\ StandFor(s.counter, s.elements, s.known)'
  <2>1. s \in Copies
    BY <1>2 DEF Copies
  <2> QED
    BY <1>1, <1>4, <2>1
<1> QED
  BY <1>3, <1>5, <1>6, CopiesStand

(* A counted event adds to its replica's count. *)
LEMMA CountedStands ==
  ASSUME CausalInv, DataInv, NEW r \in Replica, NEW what, Update(r, what),
         what.type \in Counted, what.n \in Count,
         NEW c, CountsOf(c, known[r], what.type)
  PROVE  \A d, events, type :
           d = Insert(c, r, (Get(c, r) + what.n) % Modulus) /\ events = known'[r] /\ type = what.type
             => CountsOf(d, events, type)'
<1>1. PICK e \in Event : Adds(e, r, what)
  BY NewEvent DEF DataInv
<1>2. /\ e \notin DOMAIN effect /\ effect' = Insert(effect, e, what) /\ e[1] = r
      /\ known[r] \subseteq DOMAIN effect /\ known'[r] = known[r] \cup {e}
  BY <1>1 DEF Adds
<1>3. what.n \in Nat /\ TypeOK /\ IsFiniteSet(known[r])
  BY ModulusAssumption, OwnCopy DEF Count, DataInv
<1>4. \A E : E = known[r] =>
        CountsOf(Insert(c, e[1], (Get(c, e[1]) + what.n) % Modulus), E \cup {e}, what.type)'
  BY <1>2, <1>3, CountsAdded
<1> QED
  BY <1>2, <1>4

(* The other map, and the set, stand for the same. *)
LEMMA OthersStand ==
  ASSUME CausalInv, TypeOK, NEW r \in Replica, NEW what, Update(r, what),
         NEW c, NEW type, type # what.type, CountsOf(c, known[r], type)
  PROVE  \A events : events = known'[r] => CountsOf(c, events, type)'
<1>1. PICK e \in Event : Adds(e, r, what)
  BY NewEvent
<1>2. /\ e \notin DOMAIN effect /\ effect' = Insert(effect, e, what) /\ e[1] = r
      /\ known[r] \subseteq DOMAIN effect /\ known'[r] = known[r] \cup {e}
  BY <1>1 DEF Adds
<1>3. \A E : E = known[r] => CountsOf(c, E \cup {e}, type)'
  BY <1>2, CountsKept
<1> QED
  BY <1>2, <1>3

(* A set grows by the elements inserted. *)
LEMMA ElementsStand ==
  ASSUME CausalInv, TypeOK, NEW r \in Replica, NEW what, Update(r, what),
         NEW els, els = Inserted(known[r])
  PROVE  \A events : events = known'[r] =>
           /\ what.type = "insert" => Inserted(events)' = els \cup {what.value}
           /\ what.type # "insert" => Inserted(events)' = els
<1>1. PICK e \in Event : Adds(e, r, what)
  BY NewEvent
<1>2. /\ e \notin DOMAIN effect /\ effect' = Insert(effect, e, what)
      /\ known[r] \subseteq DOMAIN effect /\ known'[r] = known[r] \cup {e}
  BY <1>1 DEF Adds
<1>3. effect'[e] = what /\ \A f \in known[r] : effect'[f] = effect[f]
  BY <1>2, EffectGrows
<1> DEFINE inserts == {f \in known[r] : effect[f].type = "insert"}
           after == {f \in known[r] \cup {e} : effect'[f].type = "insert"}
<1>4. after = IF what.type = "insert" THEN inserts \cup {e} ELSE inserts
  BY <1>3
<1>5. \A f \in inserts : effect'[f] = effect[f]
  BY <1>3
<1>6. \A events : events = known'[r] => OfType(events, "insert")' = after
  BY <1>2 DEF OfType
<1>7. els = {effect[f].value : f \in inserts}
  BY DEF OfType, Inserted
<1> HIDE DEF inserts, after
<1>8. {effect'[f].value : f \in after}
        = IF what.type = "insert" THEN els \cup {what.value} ELSE els
  BY <1>3, <1>4, <1>5, <1>7
<1> QED
  BY <1>6, <1>8 DEF Inserted

-----------------------------------------------------------------------------
(* Each operation counts, or inserts, its event. *)
LEMMA IncrementData ==
  ASSUME CausalInv, DataInv, NEW r \in Replica, NEW n \in Increments[r], IncrementBy(r, n)
  PROVE  DataInv'
<1>1. TypeOK /\ counter[r] \in PNCounters /\ n \in Count
  BY OperationsAssumption DEF DataInv, TypeOK, Count
<1>2. /\ GIncrement(counter[r].increments, r, n)
           = Insert(counter[r].increments, r, (Get(counter[r].increments, r) + n) % Modulus)
      /\ GIncrement(counter[r].increments, r, n) \in GCounters
  BY <1>1, GIncrementInserts DEF PNCounters
<1>3. PICK c \in PNCounters :
           /\ c = PNIncrement(counter[r], r, n)
           /\ c.increments
                = Insert(counter[r].increments, r, (Get(counter[r].increments, r) + n) % Modulus)
           /\ c.decrements = counter[r].decrements
  <2>1. PNIncrement(counter[r], r, n)
          = [increments |-> GIncrement(counter[r].increments, r, n),
             decrements |-> counter[r].decrements]
    BY <1>1 DEF PNIncrement, PNCounters
  <2> QED
    BY <1>1, <1>2, <2>1 DEF PNCounters
<1>4. PICK what \in Effects : what = [type |-> "increment", n |-> n]
  BY <1>1 DEF Effects, Count
<1>5. PICK els \in SUBSET Value : els = elements[r]
  BY <1>1 DEF TypeOK
<1>6. /\ Update(r, what)
      /\ counter' = [counter EXCEPT ![r] = c] /\ elements' = [elements EXCEPT ![r] = els]
  BY <1>1, <1>3, <1>4, <1>5 DEF IncrementBy, TypeOK
<1>7. ASSUME StandFor(counter[r], elements[r], known[r])
      PROVE  \A events : events = known'[r] => StandFor(c, els, events)'
  <2>1. /\ CountsOf(counter[r].increments, known[r], what.type)
        /\ CountsOf(c.decrements, known[r], "decrement")
        /\ what.type \in Counted /\ what.n \in Count
    BY <1>1, <1>3, <1>4, <1>7 DEF StandFor, Counted
  <2>2. \A events : events = known'[r] => CountsOf(c.increments, events, "increment")'
    BY <1>3, <1>4, <1>6, <2>1, CountedStands
  <2>3. \A events : events = known'[r] => CountsOf(c.decrements, events, "decrement")'
    BY <1>1, <1>4, <1>6, <2>1, OthersStand
  <2>4. \A events : events = known'[r] => els = Inserted(events)'
    BY <1>1, <1>4, <1>5, <1>6, <1>7, ElementsStand DEF StandFor
  <2> QED
    BY <2>2, <2>3, <2>4 DEF StandFor
<1> QED
  BY <1>6, <1>7, UpdateData

LEMMA DecrementData ==
  ASSUME CausalInv, DataInv, NEW r \in Replica, NEW n \in Decrements[r], DecrementBy(r, n)
  PROVE  DataInv'
<1>1. TypeOK /\ counter[r] \in PNCounters /\ n \in Count
  BY OperationsAssumption DEF DataInv, TypeOK, Count
<1>2. /\ GIncrement(counter[r].decrements, r, n)
           = Insert(counter[r].decrements, r, (Get(counter[r].decrements, r) + n) % Modulus)
      /\ GIncrement(counter[r].decrements, r, n) \in GCounters
  BY <1>1, GIncrementInserts DEF PNCounters
<1>3. PICK c \in PNCounters :
           /\ c = PNDecrement(counter[r], r, n)
           /\ c.decrements
                = Insert(counter[r].decrements, r, (Get(counter[r].decrements, r) + n) % Modulus)
           /\ c.increments = counter[r].increments
  <2>1. PNDecrement(counter[r], r, n)
          = [increments |-> counter[r].increments,
             decrements |-> GIncrement(counter[r].decrements, r, n)]
    BY <1>1 DEF PNDecrement, PNCounters
  <2> QED
    BY <1>1, <1>2, <2>1 DEF PNCounters
<1>4. PICK what \in Effects : what = [type |-> "decrement", n |-> n]
  BY <1>1 DEF Effects, Count
<1>5. PICK els \in SUBSET Value : els = elements[r]
  BY <1>1 DEF TypeOK
<1>6. /\ Update(r, what)
      /\ counter' = [counter EXCEPT ![r] = c] /\ elements' = [elements EXCEPT ![r] = els]
  BY <1>1, <1>3, <1>4, <1>5 DEF DecrementBy, TypeOK
<1>7. ASSUME StandFor(counter[r], elements[r], known[r])
      PROVE  \A events : events = known'[r] => StandFor(c, els, events)'
  <2>1. /\ CountsOf(counter[r].decrements, known[r], what.type)
        /\ CountsOf(c.increments, known[r], "increment")
        /\ what.type \in Counted /\ what.n \in Count
    BY <1>1, <1>3, <1>4, <1>7 DEF StandFor, Counted
  <2>2. \A events : events = known'[r] => CountsOf(c.decrements, events, "decrement")'
    BY <1>3, <1>4, <1>6, <2>1, CountedStands
  <2>3. \A events : events = known'[r] => CountsOf(c.increments, events, "increment")'
    BY <1>1, <1>4, <1>6, <2>1, OthersStand
  <2>4. \A events : events = known'[r] => els = Inserted(events)'
    BY <1>1, <1>4, <1>5, <1>6, <1>7, ElementsStand DEF StandFor
  <2> QED
    BY <2>2, <2>3, <2>4 DEF StandFor
<1> QED
  BY <1>6, <1>7, UpdateData

LEMMA InsertData ==
  ASSUME CausalInv, DataInv, NEW r \in Replica, NEW v \in Insertions[r], InsertElement(r, v)
  PROVE  DataInv'
<1>1. TypeOK /\ v \in Value
  BY OperationsAssumption DEF DataInv
<1>2. PICK c \in PNCounters : c = counter[r]
  BY <1>1 DEF TypeOK
<1>3. PICK what \in Effects : what = [type |-> "insert", value |-> v]
  BY <1>1 DEF Effects
<1>4. PICK els \in SUBSET Value : els = elements[r] \cup {v}
  BY <1>1 DEF TypeOK
<1>5. /\ Update(r, what)
      /\ counter' = [counter EXCEPT ![r] = c] /\ elements' = [elements EXCEPT ![r] = els]
  BY <1>1, <1>2, <1>3, <1>4 DEF InsertElement, InsertValue, TypeOK
<1>6. ASSUME StandFor(counter[r], elements[r], known[r])
      PROVE  \A events : events = known'[r] => StandFor(c, els, events)'
  <2>1. CountsOf(c.increments, known[r], "increment") /\ CountsOf(c.decrements, known[r], "decrement")
    BY <1>2, <1>6 DEF StandFor
  <2>2. \A events : events = known'[r] => CountsOf(c.increments, events, "increment")'
    BY <1>1, <1>3, <1>5, <2>1, OthersStand
  <2>3. \A events : events = known'[r] => CountsOf(c.decrements, events, "decrement")'
    BY <1>1, <1>3, <1>5, <2>1, OthersStand
  <2>4. \A events : events = known'[r] => els = Inserted(events)'
    BY <1>1, <1>3, <1>4, <1>5, <1>6, ElementsStand DEF StandFor
  <2> QED
    BY <2>2, <2>3, <2>4 DEF StandFor
<1> QED
  BY <1>5, <1>6, UpdateData

(* With no new event, everything stands for what it stood for. *)
LEMMA SameEffect ==
  ASSUME effect' = effect
  PROVE  \A c, els, E : StandFor(c, els, E)' <=> StandFor(c, els, E)
<1>1. ASSUME NEW E, NEW type
      PROVE  OfType(E, type)' = OfType(E, type) /\ Total(E, type)' = Total(E, type)
  BY DEF OfType, Total
<1>2. ASSUME NEW c, NEW E, NEW type PROVE CountsOf(c, E, type)' <=> CountsOf(c, E, type)
  <2>1. ASSUME NEW r PROVE OwnTotal(E, type, r)' = OwnTotal(E, type, r)
    <3>1. \A D : Total(D, type)' = Total(D, type)
      BY <1>1
    <3> QED
      BY <3>1 DEF OwnTotal, EventsOf
  <2> QED
    BY <1>1, <2>1 DEF CountsOf
<1>3. ASSUME NEW E PROVE Inserted(E)' = Inserted(E)
  BY DEF Inserted, OfType
<1> QED
  BY <1>2, <1>3 DEF StandFor

(* A copy of a replica's values joins the ones sent. *)
LEMMA SendData ==
  ASSUME CausalInv, DataInv, NEW r \in Replica, Send(r)
  PROVE  DataInv'
<1>1. /\ sent' = sent \cup {StateOf(r)}
      /\ UNCHANGED <<clock, counter, elements, known, stamp, past, effect>>
  BY DEF Send
<1>2. TypeOK /\ \A s \in Copies : IsFiniteSet(s.known) /\ StandFor(s.counter, s.elements, s.known)
  BY DEF DataInv
<1>3. CausalInv'
  BY SendCausal
<1>4. TypeOK'
  BY <1>1, <1>2, <1>3 DEF TypeOK, CausalInv, StateOf
<1>5. Copies' = Copies
  BY <1>1 DEF Copies, StateOf
<1>6. \A s \in Copies : IsFiniteSet(s.known) /\ StandFor(s.counter, s.elements, s.known)'
  BY <1>1, <1>2, SameEffect
<1> QED
  BY <1>4, <1>5, <1>6 DEF DataInv

(* Of two sets of known events, one holds the other's of each replica. *)
LEMMA NestedEvents ==
  ASSUME NEW c \in Clocks, NEW d \in Clocks, NEW r
  PROVE  \/ EventsOf(CoverOf(c), r) \subseteq EventsOf(CoverOf(d), r)
         \/ EventsOf(CoverOf(d), r) \subseteq EventsOf(CoverOf(c), r)
<1>1. Get(c, r) \in Nat /\ Get(d, r) \in Nat
  BY ClockEntries, EventsAssumption
<1>2. \A e \in Event : e[2] \in Nat
  BY EventFields, EventsAssumption
<1>3. CASE Get(c, r) <= Get(d, r)
  BY <1>1, <1>2, <1>3 DEF EventsOf, CoverOf
<1>4. CASE Get(d, r) <= Get(c, r)
  BY <1>1, <1>2, <1>4 DEF EventsOf, CoverOf
<1> QED
  BY <1>1, <1>3, <1>4

(* A merge makes of two copies one that stands for the events of both. *)
LEMMA ReceiveData ==
  ASSUME CausalInv, DataInv, NEW r \in Replica, NEW s \in sent, Receive(r, s)
  PROVE  DataInv'
<1> DEFINE c == PNMerge(counter[r], s.counter)
           els == elements[r] \cup s.elements
           events == known[r] \cup s.known
<1>1. TypeOK /\ \A t \in Copies : IsFiniteSet(t.known) /\ StandFor(t.counter, t.elements, t.known)
  BY DEF DataInv
<1>2. /\ counter' = [counter EXCEPT ![r] = c] /\ elements' = [elements EXCEPT ![r] = els]
      /\ known' = [known EXCEPT ![r] = events]
      /\ UNCHANGED <<sent, stamp, past, effect>>
  BY <1>1 DEF Receive, SetMerge, TypeOK, ClockTypeOK
<1>3. counter[r] \in PNCounters /\ s.counter \in PNCounters
  BY <1>1 DEF TypeOK
<1>4. /\ c.increments = GMerge(counter[r].increments, s.counter.increments)
      /\ c.decrements = GMerge(counter[r].decrements, s.counter.decrements)
  BY DEF PNMerge
<1>5. c \in PNCounters
  <2>1. c.increments \in GCounters /\ c.decrements \in GCounters
    BY <1>3, <1>4, GMergeCounts DEF PNCounters
  <2> QED
    BY <2>1 DEF PNMerge, PNCounters
<1>6. CausalInv'
  BY ReceiveCausal
<1>7. TypeOK'
  BY <1>1, <1>2, <1>5, <1>6 DEF TypeOK, CausalInv
<1>8. /\ StandFor(counter[r], elements[r], known[r]) /\ StandFor(s.counter, s.elements, s.known)
      /\ IsFiniteSet(known[r]) /\ IsFiniteSet(s.known)
  BY <1>1, OwnCopy DEF Copies
<1>9. StandFor(c, els, events)
  <2>1. known[r] \in SUBSET DOMAIN effect /\ s.known \in SUBSET DOMAIN effect
    BY <1>1 DEF CausalInv, ClocksCover, Closed, TypeOK
  <2>2. \A q : \/ EventsOf(known[r], q) \subseteq EventsOf(s.known, q)
              \/ EventsOf(s.known, q) \subseteq EventsOf(known[r], q)
    <3>1. /\ known[r] = CoverOf(clock[r]) /\ s.known = CoverOf(s.clock)
          /\ clock[r] \in Clocks /\ s.clock \in Clocks
      BY DEF CausalInv, ClocksCover, ClockTypeOK
    <3> QED
      BY <3>1, NestedEvents
  <2>3. CountsOf(c.increments, events, "increment")
    <3>1. /\ counter[r].increments \in GCounters /\ s.counter.increments \in GCounters
          /\ CountsOf(counter[r].increments, known[r], "increment")
          /\ CountsOf(s.counter.increments, s.known, "increment")
          /\ "increment" \in Counted
      BY <1>3, <1>8 DEF PNCounters, StandFor, Counted
    <3> QED
      BY <1>1, <1>4, <1>8, <2>1, <2>2, <3>1, CountsMerged
  <2>4. CountsOf(c.decrements, events, "decrement")
    <3>1. /\ counter[r].decrements \in GCounters /\ s.counter.decrements \in GCounters
          /\ CountsOf(counter[r].decrements, known[r], "decrement")
          /\ CountsOf(s.counter.decrements, s.known, "decrement")
          /\ "decrement" \in Counted
      BY <1>3, <1>8 DEF PNCounters, StandFor, Counted
    <3> QED
      BY <1>1, <1>4, <1>8, <2>1, <2>2, <3>1, CountsMerged
  <2>5. els = Inserted(events)
    BY <1>8 DEF StandFor, OfType, Inserted
  <2> QED
    BY <2>3, <2>4, <2>5 DEF StandFor
<1>10. ASSUME NEW q \in Replica
       PROVE  IsFiniteSet(known'[q]) /\ StandFor(counter[q], elements[q], known[q])'
  <2>1. IsFiniteSet(known[q]) /\ StandFor(counter[q], elements[q], known[q])
    BY <1>1, OwnCopy
  <2>2. IsFiniteSet(events)
    BY <1>8, FS_Union
  <2>3. \/ counter'[q] = c /\ elements'[q] = els /\ known'[q] = events
        \/ counter'[q] = counter[q] /\ elements'[q] = elements[q] /\ known'[q] = known[q]
    BY <1>1, <1>2 DEF TypeOK, ClockTypeOK
  <2>4. IsFiniteSet(known'[q]) /\ StandFor(counter'[q], elements'[q], known'[q])
    <3> HIDE DEF c, els, events
    <3> QED
      BY <1>9, <2>1, <2>2, <2>3
  <2>5. \A x, y, z : StandFor(x, y, z) => StandFor(x, y, z)'
    BY <1>2, SameEffect
  <2>6. \A x, y, z : x = counter'[q] /\ y = elements'[q] /\ z = known'[q]
                      => StandFor(x, y, z)'
    BY <2>4, <2>5
  <2> QED
    BY <2>4, <2>6
<1>11. \A t \in sent' : IsFiniteSet(t.known) /\ StandFor(t.counter, t.elements, t.known)'
  <2>1. \A t \in sent : t \in Copies
    BY DEF Copies
  <2> QED
    BY <1>1, <1>2, <2>1, SameEffect
<1> QED
  BY <1>7, <1>10, <1>11, CopiesStand

(* A step that leaves the variables leaves the invariant. *)
LEMMA StutterData ==
  ASSUME DataInv, UNCHANGED vars
  PROVE  DataInv'
<1>1. TypeOK /\ \A s \in Copies : IsFiniteSet(s.known) /\ StandFor(s.counter, s.elements, s.known)
  BY DEF DataInv
<1>2. TypeOK' /\ Copies' = Copies /\ effect' = effect
  BY <1>1 DEF vars, TypeOK, ClockTypeOK, Copies, StateOf
<1>3. \A s \in Copies : IsFiniteSet(s.known) /\ StandFor(s.counter, s.elements, s.known)'
  BY <1>1, <1>2, SameEffect
<1> QED
  BY <1>2, <1>3 DEF DataInv

-----------------------------------------------------------------------------
(* The state of Counters and GSet is what the known events made of it.     *)
THEOREM CountersInvariant == Spec => []DataInv
<1>1. CausalInv /\ DataInv /\ [Next]_vars => DataInv'
  <2> SUFFICES ASSUME CausalInv, DataInv, [Next]_vars PROVE DataInv'
    OBVIOUS
  <2>1. CASE Next
    <3> SUFFICES ASSUME NEW r \in Replica,
                        \/ \E n \in Increments[r] : IncrementBy(r, n)
                        \/ \E n \in Decrements[r] : DecrementBy(r, n)
                        \/ \E v \in Insertions[r] : InsertElement(r, v)
                        \/ Send(r)
                        \/ \E s \in sent : Receive(r, s)
                 PROVE  DataInv'
      BY <2>1 DEF Next
    <3> QED
      BY IncrementData, DecrementData, InsertData, SendData, ReceiveData
  <2>2. CASE UNCHANGED vars
    BY <2>2, StutterData
  <2> QED
    BY <2>1, <2>2
<1> QED
  BY <1>1, InitData, CausalInvariant, PTL DEF Spec

(* What stands for the same events is the same.                            *)
LEMMA FollowingDetermines == CausalInv /\ DataInv => SameEventsSameValues
<1> SUFFICES ASSUME CausalInv, DataInv, NEW s \in Copies, NEW t \in Copies
             PROVE  /\ PartialCmp(s.clock, t.clock) = "Equal" <=> s.known = t.known
                    /\ s.known = t.known /\ NothingWrapped(s.known) =>
                         s.counter = t.counter /\ s.elements = t.elements
  BY DEF SameEventsSameValues
<1>1. TypeOK
  BY DEF DataInv
<1>2. ASSUME NEW u \in Copies
      PROVE  /\ u.clock \in Clocks /\ u.counter \in PNCounters
             /\ u.known = CoverOf(u.clock) /\ u.known \subseteq DOMAIN stamp
  <2>1. CASE u \in sent
    BY <1>1, <2>1 DEF TypeOK, ClockTypeOK, CausalInv, ClocksCover, Closed
  <2>2. ASSUME NEW r \in Replica, u = StateOf(r) 
      PROVE  /\ u.clock \in Clocks /\ u.counter \in PNCounters
             /\ u.known = CoverOf(u.clock) /\ u.known \subseteq DOMAIN stamp
    BY <1>1, <2>2 DEF StateOf, TypeOK, ClockTypeOK, CausalInv, ClocksCover, Closed
  <2> QED
    BY <2>1, <2>2 DEF Copies
<1>3. PartialCmp(s.clock, t.clock) = "Equal" <=> s.known = t.known
  <2>1. /\ s.clock \in Clocks /\ s.known = CoverOf(s.clock)
        /\ t.clock \in Clocks /\ t.known = CoverOf(t.clock)
    BY <1>2
  <2>2. /\ NotAbove(s.clock, t.clock) <=> CoverOf(s.clock) \subseteq CoverOf(t.clock)
        /\ NotAbove(t.clock, s.clock) <=> CoverOf(t.clock) \subseteq CoverOf(s.clock)
    BY <2>1, CoverOrder
  <2>3. PartialCmp(s.clock, t.clock) = "Equal"
          <=> NotAbove(s.clock, t.clock) /\ NotAbove(t.clock, s.clock)
    BY <2>1, ComparesEntries, EventsAssumption DEF Clocks
  <2> QED
    BY <2>1, <2>2, <2>3
<1>4. ASSUME s.known = t.known, NothingWrapped(s.known)
      PROVE  s.counter = t.counter /\ s.elements = t.elements
  <2>1. StandFor(s.counter, s.elements, s.known) /\ StandFor(t.counter, t.elements, s.known)
    BY <1>4 DEF DataInv
  <2>2. s.counter.increments = t.counter.increments /\ s.counter.decrements = t.counter.decrements
    BY <1>2, <1>4, <2>1, CountsDetermined DEF StandFor, PNCounters, Counted
  <2>3. s.counter = t.counter
    BY <1>2, <2>2 DEF PNCounters
  <2> QED
    BY <2>1, <2>3 DEF StandFor
<1> QED
  BY <1>3, <1>4

(* Merging in any order, any number of times, ends in equal values.        *)
THEOREM StrongConvergence == Spec => []SameEventsSameValues
<1> QED
  BY CausalInvariant, CountersInvariant, FollowingDetermines, PTL

-----------------------------------------------------------------------------
(* A GCounter's value is the sum of what all its replicas added, as long   *)
(* as u64 holds it: then it holds each replica's own total too.            *)
LEMMA ValueIsTotal ==
  ASSUME TypeOK, NEW c \in GCounters, NEW type \in Counted,
         NEW E \in SUBSET DOMAIN effect, IsFiniteSet(E),
         CountsOf(c, E, type), Total(E, type) < Modulus
  PROVE  GValue(c) = Total(E, type)
<1> DEFINE S == OfType(E, type)
           f == [e \in DOMAIN effect |-> effect[e].n]
           C == DOMAIN c
<1>1. \A e \in S : f[e] = effect[e].n
  BY DEF OfType
<1>2. /\ IsFiniteSet(S) /\ Total(E, type) = SumFunctionOnSet(f, S)
      /\ \A e \in S : f[e] \in Nat
  BY <1>1, TotalIsSum
<1>3. C = {e[1] : e \in S}
  BY DEF CountsOf
<1>4. IsFiniteSet(C)
  <2> DEFINE first == [e \in S |-> e[1]]
  <2>1. first \in Surjection(S, C)
    BY <1>3 DEF Surjection
  <2> HIDE DEF first, S, C
  <2> QED
    BY <1>2, <2>1, FS_Surjection
<1>5. ASSUME NEW r \in C PROVE c[r] = SumFunctionOnSet(f, EventsOf(S, r))
  <2>1. OwnTotal(E, type, r) \in Nat /\ OwnTotal(E, type, r) <= Total(E, type) /\ Total(E, type) \in Nat
    BY OwnTotals
  <2>2. OwnTotal(E, type, r) < Modulus
    BY <2>1, ModulusAssumption
  <2>3. c[r] = OwnTotal(E, type, r)
    BY <2>2 DEF CountsOf
  <2> DEFINE D == EventsOf(E, r)
  <2>4. D \in SUBSET DOMAIN effect /\ IsFiniteSet(D) /\ OfType(D, type) = EventsOf(S, r)
    BY FS_Subset DEF EventsOf, OfType
  <2>5. \A e \in OfType(D, type) : f[e] = effect[e].n
    BY <2>4 DEF OfType
  <2>6. OwnTotal(E, type, r) = Total(D, type)
    BY DEF OwnTotal
  <2> HIDE DEF D, f
  <2>7. Total(D, type) = SumFunctionOnSet(f, OfType(D, type))
    BY <2>4, <2>5, TotalIsSum
  <2> QED
    BY <2>3, <2>4, <2>6, <2>7
<1>6. \A e \in S : e[1] \in C
  BY <1>3
<1>7. SumFunctionOnSet(c, C) = SumFunctionOnSet(f, S)
  <2> HIDE DEF S, f, C
  <2> QED
    BY <1>2, <1>4, <1>5, <1>6, SumOfClasses
<1>8. SumFunction(c) = Total(E, type)
  BY <1>2, <1>7 DEF SumFunction
<1>9. Total(E, type) \in Nat
  BY OwnTotals
<1>10. Total(E, type) % Modulus = Total(E, type)
  BY <1>9, ModulusAssumption
<1> QED
  BY <1>8, <1>10 DEF GValue

(* So a copy's value is what its known events add less what they take.     *)
LEMMA ValueFollows == CausalInv /\ DataInv => ValueCountsEvents
<1> SUFFICES ASSUME CausalInv, DataInv, NEW s \in Copies
             PROVE  /\ Total(s.known, "increment") < Modulus /\ Total(s.known, "decrement") < Modulus =>
                         PNValue(s.counter) = Total(s.known, "increment") - Total(s.known, "decrement")
                    /\ ReplicaCount(s.counter.increments)
                         = Cardinality({e[1] : e \in OfType(s.known, "increment")})
  BY DEF ValueCountsEvents
<1>1. TypeOK /\ IsFiniteSet(s.known) /\ StandFor(s.counter, s.elements, s.known)
  BY DEF DataInv
<1>2. s.counter \in PNCounters /\ s.known \in SUBSET DOMAIN effect
  BY <1>1 DEF Copies, StateOf, TypeOK, CausalInv, ClocksCover, Closed
<1>3. /\ s.counter.increments \in GCounters /\ s.counter.decrements \in GCounters
      /\ CountsOf(s.counter.increments, s.known, "increment")
      /\ CountsOf(s.counter.decrements, s.known, "decrement")
      /\ "increment" \in Counted /\ "decrement" \in Counted
  BY <1>1, <1>2 DEF PNCounters, StandFor, Counted
<1>4. Total(s.known, "increment") < Modulus => GValue(s.counter.increments) = Total(s.known, "increment")
  BY <1>1, <1>2, <1>3, ValueIsTotal
<1>5. Total(s.known, "decrement") < Modulus => GValue(s.counter.decrements) = Total(s.known, "decrement")
  BY <1>1, <1>2, <1>3, ValueIsTotal
<1>6. ReplicaCount(s.counter.increments)
        = Cardinality({e[1] : e \in OfType(s.known, "increment")})
  BY <1>3 DEF ReplicaCount, CountsOf
<1> QED
  BY <1>4, <1>5, <1>6 DEF PNValue

(* PNCounter::value and GCounter::replica_count are what the known events  *)
(* made of them, in whatever order and however often states were merged.   *)
THEOREM ValuesCountEvents == Spec => []ValueCountsEvents
<1> QED
  BY CausalInvariant, CountersInvariant, ValueFollows, PTL
=============================================================================
