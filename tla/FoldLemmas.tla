----------------------------- MODULE FoldLemmas -----------------------------
(* Induction over the natural numbers, stated with a set where the usual   *)
(* form has a predicate, the least element of a set, and the existence of  *)
(* functions defined by recursion on a number, with a function for the     *)
(* step.                                                                   *)
EXTENDS Integers, FiniteSetTheorems, WellFoundedInduction, TLAPS

LEMMA SetInduction ==
  ASSUME NEW S, 0 \in S, \A n \in Nat : n \in S => n + 1 \in S
  PROVE  Nat \subseteq S
<1> SUFFICES ASSUME Nat \ S # {} PROVE FALSE
  OBVIOUS
<1>1. PICK x \in Nat \ S : \A y \in Nat \ S : ~ (<<y, x>> \in OpToRel(<, Nat))
  BY NatLessThanWellFounded, WFMin
<1>2. x # 0 /\ x - 1 \in Nat /\ x - 1 < x
  OBVIOUS
<1>3. <<x - 1, x>> \in OpToRel(<, Nat)
  BY <1>2 DEF OpToRel
<1>4. x - 1 \in S
  BY <1>1, <1>2, <1>3
<1>5. x \in S
  BY <1>2, <1>4
<1>6. QED
  BY <1>5

(* The same up to a bound. *)
LEMMA BoundedInduction ==
  ASSUME NEW N \in Nat, NEW S, 0 \in S,
         \A n \in 0 .. N - 1 : n \in S => n + 1 \in S
  PROVE  0 .. N \subseteq S
<1> DEFINE T == S \cup {n \in Nat : n > N}
<1>1. 0 \in T
  OBVIOUS
<1>2. \A n \in Nat : n \in T => n + 1 \in T
  OBVIOUS
<1>3. Nat \subseteq T
  BY <1>1, <1>2, SetInduction
<1>4. QED
  BY <1>3

(* A finite set of naturals has a least element: of the sets of those      *)
(* below one of its elements one is minimal.                               *)
LEMMA LeastElement ==
  ASSUME NEW n \in Nat, NEW S \in SUBSET (1 .. n), S # {}
  PROVE  \E x \in S : \A y \in S : x <= y
<1> DEFINE Below(x) == {y \in S : y < x}
           T == {Below(x) : x \in S}
<1>1. T # {} /\ T \subseteq SUBSET S
  OBVIOUS
<1>2. FiniteSubsetsOf(S) = SUBSET S
  <2>1. IsFiniteSet(1 .. n)
    BY FS_Interval
  <2>2. IsFiniteSet(S)
    BY <2>1, FS_Subset
  <2>3. QED
    BY <2>2, FS_FiniteSubsetsOfFinite
<1>3. IsWellFoundedOn(StrictSubsetOrdering(S), SUBSET S)
  BY <1>2, FS_StrictSubsetOrderingWellFounded
<1> HIDE DEF T
<1>4. PICK m \in T : \A k \in T : <<k, m>> \notin StrictSubsetOrdering(S)
  BY <1>1, <1>3, WFMin
<1> USE DEF T
<1>5. PICK x \in S : m = Below(x)
  BY <1>4
<1>6. ASSUME NEW y \in S, y < x PROVE FALSE
  <2>0. \A z \in S : z \in Int
    OBVIOUS
  <2>1. y \in Below(x) /\ y \notin Below(y)
    <3>1. y \in Below(x)
      BY <1>6
    <3>2. ~ (y < y)
      BY <2>0
    <3>3. QED
      BY <3>1, <3>2
  <2>2. Below(y) \subseteq Below(x)
    <3>1. \A z \in S : z < y => z < x
      BY <1>6, <2>0
    <3>2. QED
      BY <3>1
  <2>3. Below(y) \in SUBSET S /\ Below(x) \in SUBSET S /\ Below(y) \in T
    OBVIOUS
  <2>4. Below(y) # Below(x)
    BY <2>1
  <2> HIDE DEF Below
  <2>5. <<Below(y), Below(x)>> \in StrictSubsetOrdering(S)
    BY <2>2, <2>3, <2>4 DEF StrictSubsetOrdering
  <2>6. QED
    BY <2>3, <2>5, <1>4, <1>5
<1>7. QED
  BY <1>6

(* And a greatest one, the least by its distance from n. *)
LEMMA GreatestElement ==
  ASSUME NEW n \in Nat, NEW S \in SUBSET (1 .. n), S # {}
  PROVE  \E x \in S : \A y \in S : y <= x
<1> DEFINE T == {n + 1 - x : x \in S}
<1>1. T \in SUBSET (1 .. n) /\ T # {}
  <2>1. \A x \in S : x \in 1 .. n
    OBVIOUS
  <2>2. \A x \in S : n + 1 - x \in 1 .. n
    BY <2>1
  <2>3. QED
    BY <2>2
<1>2. PICK d \in T : \A e \in T : d <= e
  <2> HIDE DEF T
  <2>1. QED
    BY <1>1, LeastElement
<1>3. PICK x \in S : d = n + 1 - x
  OBVIOUS
<1>4. \A y \in S : n + 1 - y \in T
  OBVIOUS
<1> HIDE DEF T
<1>5. \A y \in S : y <= x
  <2>1. TAKE y \in S
  <2>2. x \in 1 .. n /\ y \in 1 .. n
    OBVIOUS
  <2>3. n + 1 - x <= n + 1 - y
    BY <1>2, <1>3, <1>4
  <2>4. QED
    BY <2>2, <2>3
<1>6. QED
  BY <1>3, <1>5

(* f[0] = x0 and f[i] = G[i, f[i - 1]], up to N. *)
Recursive(f, X, x0, G, N) ==
  /\ f \in [0 .. N -> X] /\ f[0] = x0
  /\ \A i \in 1 .. N : f[i] = G[<<i, f[i - 1]>>]

LEMMA RecursionExists ==
  ASSUME NEW X, NEW x0 \in X, NEW G \in [Nat \X X -> X], NEW N \in Nat
  PROVE  \E f : Recursive(f, X, x0, G, N)
<1> DEFINE S == {n \in Nat : \E f : Recursive(f, X, x0, G, n)}
<1>1. 0 \in S
  <2> DEFINE f == [i \in 0 .. 0 |-> x0]
  <2>1. Recursive(f, X, x0, G, 0)
    BY DEF Recursive
  <2> HIDE DEF f
  <2>2. QED
    BY <2>1
<1>2. ASSUME NEW n \in Nat, n \in S PROVE n + 1 \in S
  <2>1. PICK f : Recursive(f, X, x0, G, n)
    BY <1>2
  <2>2. f[n] \in X /\ G[<<n + 1, f[n]>>] \in X
    BY <2>1 DEF Recursive
  <2> DEFINE g == [i \in 0 .. n + 1 |-> IF i = n + 1 THEN G[<<n + 1, f[n]>>] ELSE f[i]]
  <2>3. g \in [0 .. n + 1 -> X]
    BY <2>1, <2>2 DEF Recursive
  <2>4. g[0] = x0
    BY <2>1 DEF Recursive
  <2>5. \A i \in 1 .. n + 1 : g[i] = G[<<i, g[i - 1]>>]
    <3>1. TAKE i \in 1 .. n + 1
    <3>2. g[i - 1] = f[i - 1]
      OBVIOUS
    <3>3. CASE i = n + 1
      <4>1. g[i] = G[<<n + 1, f[n]>>]
        BY <3>3
      <4>2. g[i - 1] = f[n]
        BY <3>2, <3>3
      <4> HIDE DEF g
      <4>3. QED
        BY <3>3, <4>1, <4>2
    <3>4. CASE i \in 1 .. n
      BY <2>1, <3>2, <3>4 DEF Recursive
    <3>5. QED
      BY <3>3, <3>4
  <2> HIDE DEF g
  <2>6. Recursive(g, X, x0, G, n + 1)
    BY <2>3, <2>4, <2>5 DEF Recursive
  <2>7. QED
    BY <2>6
<1> HIDE DEF S
<1>3. N \in S
  BY <1>1, <1>2, SetInduction
<1> USE DEF S
<1>4. QED
  BY <1>3

(* Two functions with the same recursion are the same. *)
SameRecursion(f, g, N) ==
  f[0] = g[0] /\ \A i \in 1 .. N : f[i - 1] = g[i - 1] => f[i] = g[i]

SameUpTo(f, g, N) == \A i \in 0 .. N : f[i] = g[i]

LEMMA RecursionUnique ==
  ASSUME NEW N \in Nat, NEW f, NEW g, SameRecursion(f, g, N)
  PROVE  SameUpTo(f, g, N)
<1> DEFINE S == {i \in 0 .. N : f[i] = g[i]}
<1>1. 0 \in S
  BY DEF SameRecursion
<1>2. \A i \in 0 .. N - 1 : i \in S => i + 1 \in S
  <2>1. TAKE i \in 0 .. N - 1
  <2>2. i + 1 \in 1 .. N /\ (i + 1) - 1 = i
    OBVIOUS
  <2>3. QED
    BY <2>2 DEF SameRecursion
<1> HIDE DEF S
<1>3. 0 .. N \subseteq S
  BY <1>1, <1>2, BoundedInduction
<1> USE DEF S
<1>4. QED
  BY <1>3 DEF SameUpTo

(* f holds the sums of the first i values of t. *)
PartialSums(f, t, N) ==
  /\ f \in [0 .. N -> Nat] /\ f[0] = 0
  /\ \A i \in 1 .. N : f[i] = f[i - 1] + t[i]

LEMMA SumExists ==
  ASSUME NEW N \in Nat, NEW t \in [1 .. N -> Nat]
  PROVE  \E f : PartialSums(f, t, N)
<1> DEFINE G == [c \in Nat \X Nat |-> IF c[1] \in 1 .. N THEN c[2] + t[c[1]] ELSE 0]
<1>1. G \in [Nat \X Nat -> Nat]
  OBVIOUS
<1>2. \A i \in 1 .. N : \A x \in Nat : G[<<i, x>>] = x + t[i]
  OBVIOUS
<1> HIDE DEF G
<1>3. PICK f : Recursive(f, Nat, 0, G, N)
  BY <1>1, RecursionExists
<1>4. f \in [0 .. N -> Nat] /\ f[0] = 0
  BY <1>3 DEF Recursive
<1>5. \A i \in 1 .. N : f[i] = f[i - 1] + t[i]
  <2>1. TAKE i \in 1 .. N
  <2>2. i - 1 \in 0 .. N /\ f[i - 1] \in Nat
    BY <1>4
  <2>3. f[i] = G[<<i, f[i - 1]>>]
    BY <1>3 DEF Recursive
  <2>4. QED
    BY <1>2, <2>2, <2>3
<1>6. QED
  BY <1>4, <1>5 DEF PartialSums
=============================================================================
