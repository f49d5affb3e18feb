------------------------------ MODULE Induction ------------------------------
(***************************************************************************)
(* Induction over the natural numbers as a statement about sets, without   *)
(* an operator parameter: a number that a set closed under successor       *)
(* misses would let n + 1 map the elements of the set below it one to one  *)
(* into themselves without zero, which the pigeonhole principle excludes.  *)
(***************************************************************************)
EXTENDS Integers, FiniteSets, FiniteSetTheorems, TLAPS

LEMMA NaturalsFromZero ==
  ASSUME NEW T, 0 \in T, \A n \in Nat : n \in T => n + 1 \in T
  PROVE  Nat \subseteq T
<1>1. SUFFICES ASSUME NEW k \in Nat, k \notin T
               PROVE  FALSE
  OBVIOUS
<1> DEFINE Below == T \cap (0..k)
           next == [n \in Below |-> n + 1]
<1>2. IsFiniteSet(0..k)
  BY FS_Interval
<1>3. IsFiniteSet(Below)
  <2>1. Below \in SUBSET (0..k)
    OBVIOUS
  <2> HIDE DEF Below
  <2> QED BY <1>2, <2>1, FS_Subset
<1>4. 0 \in Below
  OBVIOUS
<1>5. /\ IsFiniteSet(Below \ {0})
      /\ Cardinality(Below \ {0}) = Cardinality(Below) - 1
      /\ Cardinality(Below) \in Nat
  <2> HIDE DEF Below
  <2> QED BY <1>3, <1>4, FS_RemoveElement, FS_CardinalityType
<1>6. next \in [Below -> Below \ {0}]
  <2>1. ASSUME NEW n \in Below PROVE n + 1 \in Below \ {0}
    <3>1. n \in 0..k /\ n \in T /\ n # k
      BY <1>1
    <3>2. n + 1 \in T
      BY <3>1, <1>1
    <3> QED BY <3>1, <3>2
  <2> QED BY <2>1
<1>7. \E x, y \in Below : x # y /\ next[x] = next[y]
  <2> HIDE DEF Below, next
  <2>1. Cardinality(Below \ {0}) < Cardinality(Below)
    BY <1>5
  <2> QED BY <1>3, <1>5, <1>6, <2>1, FS_PigeonHole
<1> QED BY <1>7

\* The same from zero to n.
LEMMA IntervalFromZero ==
  ASSUME NEW n \in Nat, NEW T, 0 \in T, \A i \in 0..(n - 1) : i \in T => i + 1 \in T
  PROVE  0..n \subseteq T
<1> DEFINE U == {i \in Nat : i <= n => i \in T}
<1>1. 0 \in U
  OBVIOUS
<1>2. \A i \in Nat : i \in U => i + 1 \in U
  OBVIOUS
<1> HIDE DEF U
<1>3. Nat \subseteq U
  BY <1>1, <1>2, NaturalsFromZero
<1> QED BY <1>3 DEF U

\* A set of natural numbers has a least element, and a bounded one a greatest.
LEMMA LeastExists ==
  ASSUME NEW S \in SUBSET Nat, S # {}
  PROVE  \E x \in S : \A y \in S : x <= y
<1> SUFFICES ASSUME \A x \in S : \E y \in S : ~(x <= y) PROVE FALSE
  OBVIOUS
<1> DEFINE T == {n \in Nat : \A y \in S : n < y}
<1>1. 0 \in T
  OBVIOUS
<1>2. \A n \in Nat : n \in T => n + 1 \in T
  <2> SUFFICES ASSUME NEW n \in T, NEW y \in S PROVE n + 1 < y
    OBVIOUS
  <2>1. n < y /\ y \in Nat /\ n \in Nat
    OBVIOUS
  <2>2. y # n + 1
    <3> SUFFICES ASSUME y = n + 1 PROVE FALSE
      OBVIOUS
    <3>1. PICK z \in S : ~(y <= z)
      OBVIOUS
    <3>2. n < z /\ z \in Nat
      OBVIOUS
    <3> QED BY <2>1, <3>1, <3>2
  <2> QED BY <2>1, <2>2
<1> HIDE DEF T
<1>3. Nat \subseteq T
  BY <1>1, <1>2, NaturalsFromZero
<1>4. PICK x \in S : TRUE
  OBVIOUS
<1>5. x \in T
  BY <1>3
<1> QED BY <1>5 DEF T

LEMMA GreatestExists ==
  ASSUME NEW k \in Nat, NEW S \in SUBSET (0..k), S # {}
  PROVE  \E x \in S : \A y \in S : x >= y
<1> DEFINE Room == {k - x : x \in S}
<1>1. Room \in SUBSET Nat /\ Room # {}
  <2>1. \A x \in S : k - x \in Nat
    OBVIOUS
  <2> QED BY <2>1
<1> HIDE DEF Room
<1>2. PICK r \in Room : \A s \in Room : r <= s
  BY <1>1, LeastExists
<1>3. PICK x \in S : r = k - x
  BY DEF Room
<1>4. ASSUME NEW y \in S PROVE x >= y
  <2>1. k - y \in Room
    BY DEF Room
  <2>2. k - x <= k - y
    BY <1>2, <1>3, <2>1
  <2> QED BY <2>2
<1> QED BY <1>4

\* f tells, for n up to k, the element of V that n steps lead to.
IsRun(f, V, first, step, k) ==
  /\ f \in [0..k -> V]
  /\ \A n \in 0..k : f[n] = IF n = 0 THEN first ELSE step[n][f[n - 1]]

LEMMA RunExists ==
  ASSUME NEW V, NEW first \in V, NEW k \in Nat, NEW step \in [1..k -> [V -> V]]
  PROVE  \E f : IsRun(f, V, first, step, k)
<1> DEFINE Upto(f, i) == \A n \in 0..i : f[n] = IF n = 0 THEN first ELSE step[n][f[n - 1]]
           T == {i \in 0..k : \E f \in [0..i -> V] : Upto(f, i)}
<1>1. 0 \in T
  <2> DEFINE f == [n \in 0..0 |-> first]
  <2>1. f \in [0..0 -> V] /\ Upto(f, 0)
    OBVIOUS
  <2> HIDE DEF f
  <2> QED BY <2>1
<1>2. ASSUME NEW i \in 0..(k - 1), i \in T PROVE i + 1 \in T
  <2>1. PICK f \in [0..i -> V] : Upto(f, i)
    BY <1>2
  <2> DEFINE new == step[i + 1][f[i]]
             g == [n \in 0..(i + 1) |-> IF n = i + 1 THEN new ELSE f[n]]
  <2>2. new \in V /\ i + 1 \in 0..k
    <3>1. i + 1 \in 1..k /\ i \in 0..i
      OBVIOUS
    <3>2. step[i + 1] \in [V -> V] /\ f[i] \in V
      BY <3>1
    <3> QED BY <3>1, <3>2
  <2>3. (\A n \in 0..i : g[n] = f[n]) /\ g[i + 1] = new
    OBVIOUS
  <2>4. g \in [0..(i + 1) -> V]
    <3> HIDE DEF new
    <3> QED BY <2>2
  <2> HIDE DEF g
  <2>5. ASSUME NEW n \in 0..(i + 1) PROVE g[n] = IF n = 0 THEN first ELSE step[n][g[n - 1]]
    <3>1. CASE n = i + 1
      <4>1. n # 0 /\ n - 1 = i /\ i \in 0..i
        BY <3>1
      <4> QED BY <2>3, <3>1, <4>1
    <3>2. CASE n \in 0..i
      <4>1. n # 0 => n - 1 \in 0..i
        BY <3>2
      <4> QED BY <2>1, <2>3, <3>2, <4>1
    <3> QED BY <3>1, <3>2
  <2> QED BY <2>2, <2>4, <2>5
<1>3. k \in T
  <2> HIDE DEF T
  <2>1. 0..k \subseteq T
    BY <1>1, <1>2, IntervalFromZero
  <2> QED BY <2>1
<1>4. PICK f \in [0..k -> V] : Upto(f, k)
  BY <1>3
<1>5. IsRun(f, V, first, step, k)
  BY <1>4 DEF IsRun
<1> QED BY <1>5
=============================================================================
