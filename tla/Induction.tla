-------------------------------- MODULE Induction --------------------------------
(***************************************************************************)
(* Induction on numbers, said of sets instead of predicates, and what      *)
(* follows from it: functions defined by recursion, and sets of numbers    *)
(* in ascending order.                                                     *)
(***************************************************************************)
EXTENDS Integers, FiniteSets, FiniteSetTheorems, WellFoundedInduction, TLAPS

\* A set of numbers has a least one: the intervals up to its members are finite sets,
\* and these are well-founded.
LEMMA LeastNumber ==
    ASSUME NEW B \in SUBSET Nat, B # {}
    PROVE  \E m \in B : \A k \in B : m <= k
<1> DEFINE T == {0 .. m : m \in B}
           R == StrictSubsetOrdering(Nat)
           F == FiniteSubsetsOf(Nat)
<1>1. IsWellFoundedOn(R, F)
  BY FS_StrictSubsetOrderingWellFounded
<1>2. T \subseteq F
  <2>1. \A m \in B : IsFiniteSet(0 .. m) /\ 0 .. m \in SUBSET Nat
    BY FS_Interval
  <2>2. QED
    BY <2>1 DEF FiniteSubsetsOf
<1>3. T # {}
  OBVIOUS
<1> HIDE DEF T, R, F
<1>4. PICK x \in T : \A y \in T : <<y, x>> \notin R
  BY <1>1, <1>2, <1>3, WFMin
<1>5. PICK m \in B : x = 0 .. m
  BY DEF T
<1>6. ASSUME NEW k \in B, k < m PROVE FALSE
  <2>1. 0 .. k \in T
    BY DEF T
  <2>2. 0 .. k \subseteq 0 .. m /\ 0 .. k # 0 .. m
    <3>1. m \in 0 .. m /\ m \notin 0 .. k
      BY <1>6
    <3>2. QED
      BY <1>6, <3>1
  <2>3. <<0 .. k, 0 .. m>> \in R
    BY <2>2 DEF R, StrictSubsetOrdering
  <2>4. QED
    BY <2>1, <2>3, <1>4, <1>5
<1>7. QED
  BY <1>6

LEMMA UpTo ==
    ASSUME NEW n \in Nat, NEW P, 0 \in P,
           \A i \in 0 .. n - 1 : i \in P => i + 1 \in P
    PROVE  0 .. n \subseteq P
<1> DEFINE B == {i \in 0 .. n : i \notin P}
<1>1. SUFFICES ASSUME B # {} PROVE FALSE
  OBVIOUS
<1>2. B \in SUBSET Nat
  OBVIOUS
<1> HIDE DEF B
<1>3. PICK m \in B : \A k \in B : m <= k
  BY <1>1, <1>2, LeastNumber
<1>4. m \in 0 .. n /\ m \notin P /\ m # 0
  BY DEF B
<1>5. m - 1 \in 0 .. n - 1 /\ m - 1 \notin B
  BY <1>3, <1>4, <1>2
<1>6. m - 1 \in P
  BY <1>5 DEF B
<1>7. QED
  BY <1>4, <1>5, <1>6

\* The functions with a first value, and each other value made of the one before.
Recursions(n, S, first, next) ==
    {f \in [0 .. n -> S] : f[0] = first /\ \A i \in 1 .. n : f[i] = next[i][f[i - 1]]}

LEMMA RecursionExists ==
    ASSUME NEW n \in Nat, NEW S, NEW first \in S, NEW next \in [1 .. n -> [S -> S]]
    PROVE  Recursions(n, S, first, next) # {}
<1> DEFINE Upto(f, k) == f[0] = first /\ \A i \in 1 .. k : f[i] = next[i][f[i - 1]]
           P == {k \in 0 .. n : \E f \in [0 .. k -> S] : Upto(f, k)}
<1>1. 0 \in P
  <2> DEFINE one == [i \in 0 .. 0 |-> first]
  <2>1. one \in [0 .. 0 -> S] /\ Upto(one, 0) /\ 0 \in 0 .. n
    OBVIOUS
  <2> HIDE DEF one, Upto
  <2>2. QED
    BY <2>1
<1>2. ASSUME NEW k \in 0 .. n - 1, k \in P PROVE k + 1 \in P
  <2>1. PICK f \in [0 .. k -> S] : Upto(f, k)
    BY <1>2
  <2> DEFINE g == [i \in 0 .. k + 1 |-> IF i = k + 1 THEN next[k + 1][f[k]] ELSE f[i]]
  <2>2. k \in 0 .. k /\ k + 1 \in 1 .. n /\ f[k] \in S
    OBVIOUS
  <2>3. g \in [0 .. k + 1 -> S]
    BY <2>2
  <2>4. \A i \in 0 .. k : g[i] = f[i]
    OBVIOUS
  <2>5. g[k + 1] = next[k + 1][f[k]] /\ g[k] = f[k]
    BY <2>2
  <2>6. Upto(g, k + 1)
    <3>1. g[0] = first
      BY <2>1, <2>4
    <3>2. ASSUME NEW i \in 1 .. k + 1 PROVE g[i] = next[i][g[i - 1]]
      <4>1. CASE i = k + 1
        <5>1. i - 1 = k
          BY <4>1
        <5>2. QED
          BY <4>1, <5>1, <2>5
      <4>2. CASE i # k + 1
        <5>1. i \in 1 .. k /\ i \in 0 .. k /\ i - 1 \in 0 .. k
          BY <4>2
        <5>2. g[i] = f[i] /\ g[i - 1] = f[i - 1] /\ f[i] = next[i][f[i - 1]]
          BY <5>1, <2>1, <2>4
        <5>3. QED
          BY <5>2
      <4>3. QED
        BY <4>1, <4>2
    <3>3. QED
      BY <3>1, <3>2
  <2> HIDE DEF g, Upto
  <2>7. QED
    BY <2>3, <2>6
<1> HIDE DEF P
<1>3. 0 .. n \subseteq P
  BY <1>1, <1>2, UpTo
<1>4. n \in P
  BY <1>3
<1>5. QED
  BY <1>4 DEF P, Recursions

-----------------------------------------------------------------------------
(* The numbers of a set in ascending order *)

Ascends(s) == \A i, j \in DOMAIN s : i < j => s[i] < s[j]

\* The first n of them can be told from the others as long as there are that many.
LEMMA AscendingExists ==
    ASSUME NEW S \in SUBSET Nat, IsFiniteSet(S)
    PROVE  \E s \in [1 .. Cardinality(S) -> S] : Ascends(s)
<1> DEFINE N == Cardinality(S)
           First(s, n) == /\ Ascends(s)
                          /\ \A k \in S : \/ \E i \in 1 .. n : s[i] = k
                                          \/ \A i \in 1 .. n : s[i] < k
           P == {n \in 0 .. N : \E s \in [1 .. n -> S] : First(s, n)}
<1>1. N \in Nat
  BY FS_CardinalityType
<1>2. 0 \in P
  <2> DEFINE none == [i \in 1 .. 0 |-> i]
  <2>1. none \in [1 .. 0 -> S] /\ First(none, 0) /\ 0 \in 0 .. N
    BY <1>1 DEF Ascends
  <2> HIDE DEF First, none, N
  <2> QED
    BY <2>1
<1>3. ASSUME NEW n \in 0 .. N - 1, n \in P PROVE n + 1 \in P
  <2>1. PICK s \in [1 .. n -> S] : First(s, n)
    BY <1>3
  <2> DEFINE rest == {k \in S : \A i \in 1 .. n : s[i] # k}
  <2>2. rest # {}
    <3> SUFFICES ASSUME rest = {} PROVE FALSE
      OBVIOUS
    <3>1. s \in Surjection(1 .. n, S)
      BY DEF Surjection
    <3>2. N <= n
      BY <3>1, FS_SurjCardinalityBound DEF ExistsSurjection
    <3> QED
      BY <1>1, <3>2
  <2>3. rest \in SUBSET Nat
    OBVIOUS
  <2>4. PICK m \in rest : \A k \in rest : m <= k
    <3> HIDE DEF rest
    <3> QED
      BY <2>2, <2>3, LeastNumber
  <2> DEFINE t == [i \in 1 .. n + 1 |-> IF i = n + 1 THEN m ELSE s[i]]
  <2>5. m \in S /\ m \in Nat /\ \A i \in 1 .. n : s[i] \in Nat /\ s[i] < m
    BY <2>1, <2>3
  <2>6. t \in [1 .. n + 1 -> S] /\ t[n + 1] = m /\ \A i \in 1 .. n : t[i] = s[i]
    BY <2>5
  <2> HIDE DEF t
  <2>7. Ascends(t)
    <3> SUFFICES ASSUME NEW i \in 1 .. n + 1, NEW j \in 1 .. n + 1, i < j PROVE t[i] < t[j]
      BY <2>6 DEF Ascends
    <3>1. i \in 1 .. n
      OBVIOUS
    <3>2. CASE j = n + 1
      BY <3>1, <3>2, <2>5, <2>6
    <3>3. CASE j \in 1 .. n
      BY <3>1, <3>3, <2>1, <2>6 DEF Ascends
    <3> QED
      BY <3>2, <3>3
  <2>8. ASSUME NEW k \in S
        PROVE  (\E i \in 1 .. n + 1 : t[i] = k) \/ (\A i \in 1 .. n + 1 : t[i] < k)
    <3>1. CASE k \in rest /\ k # m
      <4>1. m < k /\ k \in Nat
        BY <2>3, <2>4, <3>1
      <4>2. ASSUME NEW i \in 1 .. n + 1 PROVE t[i] < k
        BY <2>5, <2>6, <4>1
      <4> QED
        BY <4>2
    <3>2. CASE k = m
      <4>1. n + 1 \in 1 .. n + 1
        OBVIOUS
      <4> QED
        BY <2>6, <3>2, <4>1
    <3>3. CASE k \notin rest
      <4>1. PICK i \in 1 .. n : s[i] = k
        BY <3>3
      <4>2. i \in 1 .. n + 1 /\ t[i] = k
        BY <2>6, <4>1
      <4> QED
        BY <4>2
    <3> QED
      BY <3>1, <3>2, <3>3
  <2>9. n + 1 \in 0 .. N
    BY <1>1
  <2> QED
    BY <2>6, <2>7, <2>8, <2>9
<1> HIDE DEF P
<1>4. N \in P
  <2>1. 0 .. N \subseteq P
    BY <1>1, <1>2, <1>3, UpTo
  <2> QED
    BY <1>1, <2>1
<1> QED
  BY <1>4 DEF P

\* As many different members as there are: all of them.
LEMMA AscendingIsAll ==
    ASSUME NEW S \in SUBSET Nat, IsFiniteSet(S), NEW s \in [1 .. Cardinality(S) -> S], Ascends(s)
    PROVE  \A k \in S : \E i \in 1 .. Cardinality(S) : s[i] = k
<1> DEFINE N == Cardinality(S)
<1>1. N \in Nat /\ IsFiniteSet(1 .. N) /\ Cardinality(1 .. N) = N
  <2>1. N \in Nat
    BY FS_CardinalityType
  <2>2. IsFiniteSet(1 .. N) /\ Cardinality(1 .. N) = IF 1 > N THEN 0 ELSE N - 1 + 1
    BY <2>1, FS_Interval
  <2> QED
    BY <2>1, <2>2
<1>2. s \in Injection(1 .. N, S)
  <2>1. ASSUME NEW i \in 1 .. N, NEW j \in 1 .. N, s[i] = s[j] PROVE i = j
    <3> HIDE DEF N
    <3>1. s[i] \in Nat
      BY DEF N
    <3>2. ~(s[i] < s[j]) /\ ~(s[j] < s[i])
      BY <2>1, <3>1
    <3>3. DOMAIN s = 1 .. N
      BY DEF N
    <3> QED
      BY <1>1, <3>2, <3>3 DEF Ascends
  <2> QED
    BY <2>1 DEF Injection, IsInjective
<1>3. s \in Surjection(1 .. N, S)
  <2> HIDE DEF N
  <2>1. Cardinality(1 .. N) = Cardinality(S)
    BY <1>1 DEF N
  <2> QED
    BY <1>1, <1>2, <2>1, FS_Injection
<1> QED
  BY <1>3 DEF Surjection
==================================================================================
