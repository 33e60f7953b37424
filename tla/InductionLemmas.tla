-------------------------- MODULE InductionLemmas --------------------------
(***************************************************************************)
(* Induction over numbers and finite sets, stated of sets in the place of  *)
(* predicates, and what follows from it for Min, for the sum of a function *)
(* over a finite set, for recursive functions, for powers of two and for   *)
(* the numbers of ways to choose.                                          *)
(***************************************************************************)
EXTENDS Integers, Combinatorics, FiniteSetsExt, FiniteSetTheorems, WellFoundedInduction, TLAPS

LEMMA LeastElement ==
    ASSUME NEW S, S \subseteq Nat, S # {}
    PROVE  \E n \in S : \A k \in S : n <= k
  <1> DEFINE R == OpToRel(<, Nat)
  <1>1. IsWellFoundedOn(R, Nat)
    BY NatLessThanWellFounded
  <1>2. \A k, n \in S : k < n => <<k, n>> \in R
    BY DEF R, OpToRel
  <1> HIDE DEF R
  <1>3. PICK n \in S : \A k \in S : ~ (<<k, n>> \in R)
    BY <1>1, WFMin
  <1>4. \A k \in S : k \in Nat /\ n \in Nat /\ ~ (k < n)
    BY <1>2, <1>3
  <1>5. \A a, b \in Nat : ~ (a < b) => b <= a
    OBVIOUS
  <1> QED
    BY <1>4, <1>5

(* A set that has 0, and with a number the next one, has all numbers. *)
LEMMA SetInduction ==
    ASSUME NEW S, 0 \in S, \A n \in Nat : n \in S => n + 1 \in S
    PROVE  \A n \in Nat : n \in S
  <1> SUFFICES ASSUME Nat \ S # {} PROVE FALSE
    OBVIOUS
  <1>1. PICK n \in Nat \ S : \A k \in Nat \ S : n <= k
    BY LeastElement
  <1>2. n - 1 \in Nat /\ n - 1 \notin Nat \ S
    BY <1>1
  <1> QED
    BY <1>1, <1>2

(* A set that has a number when it has all smaller ones. *)
LEMMA StrongSetInduction ==
    ASSUME NEW S, \A n \in Nat : (\A k \in Nat : k < n => k \in S) => n \in S
    PROVE  \A n \in Nat : n \in S
  <1> SUFFICES ASSUME Nat \ S # {} PROVE FALSE
    OBVIOUS
  <1>1. PICK n \in Nat \ S : \A k \in Nat \ S : n <= k
    BY LeastElement
  <1>2. \A k \in Nat : k < n => k \in S
    BY <1>1
  <1> QED
    BY <1>1, <1>2

(* The greatest element of a set of numbers that has a bound. *)
LEMMA GreatestElement ==
    ASSUME NEW S, S \subseteq Nat, S # {}, NEW bound \in Nat, \A k \in S : k <= bound
    PROVE  \E n \in S : \A k \in S : k <= n
  <1> DEFINE T == {bound - k : k \in S}
  <1>1. T \subseteq Nat /\ T # {}
    <2>1. \A k \in S : bound - k \in Nat
      OBVIOUS
    <2> QED
      BY <2>1
  <1>2. PICK t \in T : \A k \in T : t <= k
    BY <1>1, LeastElement
  <1>3. PICK n \in S : t = bound - n
    BY <1>2
  <1>4. ASSUME NEW k \in S
        PROVE  k <= n
    <2>1. bound - k \in T
      OBVIOUS
    <2>2. bound - n <= bound - k /\ n \in Nat /\ k \in Nat
      BY <1>2, <1>3, <2>1
    <2> QED
      BY <2>2
  <1> QED
    BY <1>4

(* A set of finite sets that has the empty one, and another one when it has that set
   without any one of its elements. *)
LEMMA SubsetInduction ==
    ASSUME NEW S, IsFiniteSet(S), NEW P, {} \in P,
           \A T \in SUBSET S : T # {} /\ (\A x \in T : T \ {x} \in P) => T \in P
    PROVE  \A T \in SUBSET S : T \in P
  <1> DEFINE Sizes == {n \in Nat : \A T \in SUBSET S : Cardinality(T) = n => T \in P}
  <1>1. \A T \in SUBSET S : IsFiniteSet(T) /\ Cardinality(T) \in Nat
    BY FS_Subset, FS_CardinalityType
  <1>2. 0 \in Sizes
    BY <1>1, FS_EmptySet
  <1>3. ASSUME NEW n \in Nat, n \in Sizes
        PROVE  n + 1 \in Sizes
    <2>1. ASSUME NEW T \in SUBSET S, Cardinality(T) = n + 1
          PROVE  T \in P
      <3>1. T # {}
        BY <1>1, <2>1, FS_EmptySet
      <3>2. ASSUME NEW x \in T
            PROVE  T \ {x} \in P
        <4>1. Cardinality(T \ {x}) = n /\ T \ {x} \in SUBSET S
          BY <1>1, <2>1, <3>2, FS_RemoveElement
        <4> QED
          BY <1>3, <4>1
      <3> QED
        BY <3>1, <3>2
    <2> QED
      BY <2>1
  <1>4. \A n \in Nat : n \in Sizes
    BY <1>2, <1>3, SetInduction
  <1> QED
    BY <1>1, <1>4

LEMMA MinOfNumbers ==
    ASSUME NEW S, S \subseteq Nat, S # {}
    PROVE  Min(S) \in S /\ \A x \in S : Min(S) <= x
  BY LeastElement DEF Min

LEMMA MinIs ==
    ASSUME NEW S, S \subseteq Nat, NEW n \in S, \A x \in S : n <= x
    PROVE  Min(S) = n
  <1>1. Min(S) \in S /\ Min(S) <= n /\ n <= Min(S)
    BY MinOfNumbers
  <1>2. Min(S) \in Nat /\ n \in Nat
    BY <1>1
  <1> HIDE DEF Min
  <1> QED
    BY <1>1, <1>2

-----------------------------------------------------------------------------
(* Sums.  The recursion of the folds, over all subsets of a set. *)
IsSum(h, f, S) ==
    h = [s \in SUBSET S |->
            IF s = {} THEN 0
            ELSE f[CHOOSE x \in s : TRUE] + h[s \ {CHOOSE x \in s : TRUE}]]

Sum(f, S) == (CHOOSE h : IsSum(h, f, S))[S]

LEMMA SumIsSum == \A f, S : SumFunctionOnSet(f, S) = Sum(f, S)
  BY DEF SumFunctionOnSet, FoldFunctionOnSet, MapThenFoldSet, IsSum, Sum

(* The recursion has one solution, and its values do not depend on the set it is
   over. *)
LEMMA SumIsDefined ==
    ASSUME NEW f, NEW S, IsFiniteSet(S)
    PROVE  IsSum([s \in SUBSET S |-> Sum(f, s)], f, S)
  <1> DEFINE chosen(s) == CHOOSE x \in s : TRUE
             value(h, s) == IF s = {} THEN 0 ELSE f[chosen(s)] + h[s \ {chosen(s)}]
             Sums(s) == [t \in SUBSET s |-> Sum(f, t)]
             Fine(s) == IsSum(Sums(s), f, s) /\ \A h : IsSum(h, f, s) => h = Sums(s)
             Sizes == {n \in Nat : \A s \in SUBSET S : Cardinality(s) <= n => Fine(s)}
  <1>1. \A s : s # {} => chosen(s) \in s
    OBVIOUS
  <1>2. \A s \in SUBSET S : IsFiniteSet(s) /\ Cardinality(s) \in Nat
    BY FS_Subset, FS_CardinalityType
  <1>3. ASSUME NEW s \in SUBSET S, \A t \in SUBSET s : t # s => Fine(t)
        PROVE  Fine(s)
    <2>1. ASSUME NEW h, IsSum(h, f, s), NEW t \in SUBSET s, t # s
          PROVE  h[t] = Sum(f, t)
      <3> DEFINE g == [u \in SUBSET t |-> h[u]]
      <3>1. ASSUME NEW u \in SUBSET t
            PROVE  g[u] = value(g, u)
        <4>1. u \in SUBSET s /\ u \ {chosen(u)} \in SUBSET t
          OBVIOUS
        <4>2. h[u] = value(h, u)
          BY <2>1, <4>1 DEF IsSum
        <4> QED
          BY <4>1, <4>2
      <3>2. IsSum(g, f, t)
        BY <3>1 DEF IsSum
      <3>3. g = Sums(t)
        BY <1>3, <2>1, <3>2
      <3> QED
        BY <3>3
    <2> DEFINE all == [t \in SUBSET s |-> IF t = s THEN value(Sums(s), s) ELSE Sum(f, t)]
    <2>2. ASSUME NEW t \in SUBSET s, t # s
          PROVE  Sum(f, t) = value(Sums(t), t)
      <3>1. IsSum(Sums(t), f, t)
        BY <1>3, <2>2
      <3>2. Sums(t)[t] = value(Sums(t), t)
        BY <3>1 DEF IsSum
      <3> QED
        BY <3>2
    <2>3. IsSum(all, f, s)
      <3>1. ASSUME NEW t \in SUBSET s
            PROVE  all[t] = value(all, t)
        <4>1. CASE t = {}
          <5>1. CASE s = {}
            BY <4>1, <5>1
          <5>2. CASE s # {}
            BY <2>2, <4>1, <5>2
          <5> QED
            BY <5>1, <5>2
        <4>2. CASE t # {}
          <5>1. /\ chosen(t) \in t /\ t \ {chosen(t)} \in SUBSET t
                /\ t \ {chosen(t)} \in SUBSET s /\ t \ {chosen(t)} # s
            BY <1>1, <4>2
          <5>2. all[t \ {chosen(t)}] = Sum(f, t \ {chosen(t)})
            BY <5>1
          <5>3. all[t] = f[chosen(t)] + Sum(f, t \ {chosen(t)})
            <6>1. CASE t = s
              BY <4>2, <5>1, <6>1
            <6>2. CASE t # s
              BY <2>2, <4>2, <5>1, <6>2
            <6> QED
              BY <6>1, <6>2
          <5> QED
            BY <4>2, <5>2, <5>3
        <4> QED
          BY <4>1, <4>2
      <3> QED
        BY <3>1 DEF IsSum
    <2>4. ASSUME NEW h, IsSum(h, f, s)
          PROVE  h = all
      <3>1. h = [t \in SUBSET s |-> value(h, t)]
        BY <2>4 DEF IsSum
      <3>2. \A t \in SUBSET s : t # s => h[t] = all[t]
        BY <2>1, <2>4
      <3>3. h[s] = all[s]
        <4>1. h[s] = value(h, s) /\ all[s] = value(Sums(s), s)
          BY <3>1
        <4>2. CASE s = {}
          BY <4>1, <4>2
        <4>3. CASE s # {}
          <5>1. s \ {chosen(s)} \in SUBSET s /\ s \ {chosen(s)} # s
            BY <1>1, <4>3
          <5>2. h[s \ {chosen(s)}] = Sum(f, s \ {chosen(s)})
            BY <2>1, <2>4, <5>1
          <5> QED
            BY <4>1, <4>3, <5>1, <5>2
        <4> QED
          BY <4>2, <4>3
      <3> QED
        BY <3>1, <3>2, <3>3
    <2>5. Sum(f, s) = all[s]
      BY <2>3, <2>4 DEF Sum
    <2>6. Sums(s) = all
      BY <2>5
    <2> QED
      BY <2>3, <2>4, <2>6
  <1> HIDE DEF Fine
  <1>4. 0 \in Sizes
    <2>1. ASSUME NEW s \in SUBSET S, Cardinality(s) <= 0
          PROVE  Fine(s)
      <3>1. s = {}
        BY <1>2, <2>1, FS_EmptySet
      <3>2. \A t \in SUBSET s : t = s
        BY <3>1
      <3> QED
        BY <1>3, <3>2
    <2> QED
      BY <2>1
  <1>5. ASSUME NEW n \in Nat, n \in Sizes
        PROVE  n + 1 \in Sizes
    <2>1. ASSUME NEW s \in SUBSET S, Cardinality(s) <= n + 1
          PROVE  Fine(s)
      <3>1. ASSUME NEW t \in SUBSET s, t # s
            PROVE  Fine(t)
        <4>1. Cardinality(t) <= Cardinality(s) /\ Cardinality(t) # Cardinality(s)
          BY <1>2, <3>1, FS_Subset
        <4>2. t \in SUBSET S /\ Cardinality(t) <= n
          BY <1>2, <2>1, <4>1
        <4> QED
          BY <1>5, <4>2
      <3> QED
        BY <1>3, <3>1
    <2> QED
      BY <2>1
  <1>6. \A n \in Nat : n \in Sizes
    BY <1>4, <1>5, SetInduction
  <1>7. Fine(S)
    <2>1. S \in SUBSET S
      OBVIOUS
    <2>2. Cardinality(S) \in Nat
      BY <1>2, <2>1
    <2>3. Cardinality(S) \in Sizes /\ Cardinality(S) <= Cardinality(S)
      BY <1>6, <2>2
    <2> QED
      BY <2>1, <2>3
  <1> QED
    BY <1>7 DEF Fine

LEMMA SumStep ==
    ASSUME NEW f, NEW S, IsFiniteSet(S), S # {}
    PROVE  \E x \in S : SumFunctionOnSet(f, S) = f[x] + SumFunctionOnSet(f, S \ {x})
  <1> DEFINE h == [s \in SUBSET S |-> Sum(f, s)]
             x == CHOOSE y \in S : TRUE
  <1>1. h = [s \in SUBSET S |->
                 IF s = {} THEN 0
                 ELSE f[CHOOSE y \in s : TRUE] + h[s \ {CHOOSE y \in s : TRUE}]]
    <2>1. IsSum(h, f, S)
      BY SumIsDefined
    <2> QED
      BY <2>1 DEF IsSum
  <1>2. x \in S /\ S \in SUBSET S /\ S \ {x} \in SUBSET S
    OBVIOUS
  <1>3. h[S] = f[x] + h[S \ {x}]
    BY <1>1, <1>2
  <1>4. h[S] = Sum(f, S) /\ h[S \ {x}] = Sum(f, S \ {x})
    BY <1>2
  <1> HIDE DEF h, x
  <1> QED
    BY <1>2, <1>3, <1>4, SumIsSum

LEMMA SumOfNone == ASSUME NEW f PROVE SumFunctionOnSet(f, {}) = 0
  <1> DEFINE h == [s \in SUBSET {} |-> Sum(f, s)]
  <1>1. h = [s \in SUBSET {} |->
                 IF s = {} THEN 0
                 ELSE f[CHOOSE y \in s : TRUE] + h[s \ {CHOOSE y \in s : TRUE}]]
    <2>1. IsSum(h, f, {})
      BY SumIsDefined, FS_EmptySet
    <2> QED
      BY <2>1 DEF IsSum
  <1>2. h[{}] = 0 /\ h[{}] = Sum(f, {})
    BY <1>1
  <1> QED
    BY <1>2, SumIsSum

LEMMA SumType ==
    ASSUME NEW f, NEW S, IsFiniteSet(S), \A x \in S : f[x] \in Nat
    PROVE  SumFunctionOnSet(f, S) \in Nat
  <1> DEFINE P == {T \in SUBSET S : SumFunctionOnSet(f, T) \in Nat}
  <1>1. {} \in P
    BY SumOfNone
  <1>2. ASSUME NEW T \in SUBSET S, T # {}, \A x \in T : T \ {x} \in P
        PROVE  T \in P
    <2>1. IsFiniteSet(T)
      BY FS_Subset
    <2>2. PICK x \in T : SumFunctionOnSet(f, T) = f[x] + SumFunctionOnSet(f, T \ {x})
      BY <1>2, <2>1, SumStep
    <2>3. f[x] \in Nat /\ SumFunctionOnSet(f, T \ {x}) \in Nat
      BY <1>2
    <2> QED
      BY <2>2, <2>3
  <1>3. \A T \in SUBSET S : T \in P
    <2> HIDE DEF P
    <2> QED
      BY <1>1, <1>2, SubsetInduction
  <1> QED
    BY <1>3

(* The order in which the fold takes the elements does not matter. *)
LEMMA SumWithout ==
    ASSUME NEW f, NEW S, IsFiniteSet(S), \A y \in S : f[y] \in Nat, NEW x \in S
    PROVE  SumFunctionOnSet(f, S) = f[x] + SumFunctionOnSet(f, S \ {x})
  <1> DEFINE P == {T \in SUBSET S : \A y \in T :
                       SumFunctionOnSet(f, T) = f[y] + SumFunctionOnSet(f, T \ {y})}
  <1>1. {} \in P
    OBVIOUS
  <1>2. ASSUME NEW T \in SUBSET S, T # {}, \A y \in T : T \ {y} \in P
        PROVE  T \in P
    <2>1. \A U \in SUBSET T : IsFiniteSet(U) /\ SumFunctionOnSet(f, U) \in Nat
      BY FS_Subset, SumType
    <2>2. PICK z \in T : SumFunctionOnSet(f, T) = f[z] + SumFunctionOnSet(f, T \ {z})
      BY <1>2, <2>1, SumStep
    <2>3. ASSUME NEW y \in T, y # z
          PROVE  SumFunctionOnSet(f, T) = f[y] + SumFunctionOnSet(f, T \ {y})
      <3> DEFINE rest == T \ {y, z}
      <3>1. (T \ {z}) \ {y} = rest /\ (T \ {y}) \ {z} = rest
        OBVIOUS
      <3>2. SumFunctionOnSet(f, T \ {z}) = f[y] + SumFunctionOnSet(f, (T \ {z}) \ {y})
        <4>1. T \ {z} \in P /\ y \in T \ {z}
          BY <1>2, <2>3
        <4> QED
          BY <4>1
      <3>3. SumFunctionOnSet(f, T \ {y}) = f[z] + SumFunctionOnSet(f, (T \ {y}) \ {z})
        <4>1. T \ {y} \in P /\ z \in T \ {y}
          BY <1>2, <2>3
        <4> QED
          BY <4>1
      <3>4. f[y] \in Nat /\ f[z] \in Nat /\ SumFunctionOnSet(f, rest) \in Nat
        BY <2>1
      <3> HIDE DEF rest
      <3> QED
        BY <2>2, <3>1, <3>2, <3>3, <3>4
    <2> QED
      BY <2>2, <2>3
  <1>3. \A T \in SUBSET S : T \in P
    <2> HIDE DEF P
    <2> QED
      BY <1>1, <1>2, SubsetInduction
  <1> QED
    BY <1>3

LEMMA SumIsSame ==
    ASSUME NEW f, NEW g, NEW S, IsFiniteSet(S), \A x \in S : f[x] \in Nat /\ f[x] = g[x]
    PROVE  SumFunctionOnSet(f, S) = SumFunctionOnSet(g, S)
  <1> DEFINE P == {T \in SUBSET S : SumFunctionOnSet(f, T) = SumFunctionOnSet(g, T)}
  <1>1. {} \in P
    BY SumOfNone
  <1>2. ASSUME NEW T \in SUBSET S, T # {}, \A x \in T : T \ {x} \in P
        PROVE  T \in P
    <2>1. IsFiniteSet(T)
      BY FS_Subset
    <2>2. PICK x \in T : SumFunctionOnSet(f, T) = f[x] + SumFunctionOnSet(f, T \ {x})
      BY <1>2, <2>1, SumStep
    <2>3. SumFunctionOnSet(g, T) = g[x] + SumFunctionOnSet(g, T \ {x})
      BY <2>1, SumWithout
    <2>4. SumFunctionOnSet(f, T \ {x}) = SumFunctionOnSet(g, T \ {x})
      BY <1>2
    <2> QED
      BY <2>2, <2>3, <2>4
  <1>3. \A T \in SUBSET S : T \in P
    <2> HIDE DEF P
    <2> QED
      BY <1>1, <1>2, SubsetInduction
  <1> QED
    BY <1>3

LEMMA SumIsAtLeast ==
    ASSUME NEW f, NEW S, IsFiniteSet(S), \A y \in S : f[y] \in Nat, NEW x \in S
    PROVE  f[x] <= SumFunctionOnSet(f, S)
  <1>1. SumFunctionOnSet(f, S) = f[x] + SumFunctionOnSet(f, S \ {x})
    BY SumWithout
  <1>2. SumFunctionOnSet(f, S \ {x}) \in Nat
    BY FS_Subset, SumType
  <1> QED
    BY <1>1, <1>2

-----------------------------------------------------------------------------
(* A function that is defined by recursion, from a first value by a step. *)
Recurses(h, dom, V, first, step) ==
    /\ h \in [dom -> V]
    /\ \A n \in dom : h[n] = IF n = 0 THEN first ELSE step[<<n, h[n - 1]>>]

LEMMA RecursionHasSolution ==
    ASSUME NEW V, NEW first \in V, NEW step \in [Nat \X V -> V]
    PROVE  \E h : Recurses(h, Nat, V, first, step)
  <1> DEFINE Fits(h, n) ==
                 \A k \in 0 .. n : h[k] = IF k = 0 THEN first ELSE step[<<k, h[k - 1]>>]
             P == {n \in Nat : \E h \in [0 .. n -> V] : Fits(h, n)}
  <1>1. 0 \in P
    <2> DEFINE h == [k \in 0 .. 0 |-> first]
    <2>1. h \in [0 .. 0 -> V] /\ Fits(h, 0)
      OBVIOUS
    <2> QED
      BY <2>1
  <1>2. ASSUME NEW n \in Nat, n \in P
        PROVE  n + 1 \in P
    <2>1. PICK h \in [0 .. n -> V] : Fits(h, n)
      BY <1>2
    <2> DEFINE g == [k \in 0 .. n + 1 |-> IF k <= n THEN h[k] ELSE step[<<n + 1, h[n]>>]]
    <2>2. step[<<n + 1, h[n]>>] \in V
      OBVIOUS
    <2>3. g \in [0 .. n + 1 -> V]
      BY <2>2
    <2>4. ASSUME NEW k \in 0 .. n + 1
          PROVE  g[k] = IF k = 0 THEN first ELSE step[<<k, g[k - 1]>>]
      <3>1. CASE k <= n
        <4>1. k \in 0 .. n /\ g[k] = h[k] /\ (k # 0 => g[k - 1] = h[k - 1])
          BY <3>1
        <4> HIDE DEF g
        <4> QED
          BY <2>1, <4>1
      <3>2. CASE k = n + 1
        BY <3>2
      <3> QED
        BY <3>1, <3>2
    <2> HIDE DEF g
    <2> QED
      BY <2>3, <2>4
  <1>3. \A n \in Nat : n \in P
    <2> HIDE DEF P
    <2> QED
      BY <1>1, <1>2, SetInduction
  <1>4. ASSUME NEW n \in Nat, NEW m \in Nat, NEW g, NEW h, Fits(g, n), Fits(h, m)
        PROVE  \A k \in Nat : k <= n /\ k <= m => g[k] = h[k]
    <2> DEFINE D == {k \in Nat : k <= n /\ k <= m => g[k] = h[k]}
    <2>1. 0 \in D
      <3>1. 0 \in 0 .. n /\ 0 \in 0 .. m
        OBVIOUS
      <3> QED
        BY <1>4, <3>1
    <2>2. ASSUME NEW k \in Nat, k \in D
          PROVE  k + 1 \in D
      <3> SUFFICES ASSUME k + 1 <= n, k + 1 <= m PROVE g[k + 1] = h[k + 1]
        OBVIOUS
      <3>1. k + 1 \in 0 .. n /\ k + 1 \in 0 .. m /\ k + 1 # 0 /\ (k + 1) - 1 = k
        OBVIOUS
      <3>2. g[k + 1] = step[<<k + 1, g[k]>>] /\ h[k + 1] = step[<<k + 1, h[k]>>]
        BY <1>4, <3>1
      <3>3. g[k] = h[k]
        BY <2>2
      <3> QED
        BY <3>2, <3>3
    <2>3. \A k \in Nat : k \in D
      <3> HIDE DEF D
      <3> QED
        BY <2>1, <2>2, SetInduction
    <2> QED
      BY <2>3
  <1> DEFINE upTo(n) == CHOOSE h \in [0 .. n -> V] : Fits(h, n)
             all == [n \in Nat |-> upTo(n)[n]]
  <1>7. \A n \in Nat : upTo(n) \in [0 .. n -> V] /\ Fits(upTo(n), n)
    BY <1>3
  <1> HIDE DEF upTo
  <1>8. all \in [Nat -> V]
    BY <1>7
  <1>9. ASSUME NEW n \in Nat
        PROVE  all[n] = IF n = 0 THEN first ELSE step[<<n, all[n - 1]>>]
    <2>1. n \in 0 .. n
      OBVIOUS
    <2>2. upTo(n)[n] = IF n = 0 THEN first ELSE step[<<n, upTo(n)[n - 1]>>]
      BY <1>7, <2>1
    <2>3. CASE n = 0
      BY <2>2, <2>3
    <2>4. CASE n # 0
      <3>1. n - 1 \in Nat /\ n - 1 <= n /\ n - 1 <= n - 1
        BY <2>4
      <3>2. upTo(n)[n - 1] = upTo(n - 1)[n - 1]
        <4> HIDE DEF Fits
        <4> QED
          BY <1>4, <1>7, <3>1
      <3> QED
        BY <2>2, <2>4, <3>1, <3>2
    <2> QED
      BY <2>3, <2>4
  <1> HIDE DEF all
  <1> QED
    BY <1>8, <1>9 DEF Recurses

LEMMA RecursionUpTo ==
    ASSUME NEW V, NEW first \in V, NEW step \in [Nat \X V -> V], NEW N \in Nat
    PROVE  \E h : Recurses(h, 0 .. N, V, first, step)
  <1>1. PICK h : Recurses(h, Nat, V, first, step)
    BY RecursionHasSolution
  <1> DEFINE g == [n \in 0 .. N |-> h[n]]
  <1>2. g \in [0 .. N -> V]
    BY <1>1 DEF Recurses
  <1>3. ASSUME NEW n \in 0 .. N
        PROVE  g[n] = IF n = 0 THEN first ELSE step[<<n, g[n - 1]>>]
    <2>1. n # 0 => n - 1 \in 0 .. N
      OBVIOUS
    <2>2. g[n] = h[n] /\ (n # 0 => g[n - 1] = h[n - 1])
      BY <2>1
    <2>3. h[n] = IF n = 0 THEN first ELSE step[<<n, h[n - 1]>>]
      <3>1. n \in Nat
        OBVIOUS
      <3> QED
        BY <1>1, <3>1 DEF Recurses
    <2> HIDE DEF g
    <2>4. CASE n = 0
      BY <2>2, <2>3, <2>4
    <2>5. CASE n # 0
      BY <2>2, <2>3, <2>5
    <2> QED
      BY <2>4, <2>5
  <1> HIDE DEF g
  <1> QED
    BY <1>2, <1>3 DEF Recurses

(* A function that collects sets from a position on, jumping from one position to a
   later one. *)
Collects(h, N, Stop, next, found) ==
    h = [p \in 0 .. N |-> IF p \in Stop THEN {} ELSE h[next[p]] \cup found[p]]

LEMMA CollectingHasSolution ==
    ASSUME NEW N \in Nat, NEW Stop, NEW next, NEW found,
           \A p \in 0 .. N : p \notin Stop => next[p] \in p + 1 .. N
    PROVE  \E h : Collects(h, N, Stop, next, found)
  <1> DEFINE value(h, p) == IF p \in Stop THEN {} ELSE h[next[p]] \cup found[p]
             Fits(h, k) == \A p \in N - k .. N : h[p] = value(h, p)
             P == {k \in Nat : k <= N => \E h : Fits(h, k)}
  <1>1. 0 \in P
    <2> DEFINE h == [p \in 0 .. N |-> {}]
    <2>1. N \in Stop
      <3>1. N \in 0 .. N /\ N + 1 .. N = {}
        OBVIOUS
      <3> QED
        BY <3>1
    <2>2. Fits(h, 0)
      BY <2>1
    <2> HIDE DEF Fits, h
    <2> QED
      BY <2>2
  <1>2. ASSUME NEW k \in Nat, k \in P, k + 1 <= N
        PROVE  \E h : Fits(h, k + 1)
    <2>1. PICK h : Fits(h, k)
      <3> HIDE DEF Fits
      <3> QED
        BY <1>2
    <2> DEFINE new == N - (k + 1)
               g == [p \in 0 .. N |-> IF p = new THEN value(h, p) ELSE h[p]]
    <2>2. ASSUME NEW p \in new .. N
          PROVE  g[p] = value(g, p)
      <3>1. p \in 0 .. N
        BY <1>2
      <3>2. g[p] = value(h, p)
        <4>1. CASE p = new
          BY <3>1, <4>1
        <4>2. CASE p # new
          <5>1. p \in N - k .. N
            BY <1>2, <4>2
          <5>2. h[p] = value(h, p)
            BY <2>1, <5>1
          <5>3. g[p] = h[p]
            BY <3>1, <4>2
          <5> QED
            BY <5>2, <5>3
        <4> QED
          BY <4>1, <4>2
      <3>3. p \notin Stop => g[next[p]] = h[next[p]]
        <4> SUFFICES ASSUME p \notin Stop PROVE g[next[p]] = h[next[p]]
          OBVIOUS
        <4>1. next[p] \in p + 1 .. N
          BY <3>1
        <4>2. next[p] \in 0 .. N /\ next[p] # new
          BY <1>2, <4>1
        <4> QED
          BY <4>2
      <3> HIDE DEF g
      <3> QED
        BY <3>2, <3>3
    <2> HIDE DEF g
    <2> QED
      BY <2>2
  <1>3. \A k \in Nat : k \in P
    <2>1. \A k \in Nat : k \in P => k + 1 \in P
      <3> HIDE DEF Fits
      <3> QED
        BY <1>2
    <2> HIDE DEF P
    <2> QED
      BY <1>1, <2>1, SetInduction
  <1>4. PICK h : Fits(h, N)
    <2> HIDE DEF Fits
    <2> QED
      BY <1>3
  <1> DEFINE g == [p \in 0 .. N |-> h[p]]
  <1>5. ASSUME NEW p \in 0 .. N
        PROVE  g[p] = value(g, p)
    <2>1. h[p] = value(h, p)
      BY <1>4
    <2>2. p \notin Stop => next[p] \in 0 .. N
      OBVIOUS
    <2> QED
      BY <2>1, <2>2
  <1>6. g = [p \in 0 .. N |-> value(g, p)]
    BY <1>5
  <1> HIDE DEF g
  <1> QED
    BY <1>6 DEF Collects

(* What it collects is in a set that has all that is found. *)
LEMMA CollectedIsFound ==
    ASSUME NEW N \in Nat, NEW Stop, NEW next, NEW found,
           \A p \in 0 .. N : p \notin Stop => next[p] \in p + 1 .. N,
           NEW h, Collects(h, N, Stop, next, found),
           NEW S, \A p \in 0 .. N : p \notin Stop => found[p] \subseteq S
    PROVE  \A p \in 0 .. N : h[p] \subseteq S
  <1> DEFINE P == {k \in Nat : k <= N => h[N - k] \subseteq S}
  <1>1. ASSUME NEW k \in Nat, \A l \in Nat : l < k => l \in P, k <= N
        PROVE  h[N - k] \subseteq S
    <2> DEFINE p == N - k
    <2>1. p \in 0 .. N
      BY <1>1
    <2>2. h[p] = IF p \in Stop THEN {} ELSE h[next[p]] \cup found[p]
      BY <2>1 DEF Collects
    <2>3. CASE p \in Stop
      BY <2>2, <2>3
    <2>4. CASE p \notin Stop
      <3>1. next[p] \in p + 1 .. N
        BY <2>1, <2>4
      <3> DEFINE l == N - next[p]
      <3>2. l \in Nat /\ l < k /\ l <= N /\ N - l = next[p]
        BY <1>1, <3>1
      <3>3. h[N - l] \subseteq S
        <4> HIDE DEF l
        <4> QED
          BY <1>1, <3>2
      <3> QED
        BY <2>1, <2>2, <2>4, <3>2, <3>3
    <2> QED
      BY <2>3, <2>4
  <1>2. \A k \in Nat : (\A l \in Nat : l < k => l \in P) => k \in P
    BY <1>1
  <1>3. \A k \in Nat : k \in P
    <2> HIDE DEF P
    <2> QED
      BY <1>2, StrongSetInduction
  <1> SUFFICES ASSUME NEW p \in 0 .. N PROVE h[p] \subseteq S
    OBVIOUS
  <1>4. N - p \in P /\ N - (N - p) = p /\ N - p <= N
    BY <1>3
  <1> QED
    BY <1>4

-----------------------------------------------------------------------------
(* Products, quotients and powers of two. *)

Positive == Nat \ {0}

LEMMA Products ==
    ASSUME NEW a \in Nat, NEW b \in Nat, NEW x \in Nat, NEW y \in Nat, a <= b, x <= y
    PROVE  a * x \in Nat /\ a * x <= b * y
  <1>1. a * x \in Nat /\ a * x <= a * y
    OBVIOUS
  <1>2. a * y <= b * y
    OBVIOUS
  <1> QED
    BY <1>1, <1>2

LEMMA Quotients ==
    ASSUME NEW a \in Nat, NEW b \in Positive
    PROVE  a \div b \in Nat /\ \A c \in Nat : c * b <= a => c <= a \div b
  <1>1. a \div b \in Int /\ a % b \in 0 .. b - 1 /\ a = b * (a \div b) + (a % b)
    BY DEF Positive
  <1> DEFINE q == a \div b
  <1> HIDE DEF q
  <1>2. q \in Int /\ b \in Nat /\ b >= 1 /\ a < b * (q + 1)
    BY <1>1 DEF q, Positive
  <1>3. q >= 0
    <2> SUFFICES ASSUME q + 1 <= 0 PROVE FALSE
      BY <1>2
    <2>1. b * (q + 1) <= 0
      BY <1>2
    <2> QED
      BY <1>2, <2>1
  <1>4. ASSUME NEW c \in Nat, c * b <= a
        PROVE  c <= q
    <2> SUFFICES ASSUME q + 1 <= c PROVE FALSE
      BY <1>2
    <2>1. (q + 1) * b <= c * b
      BY <1>2, <1>3
    <2> QED
      BY <1>2, <1>4, <2>1
  <1> QED
    BY <1>2, <1>3, <1>4 DEF q

LEMMA ExactQuotient ==
    ASSUME NEW a \in Nat, NEW b \in Positive, NEW c \in Nat, c * b = a
    PROVE  a \div b = c
  <1> DEFINE q == a \div b
  <1>1. q \in Nat /\ c <= q
    BY Quotients
  <1>2. a % b \in 0 .. b - 1 /\ a = b * q + (a % b)
    BY DEF Positive
  <1> HIDE DEF q
  <1>3. b \in Nat /\ b >= 1 /\ b * q <= a
    BY <1>1, <1>2 DEF Positive
  <1>4. q <= c
    <2> SUFFICES ASSUME c + 1 <= q PROVE FALSE
      BY <1>1
    <2>1. b * (c + 1) <= b * q
      BY <1>1, <1>3, Products
    <2>2. b * (c + 1) = c * b + b
      BY <1>3
    <2> QED
      BY <1>1, <1>3, <2>1, <2>2
  <1>5. q = c
    BY <1>1, <1>4
  <1> QED
    BY <1>5 DEF q

(* Two numbers above none, with bounds, together stay below the product. *)
LEMMA SumBelowProduct ==
    ASSUME NEW a \in Positive, NEW b \in Positive, NEW x \in Nat, NEW y \in Nat, x < a, y < b
    PROVE  x + y < a * b
  <1> DEFINE c == a - 1
             d == b - 1
  <1>1. c \in Nat /\ d \in Nat /\ a = c + 1 /\ b = d + 1 /\ x <= c /\ y <= d
    BY DEF Positive
  <1> HIDE DEF c, d
  <1>2. (c + 1) * (d + 1) = c * d + c + d + 1
    BY <1>1
  <1>3. c * d \in Nat
    BY <1>1, Products
  <1> QED
    BY <1>1, <1>2, <1>3

LEMMA PowersOfTwo ==
    /\ \A e \in 0 .. 31 : 2 ^ e \in Positive
    /\ 2 ^ 0 = 1
    /\ \A e \in 0 .. 30 : 2 ^ (e + 1) = 2 * 2 ^ e
  <1> DEFINE power == [e \in 0 .. 31 |-> 2 ^ e]
  <1>1. /\ power[0] = 1 /\ power[1] = 2 /\ power[2] = 4 /\ power[3] = 8 /\ power[4] = 16
        /\ power[5] = 32 /\ power[6] = 64 /\ power[7] = 128 /\ power[8] = 256
    OBVIOUS
  <1>2. /\ power[9] = 512 /\ power[10] = 1024 /\ power[11] = 2048 /\ power[12] = 4096
        /\ power[13] = 8192 /\ power[14] = 16384 /\ power[15] = 32768 /\ power[16] = 65536
    OBVIOUS
  <1>3. /\ power[17] = 131072 /\ power[18] = 262144 /\ power[19] = 524288
        /\ power[20] = 1048576 /\ power[21] = 2097152 /\ power[22] = 4194304
        /\ power[23] = 8388608 /\ power[24] = 16777216
    OBVIOUS
  <1>4. /\ power[25] = 33554432 /\ power[26] = 67108864 /\ power[27] = 134217728
        /\ power[28] = 268435456 /\ power[29] = 536870912 /\ power[30] = 1073741824
        /\ power[31] = 2147483648
    OBVIOUS
  <1>5. \A e \in 0 .. 31 : power[e] = 2 ^ e
    OBVIOUS
  <1> HIDE DEF power
  <1>6. ASSUME NEW e \in 0 .. 31
        PROVE  power[e] \in Positive
    BY <1>1, <1>2, <1>3, <1>4 DEF Positive
  <1>7. ASSUME NEW e \in 0 .. 30
        PROVE  power[e + 1] = 2 * power[e]
    <2>1. e \in 0 .. 8 \/ e \in 9 .. 16 \/ e \in 17 .. 24 \/ e \in 25 .. 30
      OBVIOUS
    <2> QED
      BY <2>1, <1>1, <1>2, <1>3, <1>4
  <1>8. \A e \in 0 .. 30 : e + 1 \in 0 .. 31 /\ e \in 0 .. 31
    OBVIOUS
  <1> QED
    BY <1>1, <1>5, <1>6, <1>7, <1>8

(* The power of a sum is the product of the powers. *)
LEMMA PowerOfSum ==
    ASSUME NEW a \in Nat, NEW b \in Nat, a + b <= 31
    PROVE  2 ^ (a + b) = 2 ^ a * 2 ^ b
  <1> DEFINE power(e) == 2 ^ e
             P == {n \in Nat : a + n <= 31 => power(a + n) = power(a) * power(n)}
  <1>1. /\ \A e \in 0 .. 31 : power(e) \in Nat
        /\ power(0) = 1
        /\ \A e \in 0 .. 30 : power(e + 1) = 2 * power(e)
    BY PowersOfTwo DEF Positive
  <1> HIDE DEF power
  <1>2. 0 \in P
    <2>1. a \in 0 .. 31 /\ a + 0 = a
      OBVIOUS
    <2>2. power(a) * 1 = power(a)
      BY <1>1, <2>1
    <2> QED
      BY <1>1, <2>1, <2>2
  <1>3. ASSUME NEW n \in Nat, n \in P
        PROVE  n + 1 \in P
    <2> SUFFICES ASSUME a + (n + 1) <= 31
                 PROVE  power(a + (n + 1)) = power(a) * power(n + 1)
      OBVIOUS
    <2>1. /\ a + n \in 0 .. 30 /\ n \in 0 .. 30 /\ a \in 0 .. 31 /\ a + (n + 1) = (a + n) + 1
          /\ a + n <= 31
      OBVIOUS
    <2>2. power(a + n) = power(a) * power(n)
      BY <1>3, <2>1
    <2>3. power((a + n) + 1) = 2 * power(a + n) /\ power(n + 1) = 2 * power(n)
      BY <1>1, <2>1
    <2>4. power(a) \in Nat /\ power(n) \in Nat
      BY <1>1, <2>1
    <2>5. 2 * (power(a) * power(n)) = power(a) * (2 * power(n))
      BY <2>4
    <2> QED
      BY <2>1, <2>2, <2>3, <2>5
  <1>4. b \in P
    <2> HIDE DEF P
    <2> QED
      BY <1>2, <1>3, SetInduction
  <1>5. power(a + b) = power(a) * power(b)
    BY <1>4
  <1> QED
    BY <1>5 DEF power

LEMMA PowersGrow ==
    ASSUME NEW a \in 0 .. 31, NEW b \in 0 .. 31, a <= b
    PROVE  2 ^ a <= 2 ^ b
  <1> DEFINE c == b - a
             x == 2 ^ a
             y == 2 ^ c
  <1>1. a \in Nat /\ c \in Nat /\ a + c = b /\ a + c <= 31 /\ c \in 0 .. 31
    OBVIOUS
  <1>2. x \in Positive /\ y \in Positive
    BY <1>1, PowersOfTwo, Zenon
  <1> HIDE DEF c
  <1>3. 2 ^ (a + c) = x * y
    BY <1>1, PowerOfSum, Zenon
  <1>4. 2 ^ b = x * y
    BY <1>1, <1>3, Zenon
  <1> HIDE DEF x, y
  <1>5. x * 1 <= x * y
    BY <1>2 DEF Positive
  <1>6. x <= x * y
    BY <1>2, <1>5 DEF Positive
  <1> QED
    BY <1>4, <1>6 DEF x

-----------------------------------------------------------------------------
(* Numbers of ways to choose. *)

LEMMA FactorialIs ==
    /\ factorial \in [Nat -> Positive]
    /\ factorial[0] = 1
    /\ \A n \in Nat : factorial[n + 1] = (n + 1) * factorial[n]
  <1> DEFINE Solves(h) == h = [n \in Nat |-> IF n = 0 THEN 1 ELSE n * h[n - 1]]
             step == [x \in Nat \X Positive |-> IF x[1] = 0 THEN 1 ELSE x[1] * x[2]]
  <1>1. \A a, b \in Positive : a * b \in Positive
    BY DEF Positive
  <1>2. 1 \in Positive /\ step \in [Nat \X Positive -> Positive]
    <2>1. \A x \in Nat \X Positive : x[1] # 0 => x[1] \in Positive /\ x[2] \in Positive
      BY DEF Positive
    <2>2. \A x \in Nat \X Positive : x[1] # 0 => x[1] * x[2] \in Positive
      BY <1>1, <2>1
    <2>3. 1 \in Positive
      BY DEF Positive
    <2> QED
      BY <2>2, <2>3
  <1>3. \A n \in Nat : \A x \in Positive : n # 0 => step[<<n, x>>] = n * x
    OBVIOUS
  <1> HIDE DEF step
  <1>4. PICK h : Recurses(h, Nat, Positive, 1, step)
    BY <1>2, RecursionHasSolution
  <1>5. Solves(h)
    <2>1. ASSUME NEW n \in Nat
          PROVE  h[n] = IF n = 0 THEN 1 ELSE n * h[n - 1]
      <3>1. n # 0 => n - 1 \in Nat /\ h[n - 1] \in Positive
        BY <1>4 DEF Recurses
      <3>2. h[n] = IF n = 0 THEN 1 ELSE step[<<n, h[n - 1]>>]
        BY <1>4 DEF Recurses
      <3> QED
        BY <1>3, <3>1, <3>2
    <2>2. h = [n \in Nat |-> h[n]]
      BY <1>4 DEF Recurses
    <2> QED
      BY <2>1, <2>2
  <1>6. factorial = CHOOSE g : Solves(g)
    BY DEF factorial
  <1>7. Solves(factorial)
    <2> HIDE DEF Solves
    <2> QED
      BY <1>5, <1>6
  <1>8. \A n \in Nat : factorial[n] = IF n = 0 THEN 1 ELSE n * factorial[n - 1]
    BY <1>7
  <1>9. \A n \in Nat : factorial[n + 1] = (n + 1) * factorial[n]
    <2> SUFFICES ASSUME NEW n \in Nat PROVE factorial[n + 1] = (n + 1) * factorial[n]
      OBVIOUS
    <2>1. n + 1 \in Nat /\ n + 1 # 0 /\ (n + 1) - 1 = n
      OBVIOUS
    <2> QED
      BY <1>8, <2>1
  <1> DEFINE P == {n \in Nat : factorial[n] \in Positive}
  <1>10. 0 \in P
    BY <1>8, <1>2
  <1>11. \A n \in Nat : n \in P => n + 1 \in P
    <2> SUFFICES ASSUME NEW n \in Nat, n \in P PROVE n + 1 \in P
      OBVIOUS
    <2>1. n + 1 \in Positive /\ factorial[n] \in Positive
      BY DEF Positive
    <2> QED
      BY <1>1, <1>9, <2>1
  <1>12. \A n \in Nat : n \in P
    <2> HIDE DEF P
    <2> QED
      BY <1>10, <1>11, SetInduction
  <1>13. factorial = [n \in Nat |-> factorial[n]]
    BY <1>7
  <1> QED
    BY <1>8, <1>9, <1>12, <1>13

(* To choose some of a number of things there is at least one way. *)
LEMMA ChooseType ==
    ASSUME NEW n \in Nat, NEW k \in 0 .. n
    PROVE  choose(n, k) \in Positive
  <1> DEFINE least_(m) == factorial[k] * factorial[m] <= factorial[k + m]
             P == {m \in Nat : least_(m)}
  <1>1. \A m \in Nat : factorial[m] \in Nat /\ factorial[m] >= 1
    <2>1. \A m \in Nat : factorial[m] \in Positive
      BY FactorialIs
    <2> QED
      BY <2>1 DEF Positive
  <1>2. k \in Nat /\ n - k \in Nat /\ k + (n - k) = n
    OBVIOUS
  <1>3. 0 \in P
    BY <1>1, <1>2, FactorialIs
  <1>4. ASSUME NEW m \in Nat, m \in P
        PROVE  m + 1 \in P
    <2> DEFINE a == factorial[k]
               b == factorial[m]
               c == factorial[k + m]
    <2>1. a \in Nat /\ b \in Nat /\ c \in Nat /\ a * b <= c
      BY <1>1, <1>2, <1>4
    <2>2. factorial[m + 1] = (m + 1) * b /\ factorial[k + (m + 1)] = (k + m + 1) * c
      <3>1. k + m \in Nat /\ k + (m + 1) = (k + m) + 1 /\ k + m + 1 = (k + m) + 1
        BY <1>2
      <3> QED
        BY <3>1, FactorialIs
    <2> HIDE DEF a, b, c
    <2>3. a * ((m + 1) * b) = (m + 1) * (a * b)
      BY <2>1
    <2>4. (m + 1) * (a * b) <= (k + m + 1) * c
      <3>1. m + 1 \in Nat /\ k + m + 1 \in Nat /\ m + 1 <= k + m + 1
        BY <1>2
      <3>2. a * b \in Nat
        BY <2>1, Products
      <3> QED
        BY <2>1, <3>1, <3>2, Products
    <2> QED
      BY <2>2, <2>3, <2>4 DEF a
  <1>5. n - k \in P
    <2>1. \A m \in Nat : m \in P
      <3> HIDE DEF P
      <3> QED
        BY <1>3, <1>4, SetInduction
    <2> QED
      BY <1>2, <2>1
  <1> DEFINE a == factorial[k] * factorial[n - k]
  <1>6. a <= factorial[n] /\ factorial[n] \in Nat
    BY <1>1, <1>2, <1>5
  <1>7. a \in Positive
    <2>1. \A x, y \in Nat : x >= 1 /\ y >= 1 => x * y \in Positive
      BY DEF Positive
    <2> QED
      BY <1>1, <1>2, <2>1
  <1>8. choose(n, k) = factorial[n] \div a
    BY DEF choose
  <1> HIDE DEF a
  <1>9. 1 * a <= factorial[n]
    BY <1>6, <1>7 DEF Positive
  <1>10. factorial[n] \div a \in Nat /\ 1 <= factorial[n] \div a
    BY <1>6, <1>7, <1>9, Quotients
  <1> QED
    BY <1>8, <1>10 DEF Positive

LEMMA ChooseEnds ==
    ASSUME NEW n \in Nat
    PROVE  choose(n, 0) = 1 /\ choose(n, n) = 1
  <1> DEFINE f == factorial[n]
  <1>1. f \in Positive /\ factorial[0] = 1 /\ n - 0 = n /\ n - n = 0
    BY FactorialIs
  <1>2. choose(n, 0) = f \div (1 * f) /\ choose(n, n) = f \div (f * 1)
    BY <1>1 DEF choose
  <1> HIDE DEF f
  <1>3. 1 * f = f /\ f * 1 = f /\ f \in Nat
    BY <1>1 DEF Positive
  <1>4. f \div f = 1
    BY <1>1, <1>3, ExactQuotient
  <1> QED
    BY <1>2, <1>3, <1>4

(* With the number of ways to choose k of n, the factorials divide without a
   remainder, and Pascal's rule holds. *)
LEMMA ChooseIs ==
    ASSUME NEW n \in Nat
    PROVE  /\ \A k \in 0 .. n : choose(n, k) * (factorial[k] * factorial[n - k]) = factorial[n]
           /\ \A k \in 1 .. n : choose(n + 1, k) = choose(n, k - 1) + choose(n, k)
  <1> DEFINE Exact(m, k) == choose(m, k) * (factorial[k] * factorial[m - k]) = factorial[m]
             Rule(m, k) == choose(m + 1, k) = choose(m, k - 1) + choose(m, k)
             P == {m \in Nat : \A k \in 0 .. m : Exact(m, k)}
  <1>1. ASSUME NEW m \in Nat, NEW k \in {0, m}
        PROVE  Exact(m, k)
    <2>1. factorial[0] = 1 /\ factorial[m] \in Positive /\ m - 0 = m /\ m - m = 0
      BY FactorialIs
    <2>2. choose(m, k) = 1
      BY ChooseEnds
    <2>3. CASE k = 0
      BY <2>1, <2>2, <2>3 DEF Positive
    <2>4. CASE k = m
      BY <2>1, <2>2, <2>4 DEF Positive
    <2> QED
      BY <2>3, <2>4
  <1>2. ASSUME NEW m \in Nat, m \in P, NEW k \in 1 .. m
        PROVE  Exact(m + 1, k) /\ Rule(m, k)
    <2> DEFINE i == k - 1
               r == m - k
               x == choose(m, i)
               y == choose(m, k)
               a == factorial[i]
               b == factorial[r]
               f == factorial[m]
    <2>1. /\ i \in Nat /\ r \in Nat /\ k = i + 1 /\ m - i = r + 1 /\ (m + 1) - k = r + 1
          /\ i \in 0 .. m /\ k \in 0 .. m /\ k \in Nat /\ r + 1 \in Nat /\ k + (r + 1) = m + 1
      OBVIOUS
    <2>2. a \in Positive /\ b \in Positive /\ f \in Positive /\ x \in Positive /\ y \in Positive
      BY <2>1, FactorialIs, ChooseType
    <2>3. /\ factorial[k] = k * a
          /\ factorial[r + 1] = (r + 1) * b
          /\ factorial[m + 1] = (m + 1) * f
      BY <2>1, FactorialIs
    <2>4. x * (a * ((r + 1) * b)) = f /\ y * ((k * a) * b) = f
      BY <1>2, <2>1, <2>3
    <2> DEFINE c == (k * a) * ((r + 1) * b)
    <2>5. choose(m + 1, k) = ((m + 1) * f) \div c
      BY <2>1, <2>3 DEF choose
    <2> HIDE DEF i, r, x, y, a, b, f, P
    <2>6. (x + y) * c = (k + (r + 1)) * f
      <3>1. a \in Nat /\ b \in Nat /\ f \in Nat /\ x \in Nat /\ y \in Nat
        BY <2>2 DEF Positive
      <3> QED
        BY <2>1, <2>4, <3>1
    <2>7. c \in Positive
      <3>1. \A u, v \in Positive : u * v \in Positive
        BY DEF Positive
      <3>2. k \in Positive /\ r + 1 \in Positive
        BY <2>1 DEF Positive
      <3> QED
        BY <2>2, <3>1, <3>2
    <2>8. (m + 1) * f \in Nat /\ x + y \in Nat
      BY <2>2 DEF Positive
    <2>9. (x + y) * c = (m + 1) * f
      BY <2>1, <2>6
    <2> HIDE DEF c
    <2>10. choose(m + 1, k) = x + y
      BY <2>5, <2>7, <2>8, <2>9, ExactQuotient
    <2>11. Rule(m, k)
      BY <2>10 DEF x, y, i
    <2>12. Exact(m + 1, k)
      BY <2>1, <2>3, <2>9, <2>10 DEF c
    <2> QED
      BY <2>11, <2>12
  <1>3. 0 \in P
    BY <1>1
  <1>4. ASSUME NEW m \in Nat, m \in P
        PROVE  m + 1 \in P
    <2> SUFFICES ASSUME NEW k \in 0 .. m + 1 PROVE Exact(m + 1, k)
      OBVIOUS
    <2>1. k \in {0, m + 1} \/ k \in 1 .. m
      OBVIOUS
    <2>2. m + 1 \in Nat
      OBVIOUS
    <2> HIDE DEF Exact, Rule
    <2> QED
      BY <1>1, <1>2, <1>4, <2>1, <2>2
  <1>5. \A m \in Nat : m \in P
    <2> HIDE DEF P
    <2> QED
      BY <1>3, <1>4, SetInduction
  <1> QED
    BY <1>2, <1>5

(* The number of ways to choose up to m of n. *)
RowSum(n, m) == SumFunctionOnSet([k \in 0 .. m |-> choose(n, k)], 0 .. m)

LEMMA RowSumIs ==
    ASSUME NEW n \in Nat
    PROVE  /\ \A m \in 0 .. n : RowSum(n, m) \in Nat
           /\ RowSum(n, 0) = 1
           /\ \A m \in 0 .. n : m + 1 <= n => RowSum(n, m + 1) = RowSum(n, m) + choose(n, m + 1)
  <1> DEFINE f(m) == [k \in 0 .. m |-> choose(n, k)]
  <1>1. ASSUME NEW m \in 0 .. n
        PROVE  /\ IsFiniteSet(0 .. m)
               /\ \A k \in 0 .. m : f(m)[k] = choose(n, k) /\ choose(n, k) \in Nat
    <2>1. \A k \in 0 .. m : k \in 0 .. n /\ f(m)[k] = choose(n, k)
      OBVIOUS
    <2>2. IsFiniteSet(0 .. m)
      BY FS_Interval
    <2>3. \A k \in 0 .. n : choose(n, k) \in Nat
      BY ChooseType DEF Positive
    <2> HIDE DEF f
    <2> QED
      BY <2>1, <2>2, <2>3
  <1> HIDE DEF f
  <1>2. \A m \in 0 .. n : RowSum(n, m) = SumFunctionOnSet(f(m), 0 .. m)
    BY DEF RowSum, f
  <1>3. \A m \in 0 .. n : RowSum(n, m) \in Nat
    BY <1>1, <1>2, SumType
  <1>4. ASSUME NEW m \in 0 .. n, m + 1 <= n
        PROVE  RowSum(n, m + 1) = RowSum(n, m) + choose(n, m + 1)
    <2> DEFINE j == m + 1
               S == 0 .. j
    <2>1. /\ j \in 0 .. n /\ j \in S /\ S \ {j} = 0 .. m /\ 0 .. m \subseteq S
      BY <1>4
    <2>2. /\ IsFiniteSet(S)
          /\ \A k \in S : f(j)[k] = choose(n, k) /\ choose(n, k) \in Nat
      BY <1>1, <2>1
    <2> HIDE DEF j, S
    <2>3. SumFunctionOnSet(f(j), S) = f(j)[j] + SumFunctionOnSet(f(j), 0 .. m)
      BY <2>1, <2>2, SumWithout
    <2>4. SumFunctionOnSet(f(j), 0 .. m) = SumFunctionOnSet(f(m), 0 .. m)
      BY <1>1, <2>1, <2>2, SumIsSame
    <2>5. RowSum(n, j) = choose(n, j) + RowSum(n, m)
      BY <1>2, <2>1, <2>2, <2>3, <2>4 DEF S
    <2>6. choose(n, j) \in Nat /\ RowSum(n, m) \in Nat
      BY <1>3, <2>1, <2>2
    <2>7. RowSum(n, j) = RowSum(n, m) + choose(n, j)
      BY <2>5, <2>6
    <2> QED
      BY <2>7 DEF j
  <1>5. RowSum(n, 0) = 1
    <2>1. 0 \in 0 .. n /\ 0 .. 0 = {0}
      OBVIOUS
    <2>2. choose(n, 0) = 1
      BY ChooseEnds
    <2>3. IsFiniteSet({0}) /\ \A k \in {0} : f(0)[k] \in Nat
      BY <1>1, <2>1
    <2>4. SumFunctionOnSet(f(0), {0}) = f(0)[0] + SumFunctionOnSet(f(0), {0} \ {0})
      BY <2>3, SumWithout
    <2>5. {0} \ {0} = {} /\ SumFunctionOnSet(f(0), {}) = 0
      BY SumOfNone
    <2>6. f(0)[0] = 1
      BY <1>1, <2>1, <2>2
    <2>7. RowSum(n, 0) = SumFunctionOnSet(f(0), {0})
      BY <1>2, <2>1
    <2> QED
      BY <2>4, <2>5, <2>6, <2>7
  <1> QED
    BY <1>3, <1>4, <1>5

LEMMA RowsAddUp ==
    ASSUME NEW n \in Nat, NEW j \in Nat, j + 1 <= n
    PROVE  RowSum(n + 1, j + 1) = RowSum(n, j + 1) + RowSum(n, j)
  <1> DEFINE Adds(m) == RowSum(n + 1, m + 1) = RowSum(n, m + 1) + RowSum(n, m)
             P == {m \in Nat : m + 1 <= n => Adds(m)}
  <1>1. /\ \A m \in 0 .. n : RowSum(n, m) \in Nat
        /\ RowSum(n, 0) = 1
        /\ \A m \in 0 .. n : m + 1 <= n => RowSum(n, m + 1) = RowSum(n, m) + choose(n, m + 1)
    BY RowSumIs
  <1>2. /\ RowSum(n + 1, 0) = 1
        /\ \A m \in 0 .. n + 1 : m + 1 <= n + 1 =>
               RowSum(n + 1, m + 1) = RowSum(n + 1, m) + choose(n + 1, m + 1)
    <2>1. n + 1 \in Nat
      OBVIOUS
    <2> QED
      BY <2>1, RowSumIs
  <1>3. \A k \in 1 .. n : choose(n + 1, k) = choose(n, k - 1) + choose(n, k)
    BY ChooseIs
  <1>4. \A k \in 0 .. n : choose(n, k) \in Nat
    BY ChooseType DEF Positive
  <1>5. choose(n, 0) = 1
    BY ChooseEnds
  <1>6. 0 \in P
    <2> SUFFICES ASSUME 1 <= n PROVE Adds(0)
      OBVIOUS
    <2>1. 0 \in 0 .. n /\ 0 \in 0 .. n + 1 /\ 1 \in 0 .. n /\ 0 + 1 = 1 /\ 1 \in 1 .. n /\ 1 - 1 = 0
      OBVIOUS
    <2>2. RowSum(n + 1, 1) = 1 + choose(n + 1, 1)
      BY <1>2, <2>1
    <2>3. RowSum(n, 1) = 1 + choose(n, 1)
      BY <1>1, <2>1
    <2>4. choose(n + 1, 1) = 1 + choose(n, 1)
      BY <1>3, <1>5, <2>1
    <2> QED
      BY <1>1, <1>4, <2>1, <2>2, <2>3, <2>4
  <1>7. ASSUME NEW m \in Nat, m \in P
        PROVE  m + 1 \in P
    <2> SUFFICES ASSUME (m + 1) + 1 <= n PROVE Adds(m + 1)
      OBVIOUS
    <2> DEFINE i == m + 1
               k == i + 1
    <2>1. /\ m \in 0 .. n /\ i \in 0 .. n /\ k \in 0 .. n /\ m + 1 <= n /\ i + 1 <= n
          /\ i \in 0 .. n + 1 /\ i + 1 <= n + 1 /\ k \in 1 .. n /\ k - 1 = i
      OBVIOUS
    <2>2. RowSum(n + 1, i) = RowSum(n, i) + RowSum(n, m)
      BY <1>7, <2>1
    <2>3. RowSum(n, i) = RowSum(n, m) + choose(n, i)
      BY <1>1, <2>1
    <2> HIDE DEF i, P
    <2>4. RowSum(n + 1, k) = RowSum(n + 1, i) + choose(n + 1, k)
      BY <1>2, <2>1
    <2>5. RowSum(n, k) = RowSum(n, i) + choose(n, k)
      BY <1>1, <2>1
    <2>6. choose(n + 1, k) = choose(n, i) + choose(n, k)
      BY <1>3, <2>1
    <2>7. /\ RowSum(n, m) \in Nat /\ RowSum(n, i) \in Nat
          /\ choose(n, i) \in Nat /\ choose(n, k) \in Nat
      BY <1>1, <1>4, <2>1
    <2> HIDE DEF k
    <2>8. RowSum(n + 1, k) = RowSum(n, k) + RowSum(n, i)
      BY <2>2, <2>3, <2>4, <2>5, <2>6, <2>7
    <2> QED
      BY <2>8 DEF i, k
  <1>8. \A m \in Nat : m \in P
    <2> HIDE DEF P
    <2> QED
      BY <1>6, <1>7, SetInduction
  <1> QED
    BY <1>8

(* All of n can be chosen from in 2^n ways. *)
LEMMA RowSumBound ==
    ASSUME NEW n \in 0 .. 30, NEW m \in 0 .. n
    PROVE  RowSum(n, m) <= 2 ^ n /\ (m < n => RowSum(n, m) < 2 ^ n)
  <1> DEFINE power(e) == 2 ^ e
             Bounded(r) == \A k \in 0 .. r : /\ RowSum(r, k) <= power(r)
                                             /\ k < r => RowSum(r, k) < power(r)
             P == {r \in Nat : r <= 30 => Bounded(r)}
  <1>1. /\ \A e \in 0 .. 31 : power(e) \in Positive
        /\ power(0) = 1
        /\ \A e \in 0 .. 30 : power(e + 1) = 2 * power(e)
    BY PowersOfTwo
  <1> HIDE DEF power
  <1>2. 0 \in P
    <2>1. RowSum(0, 0) = 1
      BY RowSumIs
    <2> QED
      BY <1>1, <2>1
  <1>3. ASSUME NEW r \in Nat, r \in P
        PROVE  r + 1 \in P
    <2> SUFFICES ASSUME r + 1 <= 30, NEW k \in 0 .. r + 1
                 PROVE  /\ RowSum(r + 1, k) <= power(r + 1)
                        /\ k < r + 1 => RowSum(r + 1, k) < power(r + 1)
      OBVIOUS
    <2>1. /\ r \in 0 .. 30 /\ r \in 0 .. 31 /\ r + 1 \in Nat
      OBVIOUS
    <2>2. power(r + 1) = 2 * power(r) /\ power(r) \in Positive
      BY <1>1, <2>1
    <2>3. Bounded(r)
      BY <1>3, <2>1
    <2>4. \A i \in 0 .. r : RowSum(r, i) \in Nat
      BY RowSumIs
    <2>5. RowSum(r + 1, 0) < power(r + 1)
      <3>1. RowSum(r + 1, 0) = 1
        BY <2>1, RowSumIs
      <3> QED
        BY <2>2, <3>1 DEF Positive
    <2>6. ASSUME NEW i \in Nat, i + 1 <= r
          PROVE  RowSum(r + 1, i + 1) < power(r + 1)
      <3>1. RowSum(r + 1, i + 1) = RowSum(r, i + 1) + RowSum(r, i)
        BY <2>6, RowsAddUp
      <3>2. i \in 0 .. r /\ i + 1 \in 0 .. r /\ i < r
        BY <2>6
      <3>3. RowSum(r, i) \in Nat /\ RowSum(r, i + 1) \in Nat
        BY <2>4, <3>2
      <3>4. RowSum(r, i) < power(r) /\ RowSum(r, i + 1) <= power(r)
        BY <2>3, <3>2
      <3> QED
        BY <2>2, <3>1, <3>3, <3>4 DEF Positive
    <2>7. RowSum(r + 1, r) < power(r + 1)
      <3>1. CASE r = 0
        BY <2>5, <3>1
      <3>2. CASE r # 0
        <4>1. r - 1 \in Nat /\ (r - 1) + 1 <= r /\ (r - 1) + 1 = r
          BY <3>2
        <4> QED
          BY <2>6, <4>1
      <3> QED
        BY <3>1, <3>2
    <2>8. RowSum(r + 1, r + 1) <= power(r + 1)
      <3>1. r \in 0 .. r + 1 /\ r + 1 <= r + 1
        OBVIOUS
      <3>2. RowSum(r + 1, r + 1) = RowSum(r + 1, r) + choose(r + 1, r + 1)
        BY <2>1, <3>1, RowSumIs
      <3>3. choose(r + 1, r + 1) = 1 /\ RowSum(r + 1, r) \in Nat
        BY <2>1, <3>1, ChooseEnds, RowSumIs
      <3> QED
        BY <2>2, <2>7, <3>2, <3>3 DEF Positive
    <2>9. RowSum(r + 1, k) \in Nat /\ RowSum(r + 1, r + 1) \in Nat
      BY <2>1, RowSumIs
    <2>10. k = 0 \/ k = r + 1 \/ (k - 1 \in Nat /\ (k - 1) + 1 <= r /\ (k - 1) + 1 = k)
      OBVIOUS
    <2> HIDE DEF P, Bounded
    <2>11. CASE k = r + 1
      BY <2>8, <2>11
    <2>12. CASE k # r + 1
      <3>1. RowSum(r + 1, k) < power(r + 1)
        BY <2>5, <2>6, <2>10, <2>12
      <3> QED
        BY <2>2, <2>9, <3>1 DEF Positive
    <2> QED
      BY <2>11, <2>12
  <1>4. n \in P
    <2>1. \A r \in Nat : r \in P
      <3> HIDE DEF P
      <3> QED
        BY <1>2, <1>3, SetInduction
    <2> QED
      BY <2>1
  <1>5. Bounded(n)
    BY <1>4
  <1>6. RowSum(n, m) <= power(n) /\ (m < n => RowSum(n, m) < power(n))
    BY <1>5
  <1> QED
    BY <1>6 DEF power
=============================================================================
