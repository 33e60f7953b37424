----------------------- MODULE PasswordStrengthProofs -----------------------
(* What holds of the strength of a password that is shown, for any alphabets, any
   texts that are typed or pasted, and of any length. *)
EXTENDS PasswordStrength, MinimumEntropyProofs

-----------------------------------------------------------------------------
(* Logarithms: what they are of has to be a positive number.  LgType bounds them from
   above as well, by the powers of two. *)

LEMMA WholeType ==
    ASSUME NEW n \in Positive
    PROVE  /\ Whole(n) \in 0 .. 30
           /\ 2 ^ Whole(n) <= n
           /\ n >= 1024 => Whole(n) >= 10
  <1> DEFINE power(e) == 2 ^ e
             below == {e \in 0 .. 30 : power(e) <= n}
             isWhole(e) == power(e) <= n /\ (e = 30 \/ n < power(e + 1))
  <1>1. /\ \A e \in 0 .. 31 : power(e) \in Positive
        /\ power(0) = 1
    BY PowersOfTwo
  <1>2. ASSUME NEW e \in 0 .. 9
        PROVE  power(e + 1) <= 1024
    <2>1. e + 1 \in 0 .. 31 /\ 10 \in 0 .. 31 /\ e + 1 <= 10
      BY <1>2
    <2>2. 2 ^ (e + 1) <= 2 ^ 10
      BY <2>1, PowersGrow, Zenon
    <2>3. 2 ^ 10 = 1024
      OBVIOUS
    <2> QED
      BY <2>2, <2>3, Zenon
  <1>3. Whole(n) = CHOOSE e \in 0 .. 30 : isWhole(e)
    BY DEF Whole
  <1> HIDE DEF power
  <1>4. 0 \in below
    BY <1>1 DEF Positive
  <1>5. PICK e \in below : \A d \in below : d <= e
    BY <1>4, GreatestElement
  <1>6. isWhole(e)
    <2>1. e = 30 \/ (e + 1 \in 0 .. 30 /\ e + 1 \notin below)
      BY <1>5
    <2>2. e \in 0 .. 30 /\ power(e + 1) \in Nat
      BY <1>1, <1>5 DEF Positive
    <2> QED
      BY <1>5, <2>1, <2>2 DEF Positive
  <1>7. Whole(n) \in 0 .. 30 /\ isWhole(Whole(n))
    <2> DEFINE w == CHOOSE d \in 0 .. 30 : isWhole(d)
    <2>1. w \in 0 .. 30 /\ isWhole(w)
      <3> HIDE DEF isWhole
      <3> QED
        BY <1>5, <1>6
    <2> QED
      BY <2>1, <1>3
  <1>8. ASSUME n >= 1024, Whole(n) < 10
        PROVE  FALSE
    <2>1. Whole(n) \in 0 .. 9 /\ Whole(n) + 1 \in 0 .. 31
      BY <1>7, <1>8
    <2>2. n < power(Whole(n) + 1)
      BY <1>7, <1>8
    <2>3. power(Whole(n) + 1) <= 1024 /\ power(Whole(n) + 1) \in Positive
      BY <2>1, <1>1, <1>2
    <2> QED
      BY <1>8, <2>2, <2>3 DEF Positive
  <1>9. 2 ^ Whole(n) <= n
    BY <1>7 DEF power
  <1>10. n >= 1024 => Whole(n) >= 10
    BY <1>7, <1>8 DEF Positive
  <1> QED
    BY <1>7, <1>9, <1>10

LEMMA MantissaType ==
    ASSUME NEW n \in Positive
    PROVE  Mantissa(n) \in Nat
  <1> DEFINE w == Whole(n)
  <1>1. w \in 0 .. 30
    BY WholeType
  <1> HIDE DEF w
  <1>2. CASE w > 14
    <2>1. w - 14 \in 0 .. 31
      BY <1>1, <1>2
    <2>2. 2 ^ (w - 14) \in Positive
      BY <2>1, PowersOfTwo, Zenon
    <2>3. n \div 2 ^ (w - 14) \in Nat
      BY <2>2, Quotients DEF Positive
    <2> QED
      BY <1>2, <2>3 DEF Mantissa, w
  <1>3. CASE ~ (w > 14)
    <2>1. 14 - w \in 0 .. 31
      BY <1>1, <1>3
    <2>2. 2 ^ (14 - w) \in Positive
      BY <2>1, PowersOfTwo, Zenon
    <2>3. n * 2 ^ (14 - w) \in Nat
      BY <2>2, Products DEF Positive
    <2> QED
      BY <1>3, <2>3 DEF Mantissa, w
  <1> QED
    BY <1>2, <1>3

LEMMA SquaredType ==
    ASSUME NEW binary \in Nat \X Nat
    PROVE  /\ Squared(binary) \in Nat \X Nat
           /\ Squared(binary)[2] <= 2 * binary[2] + 1
  <1> DEFINE square == (binary[1] * binary[1]) \div 2 ^ 14
  <1>1. binary[1] * binary[1] \in Nat /\ 2 ^ 14 \in Positive
    BY Products DEF Positive
  <1>2. square \in Nat /\ square \div 2 \in Nat
    BY <1>1, Quotients DEF Positive
  <1> HIDE DEF square
  <1>3. Squared(binary) = IF square >= 2 ^ 15 THEN <<square \div 2, 2 * binary[2] + 1>>
                          ELSE <<square, 2 * binary[2]>>
    BY DEF Squared, square
  <1> QED
    BY <1>2, <1>3

(* The logarithm of a number is a number, from 2^10 on it is 10 bits at least, and
   below a power of two it is less than the exponent. *)
LEMMA LgType ==
    ASSUME NEW n \in Positive
    PROVE  /\ Lg(n) \in Nat
           /\ n >= 1024 => Lg(n) >= 10 * Bit
           /\ \A k \in 1 .. 30 : n < 2 ^ k => Lg(n) < Bit * k
  <1> DEFINE Solves(h) == h = [places \in 0 .. 10 |->
                              IF places = 0 THEN <<Mantissa(n), 0>> ELSE Squared(h[places - 1])]
             binary == CHOOSE h : Solves(h)
             first == <<Mantissa(n), 0>>
             step == [x \in Nat \X (Nat \X Nat) |-> Squared(x[2])]
  <1>1. first \in Nat \X Nat
    BY MantissaType
  <1>2. step \in [Nat \X (Nat \X Nat) -> Nat \X Nat]
    BY SquaredType
  <1>3. \E h : Solves(h)
    <2> DEFINE V == Nat \X Nat
    <2>1. first \in V /\ step \in [Nat \X V -> V]
      BY <1>1, <1>2
    <2>2. \A p \in 1 .. 10 : \A x \in V : step[<<p, x>>] = Squared(x)
      OBVIOUS
    <2> HIDE DEF step, first, V
    <2>3. PICK h : Recurses(h, 0 .. 10, V, first, step)
      BY <2>1, RecursionUpTo
    <2>4. ASSUME NEW p \in 0 .. 10
          PROVE  h[p] = IF p = 0 THEN <<Mantissa(n), 0>> ELSE Squared(h[p - 1])
      <3>1. p # 0 => p - 1 \in 0 .. 10 /\ p \in 1 .. 10
        OBVIOUS
      <3> QED
        BY <2>2, <2>3, <3>1 DEF Recurses, first
    <2>5. h = [p \in 0 .. 10 |-> h[p]]
      BY <2>3 DEF Recurses
    <2>6. h = [p \in 0 .. 10 |-> IF p = 0 THEN <<Mantissa(n), 0>> ELSE Squared(h[p - 1])]
      BY <2>4, <2>5
    <2> QED
      BY <2>6
  <1>4. Solves(binary)
    <2> HIDE DEF Solves
    <2> QED
      BY <1>3
  <1>5. Lg(n) = Bit * Whole(n) + binary[10][2]
    BY DEF Lg
  <1> HIDE DEF binary
  <1>6. binary[10] \in Nat \X Nat /\ binary[10][2] < 1024
    <2> DEFINE power(m) == 2 ^ m
               IsBinary(m) == binary[m] \in Nat \X Nat /\ binary[m][2] < power(m)
               P == {m \in Nat : m <= 10 => IsBinary(m)}
    <2>1. /\ \A m \in 0 .. 10 : power(m) \in Nat /\ power(m + 1) = 2 * power(m)
          /\ power(0) = 1 /\ power(10) = 1024
      BY PowersOfTwo DEF Positive
    <2> HIDE DEF power
    <2>2. 0 \in P
      BY <1>1, <1>4, <2>1
    <2>3. ASSUME NEW m \in Nat, m \in P PROVE m + 1 \in P
      <3> SUFFICES ASSUME m + 1 <= 10 PROVE IsBinary(m + 1)
        OBVIOUS
      <3>1. m + 1 \in 0 .. 10 /\ m + 1 # 0 /\ (m + 1) - 1 = m /\ m \in 0 .. 10
        OBVIOUS
      <3>2. binary[m + 1] = Squared(binary[m])
        BY <1>4, <3>1
      <3>3. binary[m] \in Nat \X Nat /\ binary[m][2] < power(m)
        BY <2>3
      <3>4. /\ binary[m + 1] \in Nat \X Nat
            /\ binary[m + 1][2] <= 2 * binary[m][2] + 1
        BY <3>2, <3>3, SquaredType
      <3> QED
        BY <2>1, <3>1, <3>3, <3>4
    <2> HIDE DEF P
    <2>4. \A m \in Nat : m \in P
      BY <2>2, <2>3, SetInduction
    <2> QED
      BY <2>1, <2>4 DEF P
  <1>7. binary[10][2] \in Nat /\ binary[10][2] < Bit
    BY <1>6 DEF Bit
  <1>8. Whole(n) \in 0 .. 30 /\ 2 ^ Whole(n) <= n /\ (n >= 1024 => Whole(n) >= 10)
    BY WholeType
  <1>9. ASSUME NEW k \in 1 .. 30, n < 2 ^ k
        PROVE  Lg(n) < Bit * k
    <2> DEFINE w == Whole(n)
    <2>1. w + 1 <= k
      <3> SUFFICES ASSUME k <= w PROVE FALSE
        BY <1>8
      <3>1. k \in 0 .. 31 /\ w \in 0 .. 31
        BY <1>8
      <3>2. 2 ^ k <= 2 ^ w
        BY <3>1, PowersGrow, Zenon
      <3> DEFINE x == 2 ^ k
                 y == 2 ^ w
      <3>3. x \in Positive /\ y \in Positive
        BY <3>1, PowersOfTwo, Zenon
      <3>4. n < x /\ x <= y /\ y <= n
        BY <1>8, <1>9, <3>2
      <3> HIDE DEF x, y
      <3> QED
        BY <3>3, <3>4 DEF Positive
    <2> HIDE DEF w
    <2> QED
      BY <1>5, <1>7, <1>8, <2>1 DEF Bit, w
  <1>10. Lg(n) \in Nat /\ (n >= 1024 => Lg(n) >= 10 * Bit)
    BY <1>5, <1>7, <1>8 DEF Bit
  <1> QED
    BY <1>9, <1>10

-----------------------------------------------------------------------------
(* Numbers of ways to choose. *)

LEMMA WaysType ==
    ASSUME NEW a \in Nat, NEW b \in Nat
    PROVE  Ways(a, b) \in Positive
  <1> DEFINE chosen == 0 .. Min({a, b})
             f == [k \in chosen |-> choose(a + b, k)]
  <1>1. Min({a, b}) \in {a, b}
    BY MinOfNumbers
  <1>2. Min({a, b}) \in Nat /\ Min({a, b}) <= a + b
    BY <1>1
  <1>3. IsFiniteSet(chosen) /\ 0 \in chosen
    BY <1>2, FS_Interval
  <1>4. \A k \in chosen : f[k] \in Positive
    BY <1>2, ChooseType
  <1>5. Ways(a, b) = SumFunctionOnSet(f, chosen)
    BY DEF Ways
  <1> HIDE DEF f, chosen
  <1>6. \A k \in chosen : f[k] \in Nat
    BY <1>4 DEF Positive
  <1>7. SumFunctionOnSet(f, chosen) \in Nat
    BY <1>3, <1>6, SumType
  <1>8. f[0] <= SumFunctionOnSet(f, chosen)
    BY <1>3, <1>6, SumIsAtLeast
  <1> QED
    BY <1>3, <1>4, <1>5, <1>7, <1>8 DEF Positive

(* Of n characters, up to 30, there are less than 2 ^ n choices: a bit for each is
   enough to say which one it is. *)
LEMMA WaysBound ==
    ASSUME NEW a \in Nat, NEW b \in Nat, a + b \in 1 .. 30
    PROVE  Ways(a, b) < 2 ^ (a + b)
  <1> DEFINE m == Min({a, b})
             n == a + b
  <1>1. m \in {a, b} /\ m <= a /\ m <= b
    BY MinOfNumbers
  <1> HIDE DEF m
  <1>2. m \in 0 .. n /\ m < n /\ n \in 0 .. 30
    BY <1>1
  <1>3. Ways(a, b) = RowSum(n, m)
    BY DEF Ways, RowSum, m
  <1> HIDE DEF n
  <1>4. RowSum(n, m) < 2 ^ n
    BY <1>2, RowSumBound
  <1>5. Ways(a, b) < 2 ^ n
    BY <1>3, <1>4
  <1> QED
    BY <1>5 DEF n

-----------------------------------------------------------------------------
(* Numbers of characters. *)

LEMMA CountType ==
    ASSUME NEW C, NEW t \in Seq(C), NEW S, S \subseteq DOMAIN t
    PROVE  Cardinality(S) \in 0 .. Len(t)
  <1>1. Len(t) \in Nat /\ DOMAIN t = 1 .. Len(t)
    BY LenProperties
  <1>2. IsFiniteSet(1 .. Len(t)) /\ Cardinality(1 .. Len(t)) = Len(t)
    <2> DEFINE n == Len(t)
    <2>1. n \in Nat
      BY <1>1
    <2> HIDE DEF n
    <2>2. IsFiniteSet(1 .. n) /\ Cardinality(1 .. n) = n
      BY <2>1, FS_Interval
    <2> QED
      BY <2>2 DEF n
  <1>3. Cardinality(S) <= Len(t) /\ IsFiniteSet(S)
    BY <1>1, <1>2, FS_Subset
  <1> QED
    BY <1>1, <1>3, FS_CardinalityType

LEMMA RangeOf ==
    ASSUME NEW C, NEW t \in Seq(C)
    PROVE  /\ Range(t) \subseteq C
           /\ IsFiniteSet(Range(t))
           /\ t # <<>> => Range(t) # {}
  <1>1. Len(t) \in Nat /\ DOMAIN t = 1 .. Len(t) /\ \A p \in 1 .. Len(t) : t[p] \in C
    BY LenProperties, ElementOfSeq
  <1>2. Range(t) = {t[p] : p \in DOMAIN t}
    BY DEF Range
  <1>3. IsFiniteSet({t[p] : p \in DOMAIN t})
    <2> DEFINE n == Len(t)
    <2>1. n \in Nat /\ DOMAIN t = 1 .. n
      BY <1>1
    <2> HIDE DEF n
    <2>2. IsFiniteSet(1 .. n)
      BY <2>1, FS_Interval
    <2>3. t \in [1 .. n -> C]
      BY <2>1, LenProperties
    <2> DEFINE T == {t[p] : p \in 1 .. n}
    <2>4. t \in Surjection(1 .. n, T)
      BY <2>3 DEF Surjection
    <2>5. IsFiniteSet(T)
      <3> HIDE DEF T
      <3> QED
        BY <2>2, <2>4, FS_Surjection DEF ExistsSurjection
    <2> QED
      BY <2>1, <2>5
  <1>4. t # <<>> => 1 \in 1 .. Len(t)
    BY <1>1, EmptySeq
  <1> QED
    BY <1>1, <1>2, <1>3, <1>4

LEMMA CardinalityOfType ==
    ASSUME NEW C, NEW t \in Seq(C), t # <<>>
    PROVE  CardinalityOf(t) \in Positive
  <1>1. PICK c : c \in Range(t)
    BY RangeOf
  <1> DEFINE digit == \E d \in Range(t) : IsDigit(d)
             upper == \E d \in Range(t) : IsUpper(d)
             lower == \E d \in Range(t) : IsLower(d)
             symbol == \E d \in Range(t) : d \in Symbols
             other == \E d \in Range(t) :
                          ~ (IsDigit(d) \/ IsUpper(d) \/ IsLower(d) \/ d \in Symbols)
  <1>2. digit \/ upper \/ lower \/ symbol \/ other
    BY <1>1
  <1>3. CardinalityOf(t) = (IF digit THEN 10 ELSE 0) + (IF upper THEN 26 ELSE 0)
                           + (IF lower THEN 26 ELSE 0) + (IF symbol THEN 33 ELSE 0)
                           + (IF other THEN 100 ELSE 0)
    BY DEF CardinalityOf
  <1> HIDE DEF digit, upper, lower, symbol, other
  <1> DEFINE a == IF digit THEN 10 ELSE 0
             b == IF upper THEN 26 ELSE 0
             d == IF lower THEN 26 ELSE 0
             e == IF symbol THEN 33 ELSE 0
             g == IF other THEN 100 ELSE 0
  <1>4. /\ a \in Nat /\ b \in Nat /\ d \in Nat /\ e \in Nat /\ g \in Nat
        /\ a >= 1 \/ b >= 1 \/ d >= 1 \/ e >= 1 \/ g >= 1
    BY <1>2
  <1>5. CardinalityOf(t) = a + b + d + e + g
    BY <1>3, Zenon
  <1> HIDE DEF a, b, d, e, g
  <1> QED
    BY <1>4, <1>5 DEF Positive

LEMMA BruteForceBitsType ==
    ASSUME NEW C, NEW t \in Seq(C)
    PROVE  BruteForceBits(t) \in Nat
  BY CardinalityOfType, LgType DEF BruteForceBits

-----------------------------------------------------------------------------
(* Spans of a text. *)

LEMMA SpanType ==
    ASSUME NEW C, NEW t \in Seq(C), NEW s \in Spans(t)
    PROVE  /\ Len(t) \in Nat
           /\ s[1] \in Nat /\ s[2] \in Nat /\ s[1] <= s[2] /\ s[2] < Len(t)
           /\ s = <<s[1], s[2]>>
  BY LenProperties DEF Spans, Positions

LEMMA SliceType ==
    ASSUME NEW C, NEW t \in Seq(C), NEW i \in Nat, NEW j \in Nat, i <= j, j < Len(t)
    PROVE  /\ Slice(t, i, j) \in Seq(C)
           /\ Len(Slice(t, i, j)) = j - i + 1
           /\ Slice(t, i, j) # <<>>
  <1> DEFINE m == i + 1
             n == j + 1
  <1>1. m \in Nat /\ n \in Nat /\ 1 <= m /\ m <= n /\ n <= Len(t) /\ Len(t) \in Nat
    BY LenProperties
  <1>2. Slice(t, i, j) = SubSeq(t, m, n)
    BY DEF Slice
  <1>3. \A p \in m .. n : t[p] \in C
    BY <1>1, ElementOfSeq
  <1> HIDE DEF m, n
  <1>4. SubSeq(t, m, n) \in Seq(C) /\ Len(SubSeq(t, m, n)) = n - m + 1
    BY <1>1, <1>3, SubSeqProperties
  <1>5. n - m + 1 = j - i + 1 /\ j - i + 1 >= 1
    BY DEF m, n
  <1> QED
    BY <1>2, <1>4, <1>5, EmptySeq

(* Candidates for a regular expression, and what findall takes of them. *)
AreSpans(candidates, t) ==
    \A m \in candidates : m.i \in Nat /\ m.j \in Nat /\ m.i <= m.j /\ m.j < Len(t)

LEMMA LeftmostAreCandidates ==
    ASSUME NEW C, NEW t \in Seq(C), NEW candidates, AreSpans(candidates, t)
    PROVE  Leftmost(candidates, t) \subseteq candidates
  <1> DEFINE N == Len(t)
             here(p) == {m \in candidates : m.i = p}
             longest(p) == CHOOSE m \in here(p) : \A other \in here(p) : other.j <= m.j
             Solves(h) == h = [p \in 0 .. N |->
                                  IF p = N THEN {}
                                  ELSE IF here(p) = {} THEN h[p + 1]
                                  ELSE {longest(p)} \cup h[longest(p).j + 1]]
             next == [p \in 0 .. N |-> IF here(p) = {} THEN p + 1 ELSE longest(p).j + 1]
             found == [p \in 0 .. N |-> IF here(p) = {} THEN {} ELSE {longest(p)}]
             from == CHOOSE h : Solves(h)
  <1>1. N \in Nat
    BY LenProperties
  <1>2. Leftmost(candidates, t) = from[0]
    BY DEF Leftmost
  <1>3. ASSUME NEW p \in 0 .. N, here(p) # {}
        PROVE  longest(p) \in here(p)
    <2> DEFINE ends == {m.j : m \in here(p)}
    <2>1. ends \subseteq Nat /\ ends # {} /\ \A e \in ends : e <= N
      BY <1>1, <1>3 DEF AreSpans
    <2>2. PICK e \in ends : \A d \in ends : d <= e
      <3> HIDE DEF ends
      <3> QED
        BY <1>1, <2>1, GreatestElement
    <2>3. PICK m \in here(p) : m.j = e
      BY <2>2
    <2>4. \A other \in here(p) : other.j <= m.j
      BY <2>2, <2>3
    <2> QED
      BY <2>4
  <1>4. \A p \in 0 .. N : p \notin {N} => next[p] \in p + 1 .. N
    <2> SUFFICES ASSUME NEW p \in 0 .. N, p # N PROVE next[p] \in p + 1 .. N
      OBVIOUS
    <2>1. CASE here(p) = {}
      BY <1>1, <2>1
    <2>2. CASE here(p) # {}
      <3>1. longest(p) \in here(p)
        BY <1>3, <2>2
      <3>2. next[p] = longest(p).j + 1
        BY <2>2
      <3> HIDE DEF longest, next
      <3>3. longest(p).j \in Nat /\ p <= longest(p).j /\ longest(p).j < N
        BY <1>1, <3>1 DEF AreSpans
      <3> QED
        BY <1>1, <3>2, <3>3
    <2> QED
      BY <2>1, <2>2
  <1>5. \A p \in 0 .. N : found[p] \subseteq candidates
    BY <1>3
  <1>6. \A h : Solves(h) <=> Collects(h, N, {N}, next, found)
    <2> SUFFICES ASSUME NEW h PROVE Solves(h) <=> Collects(h, N, {N}, next, found)
      OBVIOUS
    <2> DEFINE one(p) == IF p = N THEN {}
                         ELSE IF here(p) = {} THEN h[p + 1]
                         ELSE {longest(p)} \cup h[longest(p).j + 1]
               two(p) == IF p \in {N} THEN {} ELSE h[next[p]] \cup found[p]
    <2>1. \A p \in 0 .. N : one(p) = two(p)
      <3> SUFFICES ASSUME NEW p \in 0 .. N PROVE one(p) = two(p)
        OBVIOUS
      <3>1. next[p] = IF here(p) = {} THEN p + 1 ELSE longest(p).j + 1
        OBVIOUS
      <3>2. found[p] = IF here(p) = {} THEN {} ELSE {longest(p)}
        OBVIOUS
      <3> HIDE DEF here, longest, next, found
      <3> QED
        BY <3>1, <3>2
    <2>2. Solves(h) <=> h = [p \in 0 .. N |-> one(p)]
      OBVIOUS
    <2>3. Collects(h, N, {N}, next, found) <=> h = [p \in 0 .. N |-> two(p)]
      BY DEF Collects
    <2> HIDE DEF one, two, Solves
    <2> QED
      BY <2>1, <2>2, <2>3
  <1> HIDE DEF next, found, Solves, here, longest, N
  <1>7. \E h : Solves(h)
    BY <1>1, <1>4, <1>6, CollectingHasSolution
  <1>8. Collects(from, N, {N}, next, found)
    BY <1>6, <1>7
  <1>9. \A p \in 0 .. N : from[p] \subseteq candidates
    <2> HIDE DEF from
    <2> QED
      BY <1>1, <1>4, <1>5, <1>8, CollectedIsFound
  <1> QED
    BY <1>1, <1>2, <1>9

-----------------------------------------------------------------------------
(* What each of the matchers finds are matches, whose entropy is a number. *)

LEMMA IsMatch ==
    ASSUME NEW p \in Patterns, NEW i \in Nat, NEW j \in Nat, i <= j, NEW e \in Nat
    PROVE  [pattern |-> p, i |-> i, j |-> j, entropy |-> e] \in Matches
  BY DEF Matches

LEMMA LgOf ==
    /\ \A n \in Nat : n >= 1 => Lg(n) \in Nat
    /\ Bit \in Nat
  BY LgType DEF Positive, Bit

LEMMA DigitSpansAreSpans ==
    ASSUME NEW C, NEW t \in Seq(C), NEW lengths
    PROVE  AreSpans(DigitSpans(t, lengths), t)
  <1> DEFINE candidates == {Span(s[1], s[2]) : s \in {u \in Spans(t) :
                               u[2] - u[1] + 1 \in lengths /\ AreDigits(t, u[1], u[2])}}
  <1>1. AreSpans(candidates, t)
    BY SpanType DEF AreSpans, Span
  <1>2. DigitSpans(t, lengths) = Leftmost(candidates, t)
    BY DEF DigitSpans
  <1> HIDE DEF candidates
  <1>3. DigitSpans(t, lengths) \subseteq candidates
    BY <1>1, <1>2, LeftmostAreCandidates
  <1> QED
    BY <1>1, <1>3 DEF AreSpans

LEMMA DigitMatchesType ==
    ASSUME NEW C, NEW t \in Seq(C)
    PROVE  DigitMatches(t) \subseteq Matches
  <1> SUFFICES ASSUME NEW s \in DigitSpans(t, 3 .. Len(t))
               PROVE  [pattern |-> "digits", i |-> s.i, j |-> s.j,
                       entropy |-> (s.j - s.i + 1) * Lg(10)] \in Matches
    BY DEF DigitMatches
  <1>1. s.i \in Nat /\ s.j \in Nat /\ s.i <= s.j
    BY DigitSpansAreSpans DEF AreSpans
  <1>2. s.j - s.i + 1 \in Nat /\ Lg(10) \in Nat
    BY <1>1, LgOf
  <1>3. (s.j - s.i + 1) * Lg(10) \in Nat
    BY <1>2, Products
  <1> QED
    BY <1>1, <1>3, IsMatch DEF Patterns

LEMMA YearMatchesType ==
    ASSUME NEW C, NEW t \in Seq(C)
    PROVE  YearMatches(t) \subseteq Matches
  <1>1. AreSpans(YearSpans(t), t)
    BY SpanType DEF AreSpans, YearSpans, Span
  <1> SUFFICES ASSUME NEW s \in Leftmost(YearSpans(t), t)
               PROVE  [pattern |-> "year", i |-> s.i, j |-> s.j, entropy |-> Lg(119)] \in Matches
    BY DEF YearMatches
  <1>2. s.i \in Nat /\ s.j \in Nat /\ s.i <= s.j
    BY <1>1, LeftmostAreCandidates DEF AreSpans
  <1> QED
    BY <1>2, LgOf, IsMatch DEF Patterns

LEMMA SeparatedAreSpans ==
    ASSUME NEW C, NEW t \in Seq(C), NEW i \in Positions(t),
           NEW a \in Nat, NEW b \in Nat, NEW c \in Nat
    PROVE  AreSpans(Separated(t, i, <<a, b, c>>), t)
  <1> DEFINE w == <<a, b, c>>
             ends == <<i + w[1], i + w[1] + 1 + w[2]>>
             j == ends[2] + w[3]
  <1>1. i \in Nat /\ Len(t) \in Nat
    BY LenProperties DEF Positions
  <1>2. j \in Nat /\ i <= j
    BY <1>1
  <1>3. \A m \in Separated(t, i, w) : m.i = i /\ m.j = j /\ j < Len(t)
    BY DEF Separated
  <1> QED
    BY <1>1, <1>2, <1>3 DEF AreSpans

LEMMA DatesAreSpans ==
    ASSUME NEW C, NEW t \in Seq(C)
    PROVE  AreSpans(DayFirst(t), t) /\ AreSpans(YearFirst(t), t)
  <1> DEFINE numbers == 1 .. 2
             IsSpan(m) == m.i \in Nat /\ m.j \in Nat /\ m.i <= m.j /\ m.j < Len(t)
  <1>1. ASSUME NEW m \in DayFirst(t)
        PROVE  IsSpan(m)
    <2>1. PICK i \in Positions(t), day \in numbers, month \in numbers :
              m \in Separated(t, i, <<day, month, 2>>) \/ m \in Separated(t, i, <<day, month, 4>>)
      BY DEF DayFirst
    <2>2. day \in Nat /\ month \in Nat
      OBVIOUS
    <2>3. AreSpans(Separated(t, i, <<day, month, 2>>), t) /\ AreSpans(Separated(t, i, <<day, month, 4>>), t)
      BY <2>2, SeparatedAreSpans
    <2> QED
      BY <2>1, <2>3 DEF AreSpans
  <1>2. ASSUME NEW m \in YearFirst(t)
        PROVE  IsSpan(m)
    <2>1. PICK i \in Positions(t), day \in numbers, month \in numbers :
              m \in Separated(t, i, <<2, month, day>>) \/ m \in Separated(t, i, <<4, month, day>>)
      BY DEF YearFirst
    <2>2. day \in Nat /\ month \in Nat
      OBVIOUS
    <2>3. AreSpans(Separated(t, i, <<2, month, day>>), t) /\ AreSpans(Separated(t, i, <<4, month, day>>), t)
      BY <2>2, SeparatedAreSpans
    <2> QED
      BY <2>1, <2>3 DEF AreSpans
  <1> QED
    BY <1>1, <1>2 DEF AreSpans

LEMMA DateMatchesType ==
    ASSUME NEW C, NEW t \in Seq(C)
    PROVE  DateMatches(t) \subseteq Matches
  <1> DEFINE match(s, e) == [pattern |-> "date", i |-> s.i, j |-> s.j, entropy |-> e]
  <1>1. DateEntropy \in Nat /\ DateEntropy + 2 * Bit \in Nat
    BY LgOf DEF DateEntropy
  <1>2. \A s \in DateSpans(t) : s.i \in Nat /\ s.j \in Nat /\ s.i <= s.j
    BY DigitSpansAreSpans DEF DateSpans, AreSpans
  <1>3. \A s \in SeparatedDates(t) : s.i \in Nat /\ s.j \in Nat /\ s.i <= s.j
    <2> SUFFICES ASSUME NEW s \in SeparatedDates(t)
                 PROVE  s.i \in Nat /\ s.j \in Nat /\ s.i <= s.j
      OBVIOUS
    <2>1. s \in Leftmost(DayFirst(t), t) \/ s \in Leftmost(YearFirst(t), t)
      BY DEF SeparatedDates
    <2>2. s \in DayFirst(t) \/ s \in YearFirst(t)
      BY <2>1, DatesAreSpans, LeftmostAreCandidates
    <2> QED
      BY <2>2, DatesAreSpans DEF AreSpans
  <1>4. ASSUME NEW m \in DateMatches(t)
        PROVE  m \in Matches
    <2>1. \/ \E s \in DateSpans(t) : m = match(s, DateEntropy)
          \/ \E s \in SeparatedDates(t) : m = match(s, DateEntropy + 2 * Bit)
      BY DEF DateMatches
    <2>2. CASE \E s \in DateSpans(t) : m = match(s, DateEntropy)
      BY <1>1, <1>2, <2>2, IsMatch DEF Patterns
    <2>3. CASE \E s \in SeparatedDates(t) : m = match(s, DateEntropy + 2 * Bit)
      BY <1>1, <1>3, <2>3, IsMatch DEF Patterns
    <2> QED
      BY <2>1, <2>2, <2>3
  <1> QED
    BY <1>4

LEMMA RepeatMatchesType ==
    ASSUME NEW C, NEW t \in Seq(C)
    PROVE  RepeatMatches(t) \subseteq Matches
  <1> DEFINE e(s) == Lg(CardinalityOf(Slice(t, s[1], s[2])) * (s[2] - s[1] + 1))
  <1> SUFFICES ASSUME NEW s \in Spans(t)
               PROVE  [pattern |-> "repeat", i |-> s[1], j |-> s[2], entropy |-> e(s)] \in Matches
    BY DEF RepeatMatches, MaximalRuns
  <1>1. s[1] \in Nat /\ s[2] \in Nat /\ s[1] <= s[2] /\ s[2] < Len(t)
    BY SpanType
  <1>2. CardinalityOf(Slice(t, s[1], s[2])) \in Positive
    BY <1>1, SliceType, CardinalityOfType
  <1>3. s[2] - s[1] + 1 \in Positive
    BY <1>1 DEF Positive
  <1>4. \A a, b \in Positive : a * b \in Positive
    BY DEF Positive
  <1>5. e(s) \in Nat
    BY <1>2, <1>3, <1>4, LgType
  <1> HIDE DEF e
  <1> QED
    BY <1>1, <1>5, IsMatch DEF Patterns

(* Where the sequences go on. *)
SpaceAt(t, f) == CHOOSE s \in Begun(t, f) : TRUE

EndAt(t, f) == SequenceEnd(t, SpaceAt(t, f), f)

SequenceAt(t, f) ==
    IF EndAt(t, f) - f > 2
    THEN {[pattern |-> "sequence", i |-> f, j |-> EndAt(t, f) - 1,
           entropy |-> SequenceEntropy(Slice(t, f, Min({EndAt(t, f), Len(t)}) - 1),
                                       StepFrom(t, SpaceAt(t, f), f))]}
    ELSE {}

BehindText(t) == Len(t) .. Len(t) + 1

SequenceNext(t) ==
    [f \in 0 .. Len(t) + 1 |-> IF Begun(t, f) = {} THEN f + 1 ELSE EndAt(t, f)]

SequenceFound(t) ==
    [f \in 0 .. Len(t) + 1 |-> IF Begun(t, f) = {} THEN {} ELSE SequenceAt(t, f)]

LEMMA IndexType ==
    ASSUME NEW C, NEW t \in Seq(C), NEW space \in Spaces, NEW p
    PROVE  /\ Index(t, space, p) \in Int /\ Index(t, space, p) >= -1
           /\ Index(t, space, p) > -1 => p < Len(t) /\ At(t, p) \in DOMAIN space
  <1>1. \A c \in DOMAIN space : space[c] \in Nat
    BY SpacesAreDisjoint
  <1>2. CASE p < Len(t) /\ At(t, p) \in DOMAIN space
    BY <1>1, <1>2 DEF Index
  <1>3. CASE ~ (p < Len(t) /\ At(t, p) \in DOMAIN space)
    <2>1. Index(t, space, p) = -1
      BY <1>3, Zenon DEF Index
    <2> QED
      BY <2>1
  <1> QED
    BY <1>2, <1>3

LEMMA SequenceEndIs ==
    ASSUME NEW C, NEW t \in Seq(C), NEW f \in Nat, f < Len(t), NEW space \in Begun(t, f)
    PROVE  /\ SequenceEnd(t, space, f) \in f + 2 .. Len(t) + 1
           /\ \A p \in f + 1 .. SequenceEnd(t, space, f) - 2 :
                  StepFrom(t, space, p) = StepFrom(t, space, f)
           /\ StepFrom(t, space, SequenceEnd(t, space, f) - 1) # StepFrom(t, space, f)
  <1> DEFINE n == Len(t)
             GoesOn(p) == StepFrom(t, space, p) = StepFrom(t, space, f)
             stops == {g \in f + 2 .. n + 1 : ~ GoesOn(g - 1)}
             IsEnd(g) == (\A p \in f + 1 .. g - 2 : GoesOn(p)) /\ ~ GoesOn(g - 1)
  <1>1. n \in Nat /\ space \in Spaces /\ StepFrom(t, space, f) \in {1, -1}
    BY LenProperties DEF Begun, Steps
  <1>2. ~ GoesOn(n)
    <2>1. Index(t, space, n) = -1 /\ Index(t, space, n + 1) = -1
      BY <1>1 DEF Index
    <2>2. StepFrom(t, space, n) = 0
      BY <2>1 DEF StepFrom
    <2> QED
      BY <1>1, <2>2
  <1>3. n + 1 \in stops /\ stops \subseteq Nat
    <2>1. n + 1 \in f + 2 .. n + 1 /\ (n + 1) - 1 = n
      BY <1>1
    <2> HIDE DEF GoesOn
    <2> QED
      BY <1>2, <2>1
  <1>4. PICK g \in stops : \A other \in stops : g <= other
    <2> HIDE DEF stops
    <2> QED
      BY <1>3, LeastElement
  <1>5. IsEnd(g)
    <2>1. ASSUME NEW p \in f + 1 .. g - 2
          PROVE  GoesOn(p)
      <3>1. p + 1 \in f + 2 .. n + 1 /\ (p + 1) - 1 = p /\ ~ (g <= p + 1)
        BY <1>1, <1>4
      <3>2. p + 1 \notin stops
        BY <1>4, <3>1
      <3> HIDE DEF GoesOn
      <3> QED
        BY <3>1, <3>2
    <2>2. ~ GoesOn(g - 1)
      BY <1>4
    <2> QED
      BY <2>1, <2>2
  <1>6. SequenceEnd(t, space, f) = CHOOSE e \in f + 2 .. n + 1 : IsEnd(e)
    BY DEF SequenceEnd
  <1>7. g \in f + 2 .. n + 1
    BY <1>4
  <1>8. SequenceEnd(t, space, f) \in f + 2 .. n + 1 /\ IsEnd(SequenceEnd(t, space, f))
    <2> HIDE DEF IsEnd, stops, n
    <2> QED
      BY <1>5, <1>6, <1>7
  <1> QED
    BY <1>8

LEMMA EndAtIs ==
    ASSUME NEW C, NEW t \in Seq(C), NEW f \in Nat, f < Len(t), Begun(t, f) # {}
    PROVE  SpaceAt(t, f) \in Begun(t, f) /\ EndAt(t, f) \in f + 2 .. Len(t) + 1
  <1>1. SpaceAt(t, f) \in Begun(t, f)
    BY DEF SpaceAt
  <1> QED
    BY <1>1, SequenceEndIs DEF EndAt

LEMMA SequenceNextIs ==
    ASSUME NEW C, NEW t \in Seq(C), NEW f \in 0 .. Len(t) + 1, f \notin BehindText(t)
    PROVE  /\ f \in Nat /\ f < Len(t)
           /\ SequenceNext(t)[f] \in f + 1 .. Len(t) + 1
  <1>1. Len(t) \in Nat
    BY LenProperties
  <1>2. f \in Nat /\ f < Len(t)
    BY <1>1 DEF BehindText
  <1>3. CASE Begun(t, f) = {}
    BY <1>1, <1>2, <1>3 DEF SequenceNext
  <1>4. CASE Begun(t, f) # {}
    <2>1. EndAt(t, f) \in f + 2 .. Len(t) + 1
      BY <1>2, <1>4, EndAtIs
    <2>2. SequenceNext(t)[f] = EndAt(t, f)
      BY <1>4 DEF SequenceNext
    <2> QED
      BY <1>1, <1>2, <2>1, <2>2
  <1> QED
    BY <1>2, <1>3, <1>4

LEMMA SequencesAreCollected ==
    ASSUME NEW C, NEW t \in Seq(C)
    PROVE  \E h : /\ Collects(h, Len(t) + 1, BehindText(t), SequenceNext(t), SequenceFound(t))
                  /\ SequenceMatches(t) = h[0]
  <1> DEFINE n == Len(t) + 1
             one(h, f) == IF f >= Len(t) THEN {}
                          ELSE IF Begun(t, f) = {} THEN h[f + 1]
                          ELSE h[EndAt(t, f)] \cup SequenceAt(t, f)
             two(h, f) == IF f \in BehindText(t) THEN {}
                          ELSE h[SequenceNext(t)[f]] \cup SequenceFound(t)[f]
             Solves(h) == h = [f \in 0 .. n |-> one(h, f)]
             from == CHOOSE h : Solves(h)
  <1>1. n \in Nat
    BY LenProperties
  <1>2. SequenceMatches(t) = from[0]
    BY DEF SequenceMatches, SequenceAt, EndAt, SpaceAt
  <1>3. ASSUME NEW h
        PROVE  Solves(h) <=> Collects(h, n, BehindText(t), SequenceNext(t), SequenceFound(t))
    <2>1. ASSUME NEW f \in 0 .. n
          PROVE  one(h, f) = two(h, f)
      <3>1. f >= Len(t) <=> f \in BehindText(t)
        BY LenProperties DEF BehindText
      <3>2. /\ SequenceNext(t)[f] = IF Begun(t, f) = {} THEN f + 1 ELSE EndAt(t, f)
            /\ SequenceFound(t)[f] = IF Begun(t, f) = {} THEN {} ELSE SequenceAt(t, f)
        BY DEF SequenceNext, SequenceFound
      <3> QED
        BY <3>1, <3>2
    <2>2. Collects(h, n, BehindText(t), SequenceNext(t), SequenceFound(t))
              <=> h = [f \in 0 .. n |-> two(h, f)]
      BY DEF Collects
    <2> HIDE DEF one, two
    <2> QED
      BY <2>1, <2>2
  <1> HIDE DEF Solves
  <1>4. \E h : Collects(h, n, BehindText(t), SequenceNext(t), SequenceFound(t))
    <2>1. \A f \in 0 .. n : f \notin BehindText(t) => SequenceNext(t)[f] \in f + 1 .. n
      BY SequenceNextIs
    <2> HIDE DEF n
    <2> QED
      BY <1>1, <2>1, CollectingHasSolution
  <1>5. Solves(from)
    BY <1>3, <1>4
  <1> QED
    BY <1>2, <1>3, <1>5

LEMMA SequenceAtType ==
    ASSUME NEW C, NEW t \in Seq(C), NEW f \in Nat, f < Len(t), Begun(t, f) # {}
    PROVE  SequenceAt(t, f) \subseteq Matches
  <1> DEFINE g == EndAt(t, f)
             m == Min({g, Len(t)})
             token == Slice(t, f, m - 1)
             step == StepFrom(t, SpaceAt(t, f), f)
             start == CASE token[1] \in {"a", "1"} -> Bit
                        [] IsDigit(token[1]) -> Lg(10)
                        [] IsLower(token[1]) -> Lg(26)
                        [] OTHER -> Lg(26) + Bit
             e == SequenceEntropy(token, step)
  <1>1. g \in f + 2 .. Len(t) + 1 /\ Len(t) \in Nat
    BY EndAtIs, LenProperties
  <1>2. m \in {g, Len(t)} /\ m <= Len(t)
    <2> HIDE DEF g
    <2> QED
      BY <1>1, MinOfNumbers
  <1>3. m - 1 \in Nat /\ f <= m - 1 /\ m - 1 < Len(t)
    <2> HIDE DEF g, m
    <2> QED
      BY <1>1, <1>2
  <1>4. Len(token) = (m - 1) - f + 1
    <2> HIDE DEF m
    <2> QED
      BY <1>3, SliceType
  <1>5. Lg(Len(token)) \in Nat
    <2>1. Len(token) \in Nat /\ Len(token) >= 1
      <3> HIDE DEF token, m
      <3> QED
        BY <1>3, <1>4
    <2> QED
      BY <2>1, LgOf
  <1>6. start \in Nat
    <2>1. Bit \in Nat /\ Lg(10) \in Nat /\ Lg(26) \in Nat /\ Lg(26) + Bit \in Nat
      BY LgOf
    <2>2. start = Bit \/ start = Lg(10) \/ start = Lg(26) \/ start = Lg(26) + Bit
      <3> HIDE DEF token
      <3>1. \/ token[1] \in {"a", "1"} \/ IsDigit(token[1]) \/ IsLower(token[1])
            \/ ~ (token[1] \in {"a", "1"} \/ IsDigit(token[1]) \/ IsLower(token[1]))
        OBVIOUS
      <3> QED
        BY <3>1
    <2> HIDE DEF start
    <2> QED
      BY <2>1, <2>2
  <1>7. e = start + (IF step = 1 THEN 0 ELSE Bit) + Lg(Len(token))
    BY DEF SequenceEntropy
  <1> HIDE DEF e, start, token, step, g
  <1>8. e \in Nat
    BY <1>5, <1>6, <1>7, LgOf
  <1>9. f \in Nat /\ g - 1 \in Nat /\ f <= g - 1
    BY <1>1
  <1>10. SequenceAt(t, f) \subseteq {[pattern |-> "sequence", i |-> f, j |-> g - 1, entropy |-> e]}
    BY DEF SequenceAt, e, token, step, g
  <1> QED
    BY <1>8, <1>9, <1>10, IsMatch DEF Patterns

LEMMA SequenceMatchesType ==
    ASSUME NEW C, NEW t \in Seq(C)
    PROVE  SequenceMatches(t) \subseteq Matches
  <1> DEFINE n == Len(t) + 1
  <1>1. n \in Nat
    BY LenProperties
  <1>2. PICK h : /\ Collects(h, n, BehindText(t), SequenceNext(t), SequenceFound(t))
                 /\ SequenceMatches(t) = h[0]
    BY SequencesAreCollected
  <1>3. \A f \in 0 .. n : f \notin BehindText(t) =>
            SequenceNext(t)[f] \in f + 1 .. n /\ SequenceFound(t)[f] \subseteq Matches
    <2> SUFFICES ASSUME NEW f \in 0 .. n, f \notin BehindText(t)
                 PROVE  SequenceNext(t)[f] \in f + 1 .. n /\ SequenceFound(t)[f] \subseteq Matches
      OBVIOUS
    <2>1. f \in Nat /\ f < Len(t) /\ SequenceNext(t)[f] \in f + 1 .. n
      BY SequenceNextIs
    <2>2. SequenceFound(t)[f] = IF Begun(t, f) = {} THEN {} ELSE SequenceAt(t, f)
      BY DEF SequenceFound
    <2> QED
      BY <2>1, <2>2, SequenceAtType
  <1> HIDE DEF n
  <1>4. \A f \in 0 .. n : h[f] \subseteq Matches
    BY <1>1, <1>2, <1>3, CollectedIsFound
  <1> QED
    BY <1>1, <1>2, <1>4

-----------------------------------------------------------------------------
(* Characters that follow each other are found. *)

IsRun(t, space, step, i, j) ==
    /\ space \in Spaces /\ step \in {1, -1}
    /\ i \in Nat /\ j \in Nat /\ i + 3 <= j /\ j < Len(t)
    /\ \A p \in i .. j : At(t, p) \in DOMAIN space
    /\ \A p \in i + 1 .. j : space[At(t, p)] - space[At(t, p - 1)] = step
    /\ j < Len(t) - 1 =>
           ~ (At(t, j + 1) \in DOMAIN space /\ space[At(t, j + 1)] - space[At(t, j)] = step)
    /\ ~ (step = -1 /\ space[At(t, j)] = 0 /\ j = Len(t) - 1)

TakesIn(m, t, i, j) == m.pattern = "sequence" /\ m.i <= i + 1 /\ j <= m.j /\ m.j < Len(t)

LEMMA RunSteps ==
    ASSUME NEW C, NEW t \in Seq(C), NEW space, NEW step, NEW i, NEW j,
           IsRun(t, space, step, i, j)
    PROVE  /\ \A p \in i .. j : Index(t, space, p) = space[At(t, p)] /\ Index(t, space, p) > -1
           /\ \A p \in i .. j - 1 : StepFrom(t, space, p) = step
  <1>1. /\ i \in Nat /\ j \in Nat /\ i + 3 <= j /\ j < Len(t) /\ Len(t) \in Nat
        /\ space \in Spaces
    BY LenProperties DEF IsRun
  <1>2. ASSUME NEW p \in i .. j
        PROVE  Index(t, space, p) = space[At(t, p)] /\ Index(t, space, p) > -1
    <2>1. p < Len(t) /\ At(t, p) \in DOMAIN space
      BY <1>1 DEF IsRun
    <2>2. Index(t, space, p) = space[At(t, p)]
      BY <2>1 DEF Index
    <2>3. space[At(t, p)] \in Nat
      BY <1>1, <2>1, SpacesAreDisjoint
    <2> QED
      BY <2>2, <2>3
  <1>3. ASSUME NEW p \in i .. j - 1
        PROVE  StepFrom(t, space, p) = step
    <2>1. p \in i .. j /\ p + 1 \in i + 1 .. j /\ p + 1 \in i .. j /\ (p + 1) - 1 = p
      BY <1>1
    <2>2. space[At(t, p + 1)] - space[At(t, p)] = step
      BY <2>1 DEF IsRun
    <2>3. Index(t, space, p) = space[At(t, p)] /\ Index(t, space, p + 1) = space[At(t, p + 1)]
      BY <1>2, <2>1
    <2> QED
      BY <2>2, <2>3 DEF StepFrom
  <1> QED
    BY <1>2, <1>3

(* A sequence that begins no later than the second character of a run, and has gone
   on to its third, ends where the run ends, or one character later: not behind the
   text. *)
LEMMA RunEnds ==
    ASSUME NEW C, NEW t \in Seq(C), NEW space, NEW step, NEW i, NEW j,
           IsRun(t, space, step, i, j),
           NEW f \in Nat, f <= i + 1, space \in Begun(t, f), StepFrom(t, space, f) = step,
           SequenceEnd(t, space, f) >= i + 2
    PROVE  SequenceEnd(t, space, f) \in j + 1 .. Len(t)
  <1> DEFINE g == SequenceEnd(t, space, f)
             n == Len(t)
             index(p) == Index(t, space, p)
             GoesOn(p) == index(p + 1) - index(p) = step
  <1>1. /\ i \in Nat /\ j \in Nat /\ i + 3 <= j /\ j < n /\ n \in Nat
        /\ space \in Spaces /\ step \in {1, -1}
    BY LenProperties DEF IsRun
  <1>2. /\ g \in f + 2 .. n + 1
        /\ \A p \in f + 1 .. g - 2 : GoesOn(p)
        /\ ~ GoesOn(g - 1)
    <2>1. f < Len(t)
      BY <1>1
    <2> QED
      BY <2>1, SequenceEndIs DEF StepFrom
  <1>3. /\ \A p \in i .. j : index(p) = space[At(t, p)] /\ index(p) > -1
        /\ \A p \in i .. j - 1 : GoesOn(p)
    BY RunSteps DEF StepFrom
  <1>4. /\ \A p \in Int : index(p) \in Int /\ index(p) >= -1
        /\ index(n) = -1
    <2>1. \A p \in Int : index(p) \in Int /\ index(p) >= -1
      BY <1>1, IndexType
    <2>2. index(n) = -1
      BY <1>1 DEF Index
    <2> QED
      BY <2>1, <2>2
  <1>5. j < n - 1 => ~ (At(t, j + 1) \in DOMAIN space /\ space[At(t, j + 1)] - space[At(t, j)] = step)
    BY DEF IsRun
  <1>6. ~ (step = -1 /\ space[At(t, j)] = 0 /\ j = n - 1)
    BY DEF IsRun
  <1>7. j < n - 1 /\ At(t, j + 1) \in DOMAIN space => index(j + 1) = space[At(t, j + 1)]
    BY <1>1 DEF Index
  <1>8. ~ (At(t, j + 1) \in DOMAIN space) => index(j + 1) = -1
    BY DEF Index
  <1>9. g >= i + 2
    OBVIOUS
  <1> HIDE DEF g, n, index
  <1>10. g > j
    <2> SUFFICES ASSUME g <= j PROVE FALSE
      BY <1>1, <1>2
    <2>1. g - 1 \in i .. j - 1
      BY <1>1, <1>2, <1>9
    <2> QED
      BY <1>2, <1>3, <2>1
  <1>11. ASSUME g = n + 1
         PROVE  FALSE
    <2>1. \A p \in f + 1 .. n - 1 : GoesOn(p)
      <3>1. g - 2 = n - 1
        BY <1>1, <1>11
      <3> QED
        BY <1>2, <3>1
    <2>2. n - 1 \in f + 1 .. n - 1 /\ (n - 1) + 1 = n
      BY <1>1
    <2>3. GoesOn(n - 1)
      BY <2>1, <2>2
    <2>4. step = -1 /\ index(n - 1) = 0
      <3> DEFINE a == index(n - 1)
      <3>1. -1 - a = step /\ a \in Int /\ a >= -1
        BY <1>1, <1>4, <2>2, <2>3
      <3> HIDE DEF a
      <3>2. a = 0 /\ step = -1
        BY <1>1, <3>1
      <3> QED
        BY <3>2 DEF a
    <2>5. CASE j = n - 1
      BY <1>1, <1>3, <1>6, <2>4, <2>5
    <2>6. CASE j < n - 1
      <3>1. j \in f + 1 .. n - 1 /\ j + 1 \in f + 1 .. n - 1 /\ (j + 1) + 1 = j + 2
        BY <1>1, <2>6
      <3>2. GoesOn(j) /\ GoesOn(j + 1)
        BY <2>1, <3>1
      <3>3. index(j) = space[At(t, j)]
        BY <1>1, <1>3
      <3>4. index(j + 1) = -1
        BY <1>5, <1>7, <1>8, <2>6, <3>2, <3>3
      <3>5. index(j + 2) \in Int /\ index(j + 2) >= -1 /\ index(j + 2) - index(j + 1) = step
        BY <1>1, <1>4, <3>1, <3>2
      <3> QED
        BY <2>4, <3>4, <3>5
    <2> QED
      BY <1>1, <2>5, <2>6
  <1>12. g \in j + 1 .. n
    BY <1>1, <1>2, <1>10, <1>11
  <1> QED
    BY <1>12 DEF g, n

(* A sequence that has gone on to the third character of a run is in the same space,
   and has the same step. *)
LEMMA SequenceIsInSpace ==
    ASSUME NEW C, NEW t \in Seq(C), NEW space, NEW step, NEW i, NEW j,
           IsRun(t, space, step, i, j),
           NEW f \in Nat, f <= i + 1, NEW s \in Begun(t, f), SequenceEnd(t, s, f) >= i + 2
    PROVE  s = space /\ StepFrom(t, s, f) = step
  <1> DEFINE g == SequenceEnd(t, s, f)
             d == StepFrom(t, s, f)
             q == IF f = i + 1 THEN f ELSE i
  <1>1. /\ i \in Nat /\ j \in Nat /\ i + 3 <= j /\ j < Len(t) /\ Len(t) \in Nat
        /\ space \in Spaces
    BY LenProperties DEF IsRun
  <1>2. /\ s \in Spaces /\ d \in {1, -1}
        /\ Index(t, s, f) > -1
    BY DEF Begun, Steps
  <1>3. /\ g \in f + 2 .. Len(t) + 1
        /\ \A p \in f + 1 .. g - 2 : StepFrom(t, s, p) = d
    <2>1. f < Len(t)
      BY <1>1
    <2> QED
      BY <2>1, SequenceEndIs
  <1> HIDE DEF g, d
  <1>4. g >= i + 2
    BY DEF g
  <1>5. q \in i .. j - 1 /\ StepFrom(t, s, q) = d
    <2>1. CASE q = f
      BY <1>1, <2>1 DEF d
    <2>2. CASE q # f
      <3>1. q = i /\ q \in f + 1 .. g - 2
        BY <1>1, <1>3, <1>4, <2>2
      <3> QED
        BY <1>1, <1>3, <3>1
    <2> QED
      BY <2>1, <2>2
  <1>6. Index(t, s, q) > -1
    <2>1. CASE q = f
      BY <1>2, <2>1
    <2>2. CASE q # f
      <3>1. q = i /\ i - 1 \in f .. g - 2 /\ (i - 1) + 1 = i
        BY <1>1, <1>3, <1>4, <2>2
      <3>2. StepFrom(t, s, i - 1) = d
        <4>1. CASE i - 1 = f
          BY <4>1 DEF d
        <4>2. CASE i - 1 # f
          <5>1. i - 1 \in f + 1 .. g - 2
            BY <1>1, <1>3, <3>1, <4>2
          <5> QED
            BY <1>3, <5>1
        <4> QED
          BY <4>1, <4>2
      <3> DEFINE a == Index(t, s, i - 1)
                 b == Index(t, s, i)
                 c == Index(t, s, i + 1)
      <3>3. /\ a \in Int /\ a >= -1
            /\ b \in Int /\ b >= -1
            /\ c \in Int /\ c >= -1
        BY <1>2, IndexType
      <3>4. b - a = d /\ c - b = d
        BY <1>5, <3>1, <3>2 DEF StepFrom
      <3> HIDE DEF a, b, c
      <3>5. b # -1
        BY <1>2, <3>3, <3>4
      <3>6. b > -1
        BY <3>3, <3>5
      <3> QED
        BY <3>1, <3>6 DEF b
    <2> QED
      BY <2>1, <2>2
  <1>7. At(t, q) \in DOMAIN s /\ At(t, q) \in DOMAIN space
    <2>1. q \in i .. j
      BY <1>1, <1>5
    <2> QED
      BY <1>2, <1>6, <2>1, IndexType DEF IsRun
  <1>8. s = space
    BY <1>1, <1>2, <1>7, SpacesAreDisjoint
  <1>9. StepFrom(t, space, q) = step
    BY <1>5, RunSteps
  <1> QED
    BY <1>5, <1>8, <1>9 DEF d

LEMMA RunsAreFound ==
    ASSUME NEW C, NEW t \in Seq(C), NEW space, NEW step, NEW i, NEW j,
           IsRun(t, space, step, i, j)
    PROVE  \E m \in SequenceMatches(t) : TakesIn(m, t, i, j)
  <1>1. /\ i \in Nat /\ j \in Nat /\ i + 3 <= j /\ j < Len(t) /\ Len(t) \in Nat
        /\ space \in Spaces /\ step \in {1, -1}
    BY LenProperties DEF IsRun
  <1>2. PICK h : /\ Collects(h, Len(t) + 1, BehindText(t), SequenceNext(t), SequenceFound(t))
                 /\ SequenceMatches(t) = h[0]
    BY SequencesAreCollected
  <1> DEFINE Finds(f) == \E m \in h[f] : TakesIn(m, t, i, j)
             P == {k \in Nat : k <= i + 1 => Finds(i + 1 - k)}
  <1>3. ASSUME NEW f \in 0 .. i + 1, \A e \in f + 1 .. i + 1 : Finds(e)
        PROVE  Finds(f)
    <2>1. f \in Nat /\ f < Len(t) /\ f \in 0 .. Len(t) + 1 /\ f \notin BehindText(t)
      BY <1>1 DEF BehindText
    <2>2. h[f] = h[SequenceNext(t)[f]] \cup SequenceFound(t)[f]
      BY <1>2, <2>1 DEF Collects
    <2>3. CASE Begun(t, f) = {}
      <3>1. f # i + 1
        <4> SUFFICES ASSUME f = i + 1 PROVE FALSE
          OBVIOUS
        <4>1. i + 1 \in i .. j /\ i + 2 \in i .. j /\ i + 1 \in i .. j - 1 /\ (i + 1) + 1 = i + 2
          BY <1>1
        <4>2. /\ Index(t, space, i + 1) > -1 /\ Index(t, space, i + 2) > -1
              /\ StepFrom(t, space, i + 1) = step
          BY <4>1, RunSteps
        <4>3. space \in Begun(t, i + 1)
          BY <1>1, <4>1, <4>2 DEF Begun, Steps
        <4> QED
          BY <2>3, <4>3
      <3>2. f + 1 \in f + 1 .. i + 1
        BY <1>1, <3>1
      <3>3. SequenceNext(t)[f] = f + 1
        BY <2>1, <2>3 DEF SequenceNext
      <3> QED
        BY <1>3, <2>2, <3>2, <3>3
    <2>4. CASE Begun(t, f) # {}
      <3> DEFINE s == SpaceAt(t, f)
                 g == SequenceEnd(t, s, f)
      <3>1. s \in Begun(t, f) /\ g \in f + 2 .. Len(t) + 1
        BY <2>1, <2>4, EndAtIs DEF EndAt
      <3>2. SequenceNext(t)[f] = g /\ SequenceFound(t)[f] = SequenceAt(t, f)
        BY <2>1, <2>4 DEF SequenceNext, SequenceFound, EndAt
      <3>3. CASE g <= i + 1
        <4>1. g \in f + 1 .. i + 1
          <5> HIDE DEF g
          <5> QED
            BY <1>1, <2>1, <3>1, <3>3
        <4> QED
          BY <1>3, <2>2, <3>2, <4>1
      <3>4. CASE g >= i + 2
        <4>1. s = space /\ StepFrom(t, s, f) = step
          <5> HIDE DEF s
          <5> QED
            BY <2>1, <3>1, <3>4, SequenceIsInSpace
        <4>2. g \in j + 1 .. Len(t)
          <5> HIDE DEF s
          <5> QED
            BY <2>1, <3>1, <3>4, <4>1, RunEnds
        <4>3. PICK e : SequenceAt(t, f) = IF g - f > 2
                       THEN {[pattern |-> "sequence", i |-> f, j |-> g - 1, entropy |-> e]}
                       ELSE {}
          BY DEF SequenceAt, EndAt
        <4> DEFINE m == [pattern |-> "sequence", i |-> f, j |-> g - 1, entropy |-> e]
        <4> HIDE DEF g
        <4>4. g - f > 2
          BY <1>1, <2>1, <4>2
        <4>5. m \in h[f]
          BY <2>2, <3>2, <4>3, <4>4
        <4>6. TakesIn(m, t, i, j)
          BY <1>1, <2>1, <4>2 DEF TakesIn
        <4> QED
          BY <4>5, <4>6
      <3> QED
        <4> HIDE DEF g
        <4> QED
          BY <1>1, <2>1, <3>1, <3>3, <3>4
    <2> QED
      BY <2>3, <2>4
  <1> HIDE DEF Finds
  <1>4. ASSUME NEW k \in Nat, \A l \in Nat : l < k => l \in P, k <= i + 1
        PROVE  Finds(i + 1 - k)
    <2> DEFINE f == i + 1 - k
    <2>1. f \in 0 .. i + 1
      BY <1>1, <1>4
    <2>2. ASSUME NEW e \in f + 1 .. i + 1
          PROVE  Finds(e)
      <3> DEFINE l == i + 1 - e
      <3>1. l \in Nat /\ l < k /\ l <= i + 1 /\ i + 1 - l = e
        BY <1>1, <1>4
      <3>2. Finds(i + 1 - l)
        <4> HIDE DEF l
        <4> QED
          BY <1>4, <3>1
      <3> QED
        BY <3>1, <3>2, Zenon
    <2> HIDE DEF f
    <2>3. Finds(f)
      BY <1>3, <2>1, <2>2
    <2> QED
      BY <2>3 DEF f
  <1>5. \A k \in Nat : k \in P
    <2>1. \A k \in Nat : (\A l \in Nat : l < k => l \in P) => k \in P
      BY <1>4
    <2> HIDE DEF P
    <2> QED
      BY <2>1, StrongSetInduction
  <1>6. Finds(0)
    <2>1. i + 1 \in P /\ i + 1 - (i + 1) = 0
      BY <1>1, <1>5
    <2>2. Finds(i + 1 - (i + 1))
      BY <1>1, <2>1
    <2> QED
      BY <2>1, <2>2, Zenon
  <1> QED
    BY <1>2, <1>6 DEF Finds

-----------------------------------------------------------------------------
(* Walks on a keyboard. *)

LEMMA PartOfSpan ==
    ASSUME NEW i \in Nat, NEW j \in Nat, i <= j, NEW S, S \subseteq i + 1 .. j
    PROVE  Cardinality(S) \in 0 .. j - i /\ (S # {} => Cardinality(S) >= 1)
  <1> DEFINE m == i + 1
  <1>1. m \in Int /\ m \in Nat
    OBVIOUS
  <1>2. (IF m > j THEN 0 ELSE j - m + 1) = j - i
    OBVIOUS
  <1> HIDE DEF m
  <1>3. IsFiniteSet(m .. j) /\ Cardinality(m .. j) = IF m > j THEN 0 ELSE j - m + 1
    BY <1>1, FS_Interval
  <1>4. S \subseteq m .. j
    BY DEF m
  <1>5. IsFiniteSet(S) /\ Cardinality(S) <= Cardinality(m .. j)
    BY <1>3, <1>4, FS_Subset
  <1>6. Cardinality(S) \in Nat /\ (Cardinality(S) = 0 <=> S = {})
    BY <1>5, FS_CardinalityType, FS_EmptySet
  <1>7. Cardinality(m .. j) = j - i
    BY <1>2, <1>3
  <1>8. Cardinality(S) <= j - i
    BY <1>5, <1>7
  <1> DEFINE k == Cardinality(S)
  <1>9. k \in Nat /\ k <= j - i /\ (k = 0 <=> S = {})
    BY <1>6, <1>8
  <1> HIDE DEF k
  <1>10. k \in 0 .. j - i /\ (k # 0 => k >= 1)
    BY <1>9
  <1>11. S # {} => k # 0
    BY <1>9, Zenon
  <1>12. S # {} => k >= 1
    BY <1>10, <1>11, Zenon
  <1> QED
    BY <1>10, <1>12 DEF k

HasNeighbours(degree) == degree \in Nat \X Positive /\ degree[1] >= degree[2]

(* One step to a neighbour makes a walk. *)
LEMMA WalksType ==
    ASSUME NEW degree, HasNeighbours(degree), NEW n \in Nat, n >= 2,
           NEW turns \in Nat, turns >= 1
    PROVE  WalksFromOne(degree, n, turns) \in Nat /\ WalksFromOne(degree, n, turns) >= 1024
  <1> DEFINE more(x) == (x * degree[1]) \div degree[2]
             Solves(h) == h = [e \in Nat |-> IF e = 0 THEN 1024 ELSE more(h[e - 1])]
             power == CHOOSE h : Solves(h)
             step == [x \in Nat \X Nat |-> more(x[2])]
             used(c) == 1 .. Min({turns, c - 1})
             ways(c) == [e \in used(c) |-> choose(c - 1, e - 1) * power[e]]
             walks(c) == SumFunctionOnSet(ways(c), used(c))
             all == [c \in 2 .. n |-> walks(c)]
  <1>1. degree[1] \in Nat /\ degree[2] \in Positive /\ degree[2] <= degree[1]
    BY DEF HasNeighbours, Positive
  <1>2. \A x \in Nat : more(x) \in Nat
    <2> SUFFICES ASSUME NEW x \in Nat PROVE more(x) \in Nat
      OBVIOUS
    <2>1. x * degree[1] \in Nat
      BY <1>1, Products
    <2> QED
      BY <1>1, <2>1, Quotients
  <1>3. WalksFromOne(degree, n, turns) = SumFunctionOnSet(all, 2 .. n)
    BY DEF WalksFromOne
  <1>4. \A x \in Nat : more(x) = (x * degree[1]) \div degree[2]
    OBVIOUS
  <1> HIDE DEF more
  <1>5. step \in [Nat \X Nat -> Nat]
    BY <1>2
  <1>6. \A e, x \in Nat : step[<<e, x>>] = more(x)
    OBVIOUS
  <1>7. \E h : Solves(h)
    <2> HIDE DEF step
    <2>1. PICK h : Recurses(h, Nat, Nat, 1024, step)
      <3> DEFINE V == Nat
                 first == 1024
      <3>1. first \in V /\ step \in [Nat \X V -> V]
        BY <1>5
      <3> HIDE DEF V, first
      <3>2. \E h : Recurses(h, Nat, V, first, step)
        BY <3>1, RecursionHasSolution
      <3> QED
        BY <3>2 DEF V, first
    <2>2. ASSUME NEW e \in Nat
          PROVE  h[e] = IF e = 0 THEN 1024 ELSE more(h[e - 1])
      <3>1. e # 0 => e - 1 \in Nat /\ h[e - 1] \in Nat
        BY <2>1 DEF Recurses
      <3>2. h[e] = IF e = 0 THEN 1024 ELSE step[<<e, h[e - 1]>>]
        BY <2>1 DEF Recurses
      <3> QED
        BY <1>6, <3>1, <3>2
    <2>3. h = [e \in Nat |-> h[e]]
      BY <2>1 DEF Recurses
    <2> DEFINE one(e) == IF e = 0 THEN 1024 ELSE more(h[e - 1])
    <2>4. \A e \in Nat : h[e] = one(e)
      BY <2>2
    <2>5. Solves(h) <=> h = [e \in Nat |-> one(e)]
      OBVIOUS
    <2> HIDE DEF one, Solves
    <2>6. Solves(h)
      BY <2>3, <2>4, <2>5
    <2> QED
      BY <2>6
  <1>8. Solves(power)
    <2> HIDE DEF Solves
    <2> QED
      BY <1>7
  <1> HIDE DEF power
  <1>9. \A e \in Nat : power[e] = IF e = 0 THEN 1024 ELSE more(power[e - 1])
    BY <1>8
  <1> HIDE DEF Solves
  <1>10. \A e \in Nat : power[e] \in Nat
    <2> DEFINE P == {e \in Nat : power[e] \in Nat}
    <2>1. 0 \in P
      BY <1>9
    <2>2. \A e \in Nat : e \in P => e + 1 \in P
      <3> SUFFICES ASSUME NEW e \in Nat, e \in P PROVE e + 1 \in P
        OBVIOUS
      <3>1. e + 1 \in Nat /\ e + 1 # 0 /\ (e + 1) - 1 = e /\ power[e] \in Nat
        OBVIOUS
      <3>2. power[e + 1] = more(power[e])
        BY <1>9, <3>1
      <3> QED
        BY <1>2, <3>1, <3>2
    <2> HIDE DEF P
    <2>3. \A e \in Nat : e \in P
      BY <2>1, <2>2, SetInduction
    <2> QED
      BY <2>3 DEF P
  <1>11. power[1] >= 1024
    <2> DEFINE a == 1024 * degree[1]
    <2>1. power[1] = a \div degree[2]
      BY <1>9, <1>4
    <2>2. a \in Nat /\ 1024 * degree[2] <= a
      BY <1>1 DEF Positive
    <2> HIDE DEF a
    <2>3. 1024 <= a \div degree[2]
      BY <1>1, <2>2, Quotients
    <2> QED
      BY <2>1, <2>3, <1>10
  <1>12. ASSUME NEW c \in 2 .. n
         PROVE  /\ 1 \in used(c) /\ IsFiniteSet(used(c))
                /\ \A e \in used(c) : ways(c)[e] \in Nat
                /\ walks(c) \in Nat
    <2>1. c - 1 \in Nat /\ c - 1 >= 1
      OBVIOUS
    <2> DEFINE m == Min({turns, c - 1})
    <2>2. m \in {turns, c - 1} /\ m <= c - 1
      <3> DEFINE d == c - 1
      <3>1. d \in Nat
        OBVIOUS
      <3> HIDE DEF d
      <3>2. Min({turns, d}) \in {turns, d} /\ Min({turns, d}) <= d
        BY <3>1, MinOfNumbers
      <3> QED
        BY <3>2 DEF d
    <2> HIDE DEF m
    <2>3. m \in Nat /\ 1 <= m /\ m <= c - 1
      BY <2>1, <2>2
    <2>4. used(c) = 1 .. m
      BY DEF m
    <2>5. 1 \in used(c) /\ IsFiniteSet(used(c))
      <3>1. 1 \in 1 .. m /\ IsFiniteSet(1 .. m)
        BY <2>3, FS_Interval
      <3> HIDE DEF used
      <3> QED
        BY <2>4, <3>1
    <2>6. ASSUME NEW e \in used(c)
          PROVE  ways(c)[e] \in Nat
      <3>1. e \in Nat /\ e - 1 \in 0 .. c - 1
        <4> HIDE DEF used
        <4>1. e \in 1 .. m
          BY <2>4
        <4> QED
          BY <2>3, <4>1
      <3> DEFINE d == c - 1
                 k == e - 1
      <3>2. choose(d, k) \in Nat
        <4>1. d \in Nat /\ k \in 0 .. d
          BY <2>1, <3>1
        <4> HIDE DEF d, k
        <4> QED
          BY <4>1, ChooseType DEF Positive
      <3>3. choose(d, k) * power[e] \in Nat
        BY <1>10, <3>1, <3>2, Products
      <3> QED
        BY <3>3
    <2>7. walks(c) \in Nat
      <3> DEFINE f == ways(c)
      <3>1. \A e \in used(c) : f[e] \in Nat
        BY <2>6
      <3> HIDE DEF f, used
      <3>2. SumFunctionOnSet(f, used(c)) \in Nat
        BY <2>5, <3>1, SumType
      <3> QED
        BY <3>2 DEF f
    <2> QED
      BY <2>5, <2>6, <2>7
  <1>13. walks(2) >= 1024
    <2>1. 2 \in 2 .. n
      OBVIOUS
    <2> DEFINE f == ways(2)
    <2>2. 1 \in used(2) /\ IsFiniteSet(used(2)) /\ \A e \in used(2) : f[e] \in Nat
      BY <1>12, <2>1
    <2>3. f[1] = choose(1, 0) * power[1]
      BY <2>2
    <2>4. choose(1, 0) \in Positive
      BY ChooseType
    <2>5. f[1] >= power[1]
      <3>1. 1 * power[1] <= choose(1, 0) * power[1]
        BY <1>10, <2>4, Products DEF Positive
      <3> QED
        BY <1>10, <2>3, <3>1
    <2> HIDE DEF f, used
    <2>6. f[1] <= SumFunctionOnSet(f, used(2)) /\ SumFunctionOnSet(f, used(2)) \in Nat
      BY <2>2, SumIsAtLeast, SumType
    <2>7. walks(2) = SumFunctionOnSet(f, used(2))
      BY DEF f
    <2> QED
      BY <1>10, <1>11, <2>2, <2>5, <2>6, <2>7
  <1> HIDE DEF walks
  <1>14. /\ \A c \in 2 .. n : all[c] \in Nat
         /\ all[2] >= 1024 /\ 2 \in 2 .. n
    <2>1. \A c \in 2 .. n : all[c] = walks(c)
      OBVIOUS
    <2>2. 2 \in 2 .. n
      OBVIOUS
    <2> HIDE DEF all
    <2> QED
      BY <1>12, <1>13, <2>1, <2>2
  <1> HIDE DEF all
  <1>15. IsFiniteSet(2 .. n)
    BY FS_Interval
  <1>16. all[2] <= SumFunctionOnSet(all, 2 .. n) /\ SumFunctionOnSet(all, 2 .. n) \in Nat
    BY <1>14, <1>15, SumIsAtLeast, SumType
  <1> QED
    BY <1>14, <1>3, <1>16

LEMMA SpatialEntropyType ==
    ASSUME NEW degree, HasNeighbours(degree), NEW n \in Nat, n >= 2,
           NEW turns \in Nat, turns >= 1, NEW shifted \in 0 .. n
    PROVE  SpatialEntropy(degree, n, turns, shifted) \in Nat
  <1> DEFINE a == Lg(degree[2])
             b == Lg(WalksFromOne(degree, n, turns))
             c == IF shifted = 0 THEN 0 ELSE Lg(Ways(shifted, n - shifted))
  <1>1. a \in Nat
    BY LgType DEF HasNeighbours
  <1>2. b \in Nat /\ b >= 10 * Bit
    <2>1. WalksFromOne(degree, n, turns) \in Positive /\ WalksFromOne(degree, n, turns) >= 1024
      BY WalksType DEF Positive
    <2> QED
      BY <2>1, LgType
  <1>3. c \in Nat
    <2>1. shifted \in Nat /\ n - shifted \in Nat
      OBVIOUS
    <2>2. Lg(Ways(shifted, n - shifted)) \in Nat
      BY <2>1, WaysType, LgType
    <2> QED
      BY <2>2
  <1>4. SpatialEntropy(degree, n, turns, shifted) = a + b - 10 * Bit + c
    BY DEF SpatialEntropy
  <1> HIDE DEF a, b, c
  <1> QED
    BY <1>1, <1>2, <1>3, <1>4, LgOf

LEMMA WalksOnType ==
    ASSUME NEW graph, NEW degree, HasNeighbours(degree), NEW C, NEW t \in Seq(C)
    PROVE  WalksOn(graph, degree, t) \subseteq Matches
  <1> DEFINE turn(p) == Direction(graph, At(t, p - 1), At(t, p))
             turning(i, j) == {p \in i + 1 .. j : p = i + 1 \/ turn(p) # turn(p - 1)}
             shifting(i, j) == {p \in i + 1 .. j : NeedsShift(graph, At(t, p - 1), At(t, p))}
             e(s) == SpatialEntropy(degree, s[2] - s[1] + 1,
                                    Cardinality(turning(s[1], s[2])),
                                    Cardinality(shifting(s[1], s[2])))
  <1> HIDE DEF turn
  <1>1. ASSUME NEW m \in WalksOn(graph, degree, t)
        PROVE  \E s \in Spans(t) :
                   /\ s[2] - s[1] + 1 > 2
                   /\ m = [pattern |-> "spatial", i |-> s[1], j |-> s[2], entropy |-> e(s)]
    BY <1>1 DEF WalksOn, MaximalRuns, Quantify, turn
  <1> SUFFICES ASSUME NEW s \in Spans(t), s[2] - s[1] + 1 > 2
               PROVE  [pattern |-> "spatial", i |-> s[1], j |-> s[2], entropy |-> e(s)] \in Matches
    <2> HIDE DEF e
    <2> QED
      BY <1>1
  <1>2. s[1] \in Nat /\ s[2] \in Nat /\ s[1] <= s[2]
    BY SpanType
  <1> DEFINE i == s[1]
             j == s[2]
             n == j - i + 1
             turns == Cardinality(turning(i, j))
             shifted == Cardinality(shifting(i, j))
  <1> HIDE DEF i, j
  <1>3. i \in Nat /\ j \in Nat /\ i <= j /\ i + 1 <= j /\ n \in Nat /\ n >= 2
    BY <1>2 DEF i, j
  <1>4. turns \in Nat /\ turns >= 1
    <2> DEFINE S == turning(i, j)
    <2>1. S \subseteq i + 1 .. j /\ i + 1 \in S
      BY <1>3
    <2> HIDE DEF S
    <2> QED
      <3>1. Cardinality(S) \in 0 .. j - i /\ Cardinality(S) >= 1
        BY <1>3, <2>1, PartOfSpan
      <3> QED
        BY <3>1 DEF S
  <1>5. shifted \in 0 .. n
    <2> DEFINE S == shifting(i, j)
    <2>1. S \subseteq i + 1 .. j
      OBVIOUS
    <2> HIDE DEF S
    <2> QED
      <3>1. Cardinality(S) \in 0 .. j - i
        BY <1>3, <2>1, PartOfSpan
      <3>2. Cardinality(S) \in 0 .. n
        BY <1>3, <3>1
      <3> QED
        BY <3>2 DEF S
  <1>6. e(s) = SpatialEntropy(degree, n, turns, shifted)
    BY DEF i, j
  <1> HIDE DEF e, n, turns, shifted
  <1>7. e(s) \in Nat
    BY <1>3, <1>4, <1>5, <1>6, SpatialEntropyType
  <1> QED
    BY <1>2, <1>7, IsMatch DEF Patterns

LEMMA SpatialMatchesType ==
    ASSUME NEW C, NEW t \in Seq(C)
    PROVE  SpatialMatches(t) \subseteq Matches
  <1>1. HasNeighbours(QwertyDegree) /\ HasNeighbours(KeypadDegree)
    BY KeysHaveNeighbours DEF HasNeighbours, Positive
  <1> QED
    BY <1>1, WalksOnType DEF SpatialMatches

-----------------------------------------------------------------------------
(* Words. *)

LEMMA RankType ==
    ASSUME NEW ranks \in Dictionaries, NEW word \in DOMAIN ranks
    PROVE  ranks[word] \in Positive
  <1> DEFINE AreRanked(list) == \A entry \in list : entry[2] \in Positive
  <1>1. /\ AreRanked(Passwords) /\ AreRanked(English) /\ AreRanked(MaleNames)
        /\ AreRanked(FemaleNames) /\ AreRanked(Surnames)
    <2>1. AreRanked(Passwords)
      BY DEF Passwords, Positive
    <2>2. AreRanked(English)
      BY DEF English, Positive
    <2>3. AreRanked(MaleNames)
      BY DEF MaleNames, Positive
    <2>4. AreRanked(FemaleNames)
      BY DEF FemaleNames, Positive
    <2>5. AreRanked(Surnames)
      BY DEF Surnames, Positive
    <2> QED
      BY <2>1, <2>2, <2>3, <2>4, <2>5
  <1>2. PICK list : AreRanked(list) /\ ranks = Ranks(list)
    <2> HIDE DEF AreRanked
    <2> QED
      BY <1>1 DEF Dictionaries
  <1> DEFINE entry == CHOOSE e \in list : Chars(e[1]) = word
  <1>3. (\E e \in list : Chars(e[1]) = word) /\ ranks[word] = entry[2]
    BY <1>2 DEF Ranks
  <1>4. entry \in list
    BY <1>3
  <1> QED
    BY <1>2, <1>3, <1>4

LEMMA UppercaseEntropyType ==
    ASSUME NEW C, NEW token \in Seq(C)
    PROVE  UppercaseEntropy(token) \in Nat
  <1> DEFINE upper == {p \in DOMAIN token : IsUpper(token[p])}
             lower == {p \in DOMAIN token : IsLower(token[p])}
  <1>1. Count(token, IsUpper) = Cardinality(upper) /\ Count(token, IsLower) = Cardinality(lower)
    BY DEF Count, Quantify
  <1>2. upper \subseteq DOMAIN token /\ lower \subseteq DOMAIN token
    OBVIOUS
  <1> HIDE DEF upper, lower
  <1>3. Cardinality(upper) \in 0 .. Len(token) /\ Cardinality(lower) \in 0 .. Len(token)
    BY <1>2, CountType
  <1>4. Count(token, IsUpper) \in Nat /\ Count(token, IsLower) \in Nat
    BY <1>1, <1>3
  <1>5. Lg(Ways(Count(token, IsUpper), Count(token, IsLower))) \in Nat
    BY <1>4, WaysType, LgType
  <1> QED
    BY <1>5, LgOf DEF UppercaseEntropy

LEMMA L33tEntropyType ==
    ASSUME NEW C, NEW token \in Seq(C), NEW sub
    PROVE  L33tEntropy(token, sub) \in Nat
  <1> DEFINE used == DOMAIN sub \cap Range(token)
             at(c) == {p \in DOMAIN token : token[p] = c}
             f == [c \in used |-> Ways(Cardinality(at(c)), Cardinality(at(sub[c])))]
             ways == SumFunctionOnSet(f, used)
  <1>1. \A c : Cardinality(at(c)) \in Nat
    <2> SUFFICES ASSUME NEW c PROVE Cardinality(at(c)) \in Nat
      OBVIOUS
    <2>1. at(c) \subseteq DOMAIN token
      OBVIOUS
    <2> HIDE DEF at
    <2>2. Cardinality(at(c)) \in 0 .. Len(token)
      BY <2>1, CountType
    <2> QED
      BY <2>2
  <1>2. L33tEntropy(token, sub) = IF used = {} THEN 0 ELSE IF ways = 1 THEN Bit ELSE Lg(ways)
    BY DEF L33tEntropy, Count, Quantify
  <1> HIDE DEF at
  <1>3. \A c \in used : f[c] \in Positive
    BY <1>1, WaysType
  <1>4. IsFiniteSet(used)
    BY RangeOf, FS_Subset
  <1> HIDE DEF used, f
  <1>5. ways \in Nat /\ \A c \in used : f[c] <= ways
    <2>1. \A c \in used : f[c] \in Nat
      BY <1>3 DEF Positive
    <2> QED
      BY <1>4, <2>1, SumType, SumIsAtLeast
  <1>6. used # {} => ways >= 1
    BY <1>3, <1>5 DEF Positive
  <1> HIDE DEF ways
  <1>7. used # {} => Lg(ways) \in Nat
    BY <1>5, <1>6, LgOf
  <1> QED
    BY <1>2, <1>7, LgOf

LEMMA WordsMeantType ==
    ASSUME NEW C, NEW t \in Seq(C), NEW sub
    PROVE  WordsMeant(t, sub) \subseteq Matches
  <1> DEFINE e(s, rank) == Lg(rank) + UppercaseEntropy(Slice(t, s[1], s[2]))
                           + L33tEntropy(Slice(t, s[1], s[2]), sub)
             match(s, rank) == [pattern |-> "dictionary", i |-> s[1], j |-> s[2],
                                entropy |-> e(s, rank)]
  <1>1. \A m \in WordsMeant(t, sub) :
            \E s \in Spans(t), ranks \in Dictionaries : \E word \in DOMAIN ranks :
                m = match(s, ranks[word])
    BY DEF WordsMeant
  <1>2. ASSUME NEW s \in Spans(t), NEW rank \in Positive
        PROVE  match(s, rank) \in Matches
    <2>1. s[1] \in Nat /\ s[2] \in Nat /\ s[1] <= s[2] /\ s[2] < Len(t)
      BY SpanType
    <2>2. Slice(t, s[1], s[2]) \in Seq(C)
      BY <2>1, SliceType
    <2>3. Lg(rank) \in Nat
      BY LgType
    <2>4. e(s, rank) \in Nat
      BY <2>2, <2>3, UppercaseEntropyType, L33tEntropyType
    <2> HIDE DEF e
    <2> QED
      BY <2>1, <2>4, IsMatch DEF Patterns
  <1> HIDE DEF match
  <1> QED
    BY <1>1, <1>2, RankType

LEMMA DictionaryMatchesType ==
    ASSUME NEW C, NEW t \in Seq(C)
    PROVE  DictionaryMatches(t) \subseteq Matches
  BY WordsMeantType DEF DictionaryMatches

LEMMA OmnimatchType ==
    ASSUME NEW C, NEW t \in Seq(C)
    PROVE  Omnimatch(t) \in SUBSET Matches
  BY DictionaryMatchesType, DigitMatchesType, YearMatchesType, DateMatchesType,
     RepeatMatchesType, SequenceMatchesType, SpatialMatchesType DEF Omnimatch

-----------------------------------------------------------------------------
(* What disguises of a word may cost. *)

(* Capitals cost at most a bit for each character, capital and small letters being
   different ones; and nothing where there are none. *)
LEMMA UppercaseBound ==
    ASSUME NEW C, NEW token \in Seq(C)
    PROVE  /\ Len(token) \in 1 .. 30 => UppercaseEntropy(token) <= Bit * Len(token)
           /\ Range(token) \cap DOMAIN Upper = {} => UppercaseEntropy(token) = 0
  <1> DEFINE upper == {p \in DOMAIN token : IsUpper(token[p])}
             lower == {p \in DOMAIN token : IsLower(token[p])}
             capitals == Cardinality(upper)
             small == Cardinality(lower)
             n == Len(token)
             atAnEnd == n > 1 /\ capitals = 1 /\ (IsUpper(token[1]) \/ IsUpper(token[n]))
  <1>1. Count(token, IsUpper) = capitals /\ Count(token, IsLower) = small
    BY DEF Count, Quantify
  <1>2. upper \cap lower = {}
    BY CapitalsAreCapitals DEF IsUpper, IsLower
  <1>3. upper \subseteq DOMAIN token /\ lower \subseteq DOMAIN token
    OBVIOUS
  <1>4. Range(token) \cap DOMAIN Upper = {} => upper = {}
    BY DEF IsUpper, Range
  <1>5. UppercaseEntropy(token) =
            IF capitals = 0 THEN 0
            ELSE IF atAnEnd \/ small = 0 THEN Bit ELSE Lg(Ways(capitals, small))
    BY <1>1 DEF UppercaseEntropy
  <1> HIDE DEF upper, lower, atAnEnd
  <1>6. n \in Nat /\ DOMAIN token = 1 .. n /\ IsFiniteSet(DOMAIN token)
    <2>1. n \in Nat /\ DOMAIN token = 1 .. n
      BY LenProperties
    <2> HIDE DEF n
    <2> QED
      BY <2>1, FS_Interval
  <1>7. /\ capitals \in Nat /\ small \in Nat
        /\ capitals + small <= n
    <2>1. IsFiniteSet(upper) /\ IsFiniteSet(lower)
      BY <1>3, <1>6, FS_Subset
    <2>2. Cardinality(upper \cup lower) = capitals + small - Cardinality(upper \cap lower)
      BY <2>1, FS_Union
    <2>3. Cardinality(upper \cap lower) = 0
      BY <1>2, FS_EmptySet
    <2>4. upper \cup lower \subseteq DOMAIN token
      BY <1>3
    <2>5. Cardinality(upper \cup lower) \in 0 .. n
      BY <2>4, CountType
    <2>6. capitals \in Nat /\ small \in Nat
      BY <2>1, FS_CardinalityType
    <2> HIDE DEF capitals, small
    <2> QED
      BY <2>2, <2>3, <2>5, <2>6
  <1>8. upper = {} => capitals = 0
    BY FS_EmptySet
  <1>9. ASSUME n \in 1 .. 30
        PROVE  UppercaseEntropy(token) <= Bit * n
    <2> HIDE DEF capitals, small, n
    <2>1. Bit <= Bit * n /\ 0 <= Bit * n
      BY <1>9 DEF Bit
    <2>2. CASE capitals = 0 \/ atAnEnd \/ small = 0
      BY <1>5, <2>1, <2>2 DEF Bit
    <2>3. CASE capitals # 0
      <3> DEFINE k == capitals + small
      <3>1. k \in 1 .. 30 /\ k <= n
        BY <1>7, <1>9, <2>3
      <3>2. Ways(capitals, small) < 2 ^ k
        BY <1>7, <3>1, WaysBound
      <3>3. Ways(capitals, small) \in Positive
        BY <1>7, WaysType
      <3> HIDE DEF k
      <3>4. Lg(Ways(capitals, small)) \in Nat /\ Lg(Ways(capitals, small)) < Bit * k
        BY <3>1, <3>2, <3>3, LgType
      <3>5. Bit * k <= Bit * n
        BY <1>9, <3>1 DEF Bit
      <3>6. Lg(Ways(capitals, small)) <= Bit * n
        BY <1>9, <3>1, <3>4, <3>5 DEF Bit
      <3> QED
        BY <1>5, <2>1, <3>6
    <2> QED
      BY <2>2, <2>3
  <1> QED
    BY <1>4, <1>5, <1>8, <1>9

(* L33t costs at most a bit for each character, since the places of a l33t character
   and of the letter that it means are none of those of the other ones. *)
LEMMA L33tBound ==
    ASSUME NEW C, NEW token \in Seq(C), Len(token) \in 1 .. 30, NEW sub,
           \A c \in DOMAIN sub : sub[c] \notin DOMAIN sub,
           \A c, d \in DOMAIN sub : sub[c] = sub[d] => c = d
    PROVE  L33tEntropy(token, sub) <= Bit * Len(token)
  <1> DEFINE n == Len(token)
             used == DOMAIN sub \cap Range(token)
             at(c) == {p \in DOMAIN token : token[p] = c}
             f == [c \in used |-> Ways(Cardinality(at(c)), Cardinality(at(sub[c])))]
             ways == SumFunctionOnSet(f, used)
             places(T) == {p \in DOMAIN token : \E c \in T : token[p] = c \/ token[p] = sub[c]}
             size(T) == Cardinality(places(T))
             P == {T \in SUBSET used : SumFunctionOnSet(f, T) < 2 ^ size(T)}
  <1>1. L33tEntropy(token, sub) = IF used = {} THEN 0 ELSE IF ways = 1 THEN Bit ELSE Lg(ways)
    BY DEF L33tEntropy, Count, Quantify
  <1>2. IsFiniteSet(used)
    BY RangeOf, FS_Subset
  <1>3. n \in 1 .. 30 /\ DOMAIN token = 1 .. n /\ IsFiniteSet(DOMAIN token)
    <2>1. n \in 1 .. 30 /\ n \in Nat /\ DOMAIN token = 1 .. n
      BY LenProperties
    <2> HIDE DEF n
    <2>2. IsFiniteSet(1 .. n)
      BY <2>1, FS_Interval
    <2> QED
      BY <2>1, <2>2
  <1>4. \A S \in SUBSET DOMAIN token : IsFiniteSet(S) /\ Cardinality(S) \in 0 .. n
    <2> SUFFICES ASSUME NEW S \in SUBSET DOMAIN token
                 PROVE  IsFiniteSet(S) /\ Cardinality(S) \in 0 .. n
      OBVIOUS
    <2>1. IsFiniteSet(S)
      BY <1>3, FS_Subset
    <2>2. Cardinality(S) \in 0 .. Len(token)
      BY CountType
    <2> QED
      BY <2>1, <2>2
  <1>5. \A c : at(c) \in SUBSET DOMAIN token
    OBVIOUS
  <1>6. \A T : places(T) \in SUBSET DOMAIN token
    OBVIOUS
  <1>7. ASSUME NEW x \in used
        PROVE  /\ at(x) \cap at(sub[x]) = {}
               /\ at(x) # {}
               /\ places({x}) = at(x) \cup at(sub[x])
    BY DEF Range
  <1>8. ASSUME NEW x \in used, NEW T \in SUBSET used, x \in T
        PROVE  /\ places(T \ {x}) \cap places({x}) = {}
               /\ places(T) = places(T \ {x}) \cup places({x})
    <2>1. ASSUME NEW p \in places(T \ {x}), p \in places({x})
          PROVE  FALSE
      <3>1. PICK c \in T \ {x} : token[p] = c \/ token[p] = sub[c]
        OBVIOUS
      <3>2. token[p] = x \/ token[p] = sub[x]
        BY <2>1
      <3>3. c \in DOMAIN sub /\ x \in DOMAIN sub /\ c # x
        OBVIOUS
      <3> QED
        BY <3>1, <3>2, <3>3
    <2>2. places(T) = places(T \ {x}) \cup places({x})
      <3>1. \A c : c \in T <=> c \in T \ {x} \/ c \in {x}
        BY <1>8
      <3>2. ASSUME NEW p \in DOMAIN token
            PROVE  p \in places(T) <=> p \in places(T \ {x}) \/ p \in places({x})
        BY <3>1
      <3> QED
        BY <3>2
    <2> HIDE DEF places
    <2> QED
      BY <2>1, <2>2
  <1>9. \A c \in used : f[c] = Ways(Cardinality(at(c)), Cardinality(at(sub[c])))
    OBVIOUS
  <1>10. places({}) = {}
    OBVIOUS
  <1> HIDE DEF n, used, at, f, places
  <1>11. ASSUME NEW x \in used
         PROVE  f[x] \in Nat /\ size({x}) \in 1 .. n /\ f[x] < 2 ^ size({x})
    <2> DEFINE a == at(x)
               b == at(sub[x])
               i == Cardinality(a)
               j == Cardinality(b)
    <2>1. IsFiniteSet(a) /\ IsFiniteSet(b) /\ i \in 0 .. n /\ j \in 0 .. n /\ n \in Nat
      BY <1>3, <1>4, <1>5
    <2>2. Cardinality(a \cup b) = i + j - Cardinality(a \cap b)
      BY <2>1, FS_Union
    <2>3. Cardinality(a \cap b) = 0
      BY <1>7, FS_EmptySet
    <2>4. i # 0
      BY <1>7, <2>1, FS_EmptySet
    <2>5. size({x}) \in 0 .. n /\ size({x}) = Cardinality(a \cup b)
      BY <1>4, <1>6, <1>7
    <2> HIDE DEF i, j, a, b, size
    <2>6. i \in Nat /\ j \in Nat /\ i + j \in 1 .. 30 /\ size({x}) = i + j
      BY <1>3, <2>1, <2>2, <2>3, <2>4, <2>5
    <2>7. Ways(i, j) < 2 ^ (i + j) /\ Ways(i, j) \in Positive
      BY <2>6, WaysBound, WaysType
    <2>8. f[x] = Ways(i, j)
      BY <1>9 DEF i, j, a, b
    <2>9. size({x}) \in 1 .. n
      BY <1>3, <2>5, <2>6
    <2> QED
      BY <2>6, <2>7, <2>8, <2>9 DEF Positive
  <1>12. \A T \in SUBSET used : IsFiniteSet(T) /\ SumFunctionOnSet(f, T) \in Nat
    <2> SUFFICES ASSUME NEW T \in SUBSET used
                 PROVE  IsFiniteSet(T) /\ SumFunctionOnSet(f, T) \in Nat
      OBVIOUS
    <2>1. IsFiniteSet(T) /\ \A x \in T : f[x] \in Nat
      BY <1>2, <1>11, FS_Subset
    <2> QED
      BY <2>1, SumType
  <1>13. {} \in P
    <2>1. SumFunctionOnSet(f, {}) = 0 /\ size({}) = 0 /\ 2 ^ 0 = 1
      BY <1>10, SumOfNone, FS_EmptySet, PowersOfTwo
    <2>2. SumFunctionOnSet(f, {}) < 2 ^ size({})
      <3>1. 2 ^ size({}) = 1
        BY <2>1, Zenon
      <3> QED
        BY <2>1, <3>1
    <2> QED
      BY <2>2
  <1>14. ASSUME NEW T \in SUBSET used, T # {}, \A x \in T : T \ {x} \in P
         PROVE  T \in P
    <2>1. PICK x \in T : TRUE
      BY <1>14
    <2> DEFINE U == T \ {x}
               u == size(U)
               v == size({x})
    <2>2. U \in SUBSET used /\ SumFunctionOnSet(f, U) < 2 ^ u /\ x \in used
      BY <1>14, <2>1
    <2>3. SumFunctionOnSet(f, T) = f[x] + SumFunctionOnSet(f, U)
      <3>1. \A y \in T : f[y] \in Nat
        BY <1>11
      <3> QED
        BY <1>12, <3>1, SumWithout
    <2>4. /\ IsFiniteSet(places(U)) /\ IsFiniteSet(places({x}))
          /\ u \in 0 .. n /\ size(T) \in 0 .. n
      BY <1>4, <1>6
    <2>5. size(T) = u + v
      <3>1. places(T) = places(U) \cup places({x}) /\ places(U) \cap places({x}) = {}
        BY <1>8, <2>2
      <3>2. Cardinality(places(U) \cup places({x}))
                = u + v - Cardinality(places(U) \cap places({x}))
        BY <2>4, FS_Union
      <3>3. Cardinality(places(U) \cap places({x})) = 0
        BY <3>1, FS_EmptySet
      <3>4. u \in 0 .. n /\ v \in 0 .. n /\ n \in Nat
        BY <1>3, <1>4, <1>6
      <3>5. size(T) = u + v - 0
        BY <3>1, <3>2, <3>3
      <3> HIDE DEF size
      <3> QED
        BY <3>4, <3>5
    <2>6. v \in 1 .. n /\ f[x] \in Nat /\ f[x] < 2 ^ v
      BY <1>11, <2>2
    <2>7. SumFunctionOnSet(f, U) \in Nat
      BY <1>12, <2>2
    <2> DEFINE s == SumFunctionOnSet(f, U)
               y == f[x]
               a == 2 ^ u
               b == 2 ^ v
    <2> HIDE DEF u, v, U, size, P
    <2>8. u \in Nat /\ v \in Nat /\ u + v <= 31 /\ u \in 0 .. 31 /\ v \in 0 .. 31
      BY <1>3, <2>4, <2>5, <2>6
    <2>9. 2 ^ (u + v) = a * b
      BY <2>8, PowerOfSum, Zenon
    <2>10. a \in Positive /\ b \in Positive
      BY <2>8, PowersOfTwo, Zenon
    <2>11. s < a /\ y < b /\ s \in Nat /\ y \in Nat
      BY <2>2, <2>6, <2>7
    <2> HIDE DEF a, b, s, y
    <2>12. s + y < a * b /\ s + y = y + s
      BY <2>10, <2>11, SumBelowProduct
    <2>13. y + s < 2 ^ (u + v)
      BY <2>9, <2>12
    <2>14. SumFunctionOnSet(f, T) < 2 ^ size(T)
      BY <2>3, <2>5, <2>13 DEF s, y
    <2> QED
      BY <2>14 DEF P
  <1>15. used \in P
    <2> HIDE DEF P
    <2> QED
      BY <1>2, <1>13, <1>14, SubsetInduction
  <1>16. Bit * n \in Nat /\ Bit <= Bit * n
    BY <1>3 DEF Bit
  <1>17. ASSUME used # {}, ways # 1
         PROVE  Lg(ways) <= Bit * n
    <2> DEFINE k == size(used)
    <2>1. k \in 0 .. n /\ ways < 2 ^ k /\ ways \in Nat
      BY <1>4, <1>6, <1>12, <1>15
    <2>2. ways >= 1
      <3>1. PICK x \in used : TRUE
        BY <1>17
      <3>2. f[x] >= 1
        <4>1. \A c : Cardinality(at(c)) \in Nat
          BY <1>3, <1>4, <1>5
        <4>2. f[x] \in Positive
          BY <1>9, <4>1, WaysType
        <4> QED
          BY <4>2 DEF Positive
      <3>3. f[x] <= ways /\ f[x] \in Nat
        BY <1>2, <1>11, SumIsAtLeast
      <3> HIDE DEF ways
      <3> QED
        BY <2>1, <3>2, <3>3
    <2>3. k \in 1 .. 30
      <3>1. k # 0
        <4> SUFFICES ASSUME k = 0 PROVE FALSE
          OBVIOUS
        <4>1. 2 ^ k = 1
          BY PowersOfTwo, Zenon
        <4> HIDE DEF k, ways
        <4> QED
          BY <2>1, <2>2, <4>1
      <3> HIDE DEF k
      <3> QED
        BY <1>3, <2>1, <3>1
    <2> HIDE DEF k, ways
    <2>4. ways \in Positive
      BY <2>1, <2>2 DEF Positive
    <2>5. Lg(ways) \in Nat /\ Lg(ways) < Bit * k
      BY <2>1, <2>3, <2>4, LgType
    <2>6. Bit * k <= Bit * n /\ Bit * k \in Nat
      BY <1>3, <2>1 DEF Bit
    <2> QED
      BY <1>16, <2>5, <2>6
  <1> HIDE DEF ways
  <1>18. L33tEntropy(token, sub) <= Bit * n
    BY <1>1, <1>16, <1>17 DEF Bit
  <1> QED
    BY <1>18 DEF n

-----------------------------------------------------------------------------
(* The substitutions that are tried for l33t characters. *)

(* Substitutions: functions from some of the l33t characters to letters. *)
Letters == {entry[1] : entry \in Range(Leet)}

PartialSubs == UNION {[T -> Letters] : T \in SUBSET LeetCharacters}

(* The table of l33t characters, which has 12 entries. *)
LEMMA LeetEntries ==
    /\ Len(Leet) = 12 /\ DOMAIN Leet = 1 .. 12
    /\ \A k \in 1 .. 12 : Leet[k][1] \in Letters /\ Leet[k][2] \subseteq LeetCharacters
    /\ \A c \in LeetCharacters : \E k \in 1 .. 12 : c \in Leet[k][2]
  <1>1. Len(Leet) = 12 /\ DOMAIN Leet = 1 .. 12
    BY DEF Leet
  <1>2. Range(Leet) = {Leet[k] : k \in 1 .. 12}
    BY <1>1 DEF Range
  <1> QED
    BY <1>1, <1>2 DEF Letters, LeetCharacters

LEMMA TakenIs ==
    ASSUME NEW sub, NEW c, NEW letter
    PROVE  /\ DOMAIN Taken(sub, c, letter) = {c} \cup DOMAIN sub
           /\ Taken(sub, c, letter)[c] = letter
           /\ \A d \in DOMAIN sub : d # c => Taken(sub, c, letter)[d] = sub[d]
           /\ Taken(sub, c, letter) \in Extensions(sub, c, letter)
BY DEF Taken, Extensions

LEMMA ExtensionsType ==
    ASSUME NEW sub \in PartialSubs, NEW c \in LeetCharacters, NEW letter \in Letters
    PROVE  Extensions(sub, c, letter) \subseteq PartialSubs
  <1>1. PICK T \in SUBSET LeetCharacters : sub \in [T -> Letters]
    BY DEF PartialSubs
  <1>2. Taken(sub, c, letter) \in [{c} \cup T -> Letters]
    BY <1>1 DEF Taken
  <1>3. {c} \cup T \in SUBSET LeetCharacters
    OBVIOUS
  <1>4. Taken(sub, c, letter) \in PartialSubs
    BY <1>2, <1>3 DEF PartialSubs
  <1> QED
    BY <1>4 DEF Extensions

(* The recursion of Subs, entry by entry of the table. *)
UsedOf(t, k) == Leet[k][2] \cap Range(t)

MoreSubs(t, k, subs) ==
    IF UsedOf(t, k) = {} THEN subs
    ELSE UNION {Extensions(sub, c, Leet[k][1]) : sub \in subs, c \in UsedOf(t, k)}

SubsUpTo(t, h) ==
    /\ h[0] = {<<>>}
    /\ \A k \in 1 .. 12 : h[k] = MoreSubs(t, k, h[k - 1])

LEMMA SubsAre ==
    ASSUME NEW t
    PROVE  \E h : Subs(t) = h[12] /\ SubsUpTo(t, h)
  <1> DEFINE Solves(h) ==
                 h = [k \in 0 .. 12 |-> IF k = 0 THEN {<<>>} ELSE MoreSubs(t, k, h[k - 1])]
             V == SUBSET PartialSubs
             step == [x \in Nat \X V |->
                         IF x[1] \in 1 .. 12 THEN MoreSubs(t, x[1], x[2]) ELSE {}]
             after == CHOOSE h : Solves(h)
  <1>1. ASSUME NEW k \in 1 .. 12, NEW subs \in V
        PROVE  MoreSubs(t, k, subs) \in V
    <2>1. ASSUME NEW sub \in subs, NEW c \in UsedOf(t, k)
          PROVE  Extensions(sub, c, Leet[k][1]) \subseteq PartialSubs
      BY LeetEntries, ExtensionsType DEF UsedOf
    <2> QED
      BY <2>1 DEF MoreSubs
  <1>2. {<<>>} \in V
    <2>1. <<>> \in [{} -> Letters] /\ {} \in SUBSET LeetCharacters
      OBVIOUS
    <2>2. <<>> \in PartialSubs
      BY <2>1 DEF PartialSubs
    <2> QED
      BY <2>2
  <1>3. Subs(t) = after[12]
    BY LeetEntries DEF Subs, MoreSubs, UsedOf
  <1> HIDE DEF V
  <1>4. step \in [Nat \X V -> V]
    <2>1. {} \in V
      BY DEF V
    <2> QED
      BY <1>1, <2>1
  <1>5. \A k \in 1 .. 12 : \A subs \in V : step[<<k, subs>>] = MoreSubs(t, k, subs)
    OBVIOUS
  <1> HIDE DEF step
  <1>6. PICK h : Recurses(h, 0 .. 12, V, {<<>>}, step)
    BY <1>2, <1>4, RecursionUpTo
  <1>7. Solves(h)
    <2>1. ASSUME NEW k \in 0 .. 12
          PROVE  h[k] = IF k = 0 THEN {<<>>} ELSE MoreSubs(t, k, h[k - 1])
      <3>1. k # 0 => k \in 1 .. 12 /\ k - 1 \in 0 .. 12
        OBVIOUS
      <3>2. k # 0 => h[k - 1] \in V
        BY <1>6, <3>1 DEF Recurses
      <3>3. h[k] = IF k = 0 THEN {<<>>} ELSE step[<<k, h[k - 1]>>]
        BY <1>6 DEF Recurses
      <3> QED
        BY <1>5, <3>1, <3>2, <3>3
    <2>2. h = [k \in 0 .. 12 |-> h[k]]
      BY <1>6 DEF Recurses
    <2> QED
      BY <2>1, <2>2
  <1>8. Solves(after)
    <2> HIDE DEF Solves
    <2> QED
      BY <1>7
  <1> HIDE DEF after
  <1>9. \A k \in 0 .. 12 : after[k] = IF k = 0 THEN {<<>>} ELSE MoreSubs(t, k, after[k - 1])
    BY <1>8
  <1>10. after[0] = {<<>>}
    BY <1>9
  <1>11. \A k \in 1 .. 12 : after[k] = MoreSubs(t, k, after[k - 1])
    BY <1>9
  <1> QED
    BY <1>3, <1>10, <1>11 DEF SubsUpTo

(* For each l33t character of the text, by its number an entry of the table that has
   it; for each another letter. *)
ChoosesEntries(t, e) ==
    /\ e \in [LeetCharacters \cap Range(t) -> 1 .. 12]
    /\ \A c \in DOMAIN e : c \in Leet[e[c]][2]
    /\ \A c, d \in DOMAIN e : Leet[e[c]][1] = Leet[e[d]][1] => c = d

FollowsEntries(sub, e) ==
    /\ DOMAIN sub = DOMAIN e
    /\ \A c \in DOMAIN e : sub[c] = Leet[e[c]][1]

(* Among the substitutions that are tried, there is one for each such choice. *)
LEMMA LeetIsTried ==
    ASSUME NEW t, NEW e, ChoosesEntries(t, e)
    PROVE  \E sub \in Subs(t) : FollowsEntries(sub, e)
  <1> DEFINE D == LeetCharacters \cap Range(t)
  <1>1. /\ e \in [D -> 1 .. 12] /\ DOMAIN e = D
        /\ \A c \in D : c \in Leet[e[c]][2]
        /\ \A c, d \in D : Leet[e[c]][1] = Leet[e[d]][1] => c = d
    BY DEF ChoosesEntries
  <1> DEFINE letter(c) == Leet[e[c]][1]
             Fits(sub, k) == /\ DOMAIN sub \subseteq D
                             /\ \A c \in D : e[c] <= k => c \in DOMAIN sub /\ sub[c] = letter(c)
  <1>2. PICK h : Subs(t) = h[12] /\ SubsUpTo(t, h)
    BY SubsAre
  <1>3. /\ Subs(t) = h[12]
        /\ h[0] = {<<>>}
        /\ \A k \in 1 .. 12 : h[k] = MoreSubs(t, k, h[k - 1])
    BY <1>2 DEF SubsUpTo
  <1>4. \A k \in 1 .. 12 : UsedOf(t, k) \subseteq D
    BY LeetEntries DEF UsedOf, D
  <1>5. \A c \in D : e[c] \in 1 .. 12 /\ c \in UsedOf(t, e[c])
    BY <1>1 DEF UsedOf
  <1>6. \A c, d \in D : letter(c) = letter(d) => c = d
    BY <1>1
  <1>7. \A c \in D : letter(c) = Leet[e[c]][1]
    OBVIOUS
  <1> HIDE DEF letter, D
  <1> DEFINE P == {k \in Nat : k <= 12 => \E sub \in h[k] : Fits(sub, k)}
  <1>8. 0 \in P
    <2>1. <<>> \in h[0] /\ DOMAIN <<>> = {}
      BY <1>3
    <2>2. Fits(<<>>, 0)
      BY <1>5, <2>1
    <2> HIDE DEF Fits
    <2> QED
      BY <2>1, <2>2
  <1>9. ASSUME NEW j \in Nat, j \in P
        PROVE  j + 1 \in P
    <2> SUFFICES ASSUME j + 1 <= 12 PROVE \E sub \in h[j + 1] : Fits(sub, j + 1)
      OBVIOUS
    <2> DEFINE k == j + 1
    <2>1. k \in 1 .. 12 /\ k - 1 = j /\ j <= 12
      OBVIOUS
    <2>2. PICK sub \in h[j] : Fits(sub, j)
      BY <1>9, <2>1
    <2>3. \A c \in D : e[c] <= k <=> e[c] <= j \/ e[c] = k
      BY <1>5
    <2> HIDE DEF k, P
    <2>4. CASE UsedOf(t, k) = {}
      <3>1. \A c \in D : e[c] # k
        BY <1>5, <2>4
      <3>2. h[k] = h[j]
        BY <1>3, <2>1, <2>4 DEF MoreSubs
      <3>3. Fits(sub, k)
        BY <2>2, <2>3, <3>1
      <3> HIDE DEF Fits
      <3> QED
        BY <2>2, <3>2, <3>3 DEF k
    <2>5. CASE UsedOf(t, k) # {}
      <3>1. ASSUME NEW c \in UsedOf(t, k), NEW s \in Extensions(sub, c, Leet[k][1])
            PROVE  s \in h[k]
        BY <1>3, <2>1, <2>2, <2>5 DEF MoreSubs
      <3>2. ASSUME NEW c \in UsedOf(t, k), e[c] = k
            PROVE  \E s \in h[k] : Fits(s, k)
        <4> DEFINE s == Taken(sub, c, Leet[k][1])
        <4>1. /\ DOMAIN s = {c} \cup DOMAIN sub
              /\ s[c] = Leet[k][1]
              /\ \A d \in DOMAIN sub : d # c => s[d] = sub[d]
              /\ s \in Extensions(sub, c, Leet[k][1])
          BY TakenIs
        <4> HIDE DEF s
        <4>2. c \in D /\ letter(c) = Leet[k][1]
          BY <1>4, <1>7, <2>1, <3>2
        <4>3. \A d \in D : e[d] = k => d = c
          BY <1>6, <1>7, <4>2
        <4>4. Fits(s, k)
          BY <2>2, <2>3, <4>1, <4>2, <4>3
        <4>5. s \in h[k]
          BY <3>1, <4>1
        <4> HIDE DEF Fits
        <4> QED
          BY <4>4, <4>5
      <3>3. ASSUME \A c \in UsedOf(t, k) : e[c] # k
            PROVE  \E s \in h[k] : Fits(s, k)
        <4>1. PICK c \in UsedOf(t, k) : TRUE
          BY <2>5
        <4>2. \A d \in D : e[d] # k
          BY <1>5, <3>3
        <4>3. c \in D
          BY <1>4, <2>1
        <4>4. CASE c \in DOMAIN sub
          <5>1. sub \in Extensions(sub, c, Leet[k][1])
            BY <4>4 DEF Extensions
          <5>2. Fits(sub, k)
            BY <2>2, <2>3, <4>2
          <5>3. sub \in h[k]
            BY <3>1, <5>1
          <5> HIDE DEF Fits
          <5> QED
            BY <5>2, <5>3
        <4>5. CASE c \notin DOMAIN sub
          <5> DEFINE s == Taken(sub, c, Leet[k][1])
          <5>1. /\ DOMAIN s = {c} \cup DOMAIN sub
                /\ s[c] = Leet[k][1]
                /\ \A d \in DOMAIN sub : d # c => s[d] = sub[d]
                /\ s \in Extensions(sub, c, Leet[k][1])
            BY TakenIs
          <5> HIDE DEF s
          <5>2. Fits(s, k)
            BY <2>2, <2>3, <4>2, <4>3, <4>5, <5>1
          <5>3. s \in h[k]
            BY <3>1, <5>1
          <5> HIDE DEF Fits
          <5> QED
            BY <5>2, <5>3
        <4> QED
          BY <4>4, <4>5
      <3> HIDE DEF Fits
      <3> QED
        BY <3>2, <3>3 DEF k
    <2> QED
      BY <2>4, <2>5
  <1>10. 12 \in P
    <2> HIDE DEF P
    <2> QED
      BY <1>8, <1>9, SetInduction
  <1>11. PICK sub \in h[12] : Fits(sub, 12)
    BY <1>10
  <1>12. \A c \in D : c \in DOMAIN sub /\ sub[c] = letter(c)
    BY <1>5, <1>11
  <1>13. DOMAIN sub = D
    BY <1>11, <1>12
  <1> QED
    BY <1>1, <1>3, <1>11, <1>12, <1>13 DEF letter, FollowsEntries

-----------------------------------------------------------------------------
(* Texts that read as a word, and how they are found. *)

(* What a text and a word have to do with each other if the text reads as the word,
   with the table's entries by their numbers. *)
MeansLetter(t, word, p) ==
    \/ t[p] = word[p]
    \/ t[p] \in DOMAIN SmallLetter /\ SmallLetter[t[p]] = word[p]

Disguised(t, word) == {p \in DOMAIN t : ~MeansLetter(t, word, p)}

Reads(t, word) ==
    /\ Len(t) = Len(word)
    /\ \A p \in Disguised(t, word) :
           \E k \in 1 .. 12 : Leet[k][1] = word[p] /\ t[p] \in Leet[k][2]
    /\ \A p, q \in Disguised(t, word) : t[p] = t[q] <=> word[p] = word[q]
    /\ Disguised(t, word) # {} => Range(word) \cap LeetCharacters = {}

IsWord(word) ==
    /\ Len(word) \in Positive
    /\ word \in Seq(Range(word))
    /\ \A p \in 1 .. Len(word) : ~IsUpper(word[p])

(* What ReadsAs says of the text of the field. *)
LEMMA ReadsAsIs ==
    ASSUME NEW word, ReadsAs(word)
    PROVE  Reads(text, word)
  <1>1. /\ Len(text) = Len(word)
        /\ \A p \in Disguised(text, word) :
               \E entry \in Range(Leet) : entry[1] = word[p] /\ text[p] \in entry[2]
        /\ \A p, q \in Disguised(text, word) : text[p] = text[q] <=> word[p] = word[q]
        /\ Disguised(text, word) # {} => Range(word) \cap LeetCharacters = {}
    BY DEF ReadsAs, Disguised, MeansLetter
  <1>2. Range(Leet) = {Leet[k] : k \in 1 .. 12}
    BY LeetEntries DEF Range
  <1>3. \A p \in Disguised(text, word) :
            \E k \in 1 .. 12 : Leet[k][1] = word[p] /\ text[p] \in Leet[k][2]
    <2> SUFFICES ASSUME NEW p \in Disguised(text, word)
                 PROVE  \E k \in 1 .. 12 : Leet[k][1] = word[p] /\ text[p] \in Leet[k][2]
      OBVIOUS
    <2>1. PICK entry \in Range(Leet) : entry[1] = word[p] /\ text[p] \in entry[2]
      BY <1>1
    <2>2. PICK k \in 1 .. 12 : entry = Leet[k]
      BY <1>2, <2>1
    <2> QED
      BY <2>1, <2>2
  <1> QED
    BY <1>1, <1>3 DEF Reads

(* The words of the lists are sequences without capitals. *)
LEMMA ListedIsWord ==
    ASSUME NEW ranks \in Dictionaries, NEW word \in DOMAIN ranks
    PROVE  IsWord(word)
  <1>1. /\ Len(word) \in Positive /\ DOMAIN word = 1 .. Len(word)
        /\ \A p \in DOMAIN word : ~IsUpper(word[p])
    BY WordsAreInSmallLetters DEF Positive
  <1>2. PICK list : ranks = Ranks(list)
    BY DEF Dictionaries
  <1>3. PICK string : word = Chars(string)
    BY <1>2 DEF Ranks
  <1>4. word = [p \in 1 .. Len(string) |-> SubSeq(string, p, p)]
    BY <1>3 DEF Chars
  <1>5. word = [p \in DOMAIN word |-> word[p]]
    BY <1>4
  <1>6. \A p \in DOMAIN word : word[p] \in Range(word)
    BY DEF Range
  <1>7. word \in [1 .. Len(word) -> Range(word)]
    BY <1>1, <1>5, <1>6
  <1>8. Len(word) \in Nat
    BY <1>1 DEF Positive
  <1>9. word \in Seq(Range(word))
    BY <1>7, <1>8, SeqDef
  <1> QED
    BY <1>1, <1>9 DEF IsWord

LEMMA SmallLetters == DOMAIN SmallLetter = DOMAIN Upper
  BY DEF SmallLetter

(* Lower case makes a text the word, if it does so with each character. *)
LEMMA LowerCaseIs ==
    ASSUME NEW t, NEW word, IsWord(word), DOMAIN t = 1 .. Len(word),
           \A p \in DOMAIN t : MeansLetter(t, word, p)
    PROVE  LowerCase(t) = word
  <1>1. word \in [1 .. Len(word) -> Range(word)] /\ \A p \in 1 .. Len(word) : ~IsUpper(word[p])
    BY LenProperties DEF IsWord
  <1>2. ASSUME NEW p \in DOMAIN t
        PROVE  (IF IsUpper(t[p]) THEN SmallLetter[t[p]] ELSE t[p]) = word[p]
    <2>1. ~IsUpper(word[p]) /\ MeansLetter(t, word, p)
      BY <1>1
    <2>2. t[p] \in DOMAIN SmallLetter <=> IsUpper(t[p])
      BY SmallLetters DEF IsUpper
    <2> QED
      BY <2>1, <2>2 DEF MeansLetter
  <1>3. word = [p \in 1 .. Len(word) |-> word[p]]
    BY <1>1
  <1>4. LowerCase(t) = [p \in DOMAIN t |-> word[p]]
    BY <1>2 DEF LowerCase
  <1> QED
    BY <1>3, <1>4

(* A text that reads as a word in disguise: the substitution that takes each l33t
   character to the letter in its place is tried, and gives the word.  No capital is a
   l33t character, and the word has none itself, so all of them are disguises. *)
LEMMA DisguiseIsTried ==
    ASSUME NEW C, NEW t \in Seq(C), NEW word, IsWord(word), Reads(t, word),
           Disguised(t, word) # {}
    PROVE  \E sub \in Subs(t) :
               /\ DOMAIN sub = LeetCharacters \cap Range(t)
               /\ LowerCase(Translate(t, sub)) = word
               /\ LowerCase(t) # word
               /\ \A c \in DOMAIN sub : sub[c] \notin DOMAIN sub
               /\ \A c, d \in DOMAIN sub : sub[c] = sub[d] => c = d
  <1> DEFINE D == LeetCharacters \cap Range(t)
             place(c) == CHOOSE p \in DOMAIN t : t[p] = c
             entry(c) == CHOOSE k \in 1 .. 12 : Leet[k][1] = word[place(c)] /\ c \in Leet[k][2]
             e == [c \in D |-> entry(c)]
  <1>1. /\ DOMAIN t = 1 .. Len(word) /\ DOMAIN word = 1 .. Len(word)
        /\ \A p \in 1 .. Len(word) : ~IsUpper(word[p])
    BY LenProperties DEF Reads, IsWord
  <1>2. \A p \in DOMAIN t : word[p] \notin LeetCharacters
    BY <1>1 DEF Reads, Range
  <1>3. \A c \in LeetCharacters : ~IsUpper(c)
    BY CapitalsAreCapitals DEF IsUpper
  <1>4. \A p \in DOMAIN t : t[p] \in LeetCharacters <=> p \in Disguised(t, word)
    <2>1. ASSUME NEW p \in DOMAIN t, t[p] \in LeetCharacters
          PROVE  ~MeansLetter(t, word, p)
      <3>1. t[p] # word[p]
        BY <1>2, <2>1
      <3>2. t[p] \notin DOMAIN SmallLetter
        BY <1>3, <2>1, SmallLetters DEF IsUpper
      <3> QED
        BY <3>1, <3>2 DEF MeansLetter
    <2>2. ASSUME NEW p \in Disguised(t, word)
          PROVE  t[p] \in LeetCharacters
      BY LeetEntries DEF Reads
    <2> QED
      BY <2>1, <2>2 DEF Disguised
  <1>5. \A c \in D : place(c) \in DOMAIN t /\ t[place(c)] = c
    BY DEF Range
  <1>6. \A p \in DOMAIN t : t[p] \in Range(t)
    BY DEF Range
  <1> HIDE DEF place
  <1>7. ASSUME NEW c \in D
        PROVE  e[c] \in 1 .. 12 /\ Leet[e[c]][1] = word[place(c)] /\ c \in Leet[e[c]][2]
    <2>1. place(c) \in Disguised(t, word) /\ t[place(c)] = c
      BY <1>4, <1>5
    <2>2. \E k \in 1 .. 12 : Leet[k][1] = word[place(c)] /\ c \in Leet[k][2]
      BY <2>1 DEF Reads
    <2> QED
      BY <2>2
  <1>8. e \in [D -> 1 .. 12]
    <2>1. \A c \in D : entry(c) \in 1 .. 12
      BY <1>7
    <2> HIDE DEF entry, D
    <2> QED
      BY <2>1
  <1>9. \A c, d \in D : word[place(c)] = word[place(d)] => c = d
    BY <1>4, <1>5 DEF Reads
  <1>10. ASSUME NEW p \in DOMAIN t, t[p] \in D
         PROVE  word[place(t[p])] = word[p]
    BY <1>4, <1>5, <1>10 DEF Reads
  <1> HIDE DEF e
  <1>11. PICK sub \in Subs(t) : DOMAIN sub = D /\ \A c \in D : sub[c] = Leet[e[c]][1]
    <2>1. ChoosesEntries(t, e)
      BY <1>7, <1>8, <1>9 DEF ChoosesEntries
    <2>2. PICK sub \in Subs(t) : FollowsEntries(sub, e)
      BY <2>1, LeetIsTried
    <2> QED
      BY <1>8, <2>2 DEF FollowsEntries
  <1>12. \A c \in D : sub[c] = word[place(c)]
    BY <1>7, <1>11
  <1>13. LowerCase(Translate(t, sub)) = word
    <2> DEFINE meant == Translate(t, sub)
    <2>1. DOMAIN meant = DOMAIN t
      BY DEF Translate
    <2>2. ASSUME NEW p \in DOMAIN t
          PROVE  MeansLetter(meant, word, p)
      <3>1. CASE t[p] \in D
        <4>1. meant[p] = sub[t[p]] /\ sub[t[p]] = word[p]
          BY <1>10, <1>11, <1>12, <3>1 DEF Translate
        <4> QED
          BY <4>1 DEF MeansLetter
      <3>2. CASE t[p] \notin D
        <4>1. meant[p] = t[p]
          BY <1>11, <3>2 DEF Translate
        <4>2. MeansLetter(t, word, p)
          BY <1>4, <1>6, <3>2 DEF Disguised
        <4> QED
          BY <4>1, <4>2 DEF MeansLetter
      <3> QED
        BY <3>1, <3>2
    <2> HIDE DEF meant
    <2> QED
      BY <1>1, <2>1, <2>2, LowerCaseIs DEF meant
  <1>14. LowerCase(t) # word
    <2>1. PICK p \in DOMAIN t : ~MeansLetter(t, word, p) /\ ~IsUpper(t[p])
      BY <1>3, <1>4 DEF Disguised
    <2>2. LowerCase(t)[p] = t[p]
      BY <2>1 DEF LowerCase
    <2> QED
      BY <2>1, <2>2 DEF MeansLetter
  <1>15. \A c \in D : sub[c] \notin D
    BY <1>2, <1>5, <1>12
  <1>16. \A c, d \in D : sub[c] = sub[d] => c = d
    BY <1>9, <1>12
  <1> QED
    BY <1>11, <1>13, <1>14, <1>15, <1>16

(* Slices from end to end. *)
LEMMA LowerCaseIsText ==
    ASSUME NEW C, NEW t \in Seq(C)
    PROVE  \E E : LowerCase(t) \in Seq(E) /\ Len(LowerCase(t)) = Len(t)
  <1> DEFINE n == Len(t)
             s == LowerCase(t)
  <1>1. n \in Nat /\ DOMAIN t = 1 .. n
    BY LenProperties
  <1>2. s = [p \in 1 .. n |-> s[p]] /\ DOMAIN s = 1 .. n
    BY <1>1 DEF LowerCase
  <1> HIDE DEF s, n
  <1>3. s \in [1 .. n -> Range(s)]
    BY <1>2 DEF Range
  <1>4. s \in Seq(Range(s))
    BY <1>1, <1>3, SeqDef
  <1>5. Len(s) = n
    BY <1>1, <1>2, <1>4, LenProperties
  <1> QED
    BY <1>4, <1>5 DEF s, n

LEMMA WholeSlice ==
    ASSUME NEW E, NEW s \in Seq(E)
    PROVE  Slice(s, 0, Len(s) - 1) = s
  <1>1. Len(s) \in Nat /\ Len(s) - 1 + 1 = Len(s)
    BY LenProperties
  <1>2. SubSeq(s, 1, Len(s)) = s
    BY SubSeqProperties, LenProperties
  <1> QED
    BY <1>1, <1>2 DEF Slice

(* A text that as a whole means a word is found in the lists. *)
WholeMatch(t, sub, rank) ==
    [pattern |-> "dictionary", i |-> 0, j |-> Len(t) - 1,
     entropy |-> Lg(rank) + UppercaseEntropy(t) + L33tEntropy(t, sub)]

LEMMA WholeIsMeant ==
    ASSUME NEW C, NEW t \in Seq(C), NEW ranks \in Dictionaries, NEW word \in DOMAIN ranks,
           Len(t) = Len(word), NEW sub, LowerCase(Translate(t, sub)) = word,
           sub = <<>> \/ LowerCase(t) # word
    PROVE  WholeMatch(t, sub, ranks[word]) \in WordsMeant(t, sub)
  <1> DEFINE n == Len(t)
             s == <<0, n - 1>>
             meant == LowerCase(Translate(t, sub))
             plain == LowerCase(t)
             inL33t(x) == sub = <<>> \/ Slice(plain, x[1], x[2]) # Slice(meant, x[1], x[2])
             entropy(token, rank) ==
                 Lg(rank) + UppercaseEntropy(token) + L33tEntropy(token, sub)
             match(x, rank) == [pattern |-> "dictionary", i |-> x[1], j |-> x[2],
                                entropy |-> entropy(Slice(t, x[1], x[2]), rank)]
             found(x) == {match(x, r[Slice(meant, x[1], x[2])]) :
                             r \in {q \in Dictionaries : Slice(meant, x[1], x[2]) \in DOMAIN q}}
  <1>1. n \in Positive /\ word \in Seq(Range(word))
    BY ListedIsWord DEF IsWord
  <1>2. s \in Spans(t) /\ s[1] = 0 /\ s[2] = n - 1
    BY <1>1 DEF Spans, Positions, Positive
  <1>3. Slice(t, 0, n - 1) = t
    BY WholeSlice
  <1>4. Slice(meant, 0, n - 1) = word
    BY <1>1, WholeSlice
  <1>5. Slice(plain, 0, n - 1) = plain
    BY LowerCaseIsText, WholeSlice
  <1>6. inL33t(s)
    BY <1>2, <1>4, <1>5
  <1>7. WordsMeant(t, sub) = UNION {found(x) : x \in {y \in Spans(t) : inL33t(y)}}
    BY DEF WordsMeant
  <1> HIDE DEF inL33t
  <1>8. found(s) \subseteq WordsMeant(t, sub)
    BY <1>2, <1>6, <1>7
  <1>9. match(s, ranks[word]) \in found(s)
    BY <1>2, <1>4
  <1>10. match(s, ranks[word]) = WholeMatch(t, sub, ranks[word])
    BY <1>2, <1>3 DEF WholeMatch
  <1> HIDE DEF found, match
  <1> QED
    BY <1>8, <1>9, <1>10

(* So a text that reads as a word has a match from end to end, by a substitution whose
   cost L33tBound bounds. *)
LEMMA WordIsFound ==
    ASSUME NEW C, NEW t \in Seq(C), NEW ranks \in Dictionaries, NEW word \in DOMAIN ranks,
           Reads(t, word)
    PROVE  \E sub :
               /\ WholeMatch(t, sub, ranks[word]) \in Omnimatch(t)
               /\ DOMAIN sub \subseteq LeetCharacters \cap Range(t)
               /\ \A c \in DOMAIN sub : sub[c] \notin DOMAIN sub
               /\ \A c, d \in DOMAIN sub : sub[c] = sub[d] => c = d
  <1>1. IsWord(word) /\ Len(t) = Len(word) /\ DOMAIN t = 1 .. Len(word)
    BY ListedIsWord, LenProperties DEF Reads
  <1>2. ASSUME NEW sub \in Subs(t) \cup {<<>>}
        PROVE  WordsMeant(t, sub) \subseteq Omnimatch(t)
    BY DEF Omnimatch, DictionaryMatches
  <1>3. CASE Disguised(t, word) = {}
    <2>1. LowerCase(t) = word
      BY <1>1, <1>3, LowerCaseIs DEF Disguised
    <2>2. DOMAIN <<>> = {}
      OBVIOUS
    <2>3. Translate(t, <<>>) = t
      <3>1. t = [p \in DOMAIN t |-> t[p]]
        BY LenProperties
      <3> QED
        BY <2>2, <3>1 DEF Translate
    <2>4. WholeMatch(t, <<>>, ranks[word]) \in WordsMeant(t, <<>>)
      BY <1>1, <2>1, <2>3, WholeIsMeant
    <2> QED
      BY <1>2, <2>2, <2>4
  <1>4. CASE Disguised(t, word) # {}
    <2>1. PICK sub \in Subs(t) :
              /\ DOMAIN sub = LeetCharacters \cap Range(t)
              /\ LowerCase(Translate(t, sub)) = word
              /\ LowerCase(t) # word
              /\ \A c \in DOMAIN sub : sub[c] \notin DOMAIN sub
              /\ \A c, d \in DOMAIN sub : sub[c] = sub[d] => c = d
      BY <1>1, <1>4, DisguiseIsTried
    <2>2. WholeMatch(t, sub, ranks[word]) \in WordsMeant(t, sub)
      BY <1>1, <2>1, WholeIsMeant
    <2> QED
      BY <1>2, <2>1, <2>2
  <1> QED
    BY <1>3, <1>4

-----------------------------------------------------------------------------
(* The field and its box. *)

Characters == UNION {Range(Chars(string)) : string \in Alphabets \cup Pasted}

(* Between two changes, a check runs or has come to an end; what the box then shows
   is the score of what was computed, from the matches of the text beside it. *)
FieldInv ==
    /\ text \in Seq(Characters)
    /\ length = Len(text)
    /\ text # <<>> => matches = Omnimatch(text)
    /\ box \in {"hidden", "checking"} \cup Ratings
    /\ box # "checking" => phase = "done"
    /\ box \in Ratings => box = ScoreText(least[length])

LEMMA PastedIsText ==
    ASSUME NEW string \in Pasted
    PROVE  Chars(string) \in Seq(Characters)
  <1> DEFINE s == Chars(string)
             n == Len(string)
  <1>1. n \in Nat
    BY StringsHaveLengths
  <1>2. s = [p \in 1 .. n |-> SubSeq(string, p, p)]
    BY DEF Chars
  <1>3. \A p \in 1 .. n : s[p] \in Range(s)
    <2> HIDE DEF n
    <2> QED
      BY <1>2 DEF Range
  <1>4. Range(s) \subseteq Characters
    BY DEF Characters
  <1> HIDE DEF s, n
  <1>5. s \in [1 .. n -> Characters]
    BY <1>2, <1>3, <1>4
  <1> QED
    BY <1>1, <1>5, SeqDef DEF s

LEMMA FrontIsText ==
    ASSUME NEW C, NEW t \in Seq(C), t # <<>>
    PROVE  Front(t) \in Seq(C)
  <1> DEFINE n == Len(t) - 1
  <1>1. Len(t) \in Nat /\ n \in Nat /\ n <= Len(t)
    BY LenProperties, EmptySeq
  <1>2. \A p \in 1 .. n : t[p] \in C
    BY <1>1, ElementOfSeq
  <1>3. Front(t) = SubSeq(t, 1, n)
    BY DEF Front
  <1> HIDE DEF n
  <1> QED
    BY <1>1, <1>2, <1>3, SubSeqProperties

LEMMA TextChangedIsCall ==
    ASSUME FieldInv, NEW new \in Seq(Characters), TextChanged(new)
    PROVE  FieldInv' /\ Call
  <1>1. Len(new) \in Nat /\ BruteForceBits(new) \in Nat /\ Omnimatch(new) \in SUBSET Matches
    BY LenProperties, BruteForceBitsType, OmnimatchType
  <1>2. Call
    BY <1>1 DEF TextChanged, Call
  <1>3. /\ text' = new /\ box' = "checking"
        /\ length' = Len(new) /\ matches' = Omnimatch(new)
    BY DEF TextChanged
  <1>4. "checking" \notin Ratings
    BY DEF Ratings
  <1> QED
    BY <1>2, <1>3, <1>4 DEF FieldInv

LEMMA ComputeKeeps ==
    ASSUME Compute
    PROVE  phase # "done" /\ UNCHANGED <<length, matches>>
  BY DEF Compute, Scan, ScanEnds, Walk, WalkEnds, Fill, FillEnds, inputVars

LEMMA InitFieldInv == Init => FieldInv /\ EntropyInit
  <1> SUFFICES ASSUME Init PROVE FieldInv /\ EntropyInit
    OBVIOUS
  <1>1. text = <<>> /\ box = "hidden" /\ length = 0 /\ phase = "done" /\ EntropyInit
    BY DEF Init, EntropyInit
  <1>2. <<>> \in Seq(Characters) /\ Len(<<>>) = 0
    BY EmptySeq
  <1>3. "hidden" \notin Ratings
    BY DEF Ratings
  <1> QED
    BY <1>1, <1>2, <1>3 DEF FieldInv

LEMMA NextFieldInv ==
    ASSUME FieldInv, [Next]_vars
    PROVE  FieldInv' /\ [EntropyNext]_entropyVars
  <1>1. CASE Type
    <2>1. PICK alphabet \in Alphabets : \E c \in Range(Chars(alphabet)) :
              TextChanged(Append(text, c))
      BY <1>1 DEF Type
    <2>2. PICK c \in Range(Chars(alphabet)) : TextChanged(Append(text, c))
      BY <2>1
    <2>3. c \in Characters
      BY DEF Characters
    <2>4. Append(text, c) \in Seq(Characters)
      BY <2>3, AppendProperties DEF FieldInv
    <2> QED
      BY <2>2, <2>4, TextChangedIsCall DEF EntropyNext
  <1>2. CASE Erase
    <2>1. Front(text) \in Seq(Characters) /\ TextChanged(Front(text))
      BY <1>2, FrontIsText DEF Erase, FieldInv
    <2> QED
      BY <2>1, TextChangedIsCall DEF EntropyNext
  <1>3. CASE Paste
    <2>1. PICK string \in Pasted : TextChanged(Chars(string))
      BY <1>3 DEF Paste
    <2>2. Chars(string) \in Seq(Characters)
      BY PastedIsText
    <2> QED
      BY <2>1, <2>2, TextChangedIsCall DEF EntropyNext
  <1>4. CASE Hide
    <2>1. /\ box \in Ratings /\ box' = "hidden"
          /\ UNCHANGED <<entropyVars, text>>
      BY <1>4 DEF Hide
    <2>2. "hidden" \notin Ratings /\ "checking" \notin Ratings
      BY DEF Ratings
    <2>3. /\ UNCHANGED <<length, matches, phase, least>>
          /\ UNCHANGED entropyVars
      BY <2>1 DEF entropyVars, inputVars, foundVars
    <2> QED
      BY <2>1, <2>2, <2>3 DEF FieldInv
  <1>5. CASE Compute /\ UNCHANGED fieldVars
    <2>1. UNCHANGED <<text, box>>
      BY <1>5 DEF fieldVars
    <2>2. phase # "done" /\ UNCHANGED <<length, matches>>
      BY <1>5, ComputeKeeps
    <2>3. box = "checking" /\ "checking" \notin Ratings
      BY <2>2 DEF FieldInv, Ratings
    <2> QED
      BY <1>5, <2>1, <2>2, <2>3 DEF FieldInv, EntropyNext
  <1>6. CASE Show
    <2>1. /\ phase = "done" /\ box' = ScoreText(least[length])
          /\ UNCHANGED <<entropyVars, text>>
      BY <1>6 DEF Show
    <2>2. ScoreText(least[length]) \in Ratings
      BY DEF ScoreText, Ratings
    <2>3. /\ UNCHANGED <<length, matches, phase, least>>
          /\ UNCHANGED entropyVars
      BY <2>1 DEF entropyVars, inputVars, foundVars
    <2> QED
      BY <2>1, <2>2, <2>3 DEF FieldInv
  <1>7. CASE UNCHANGED vars
    <2>1. /\ UNCHANGED <<length, matches, phase, least, text, box>>
          /\ UNCHANGED entropyVars
      BY <1>7 DEF vars, fieldVars, entropyVars, inputVars, foundVars
    <2> QED
      BY <2>1 DEF FieldInv
  <1> QED
    BY <1>1, <1>2, <1>3, <1>4, <1>5, <1>6, <1>7 DEF Next, Check

LEMMA FieldInvHolds == Spec => []FieldInv
  <1> QED
    BY InitFieldInv, NextFieldInv, PTL DEF Spec

(* Each change of the text is a call of minimum_entropy_match_sequence with numbers
   and matches for its arguments, whatever the text; and nothing but the loops
   changes what they compute.  So the field implements the specification of the
   loops. *)
LEMMA FieldImplementsEntropy == Spec => EntropySpec
  <1>1. FieldInv /\ [Next]_vars => [EntropyNext]_entropyVars
    BY NextFieldInv
  <1>2. Init => EntropyInit
    BY InitFieldInv
  <1> QED
    BY <1>1, <1>2, FieldInvHolds, PTL DEF Spec, EntropySpec

(* The types of the field, its box and the loops' variables. *)
THEOREM FieldTypesHold == Spec => []TypeOK
  <1>1. FieldInv /\ EntropyTypeOK => TypeOK
    BY DEF FieldInv, TypeOK
  <1> QED
    BY <1>1, FieldInvHolds, FieldImplementsEntropy, TypesHold, PTL

(* What the box beside the text says is the score of the least entropy that any way
   to cut the text up gives it, after however many changes. *)
THEOREM ShownIsRight == Spec => []ShownStrengthIsRight
  <1>1. FieldInv /\ (phase = "done" => least[length] = LeastEntropy) => ShownStrengthIsRight
    <2>1. "checking" \notin Ratings
      BY DEF Ratings
    <2> QED
      BY <2>1 DEF FieldInv, ShownStrengthIsRight
  <1> QED
    BY <1>1, FieldInvHolds, FieldImplementsEntropy, EntropyIsLeast, PTL

(* Four characters or more that follow each other are found as a sequence, in a
   text of any length. *)
THEOREM EachSequenceIsFound == Spec => []SequencesAreFound
  <1>1. FieldInv => SequencesAreFound
    <2> SUFFICES ASSUME FieldInv, NEW space \in Spaces, NEW step \in {1, -1},
                        NEW run \in Spans(text),
                        LET i == run[1]
                            j == run[2]
                            index(p) == space[At(text, p)]
                        IN  /\ j - i >= 3
                            /\ \A p \in i .. j : At(text, p) \in DOMAIN space
                            /\ \A p \in i + 1 .. j : index(p) - index(p - 1) = step
                            /\ j < Len(text) - 1 =>
                                   ~ (At(text, j + 1) \in DOMAIN space
                                      /\ index(j + 1) - index(j) = step)
                            /\ ~ (step = -1 /\ index(j) = 0 /\ j = Len(text) - 1)
                 PROVE  \E m \in matches :
                            /\ m.pattern = "sequence" /\ m.i <= run[1] + 1
                            /\ run[2] <= m.j /\ m.j < Len(text)
      BY DEF SequencesAreFound
    <2>1. /\ text \in Seq(Characters) /\ text # <<>>
          /\ run[1] \in Nat /\ run[2] \in Nat /\ run[2] < Len(text)
      <3>1. /\ text \in Seq(Characters) /\ Len(text) \in Nat
            /\ run[1] \in Nat /\ run[2] \in Nat /\ run[2] < Len(text)
        BY SpanType DEF FieldInv
      <3> QED
        BY <3>1, EmptySeq
    <2>2. IsRun(text, space, step, run[1], run[2])
      BY <2>1 DEF IsRun
    <2>3. PICK m \in SequenceMatches(text) : TakesIn(m, text, run[1], run[2])
      BY <2>1, <2>2, RunsAreFound
    <2>4. m \in matches
      BY <2>1, <2>3 DEF FieldInv, Omnimatch
    <2> QED
      BY <2>3, <2>4 DEF TakesIn
  <1> QED
    BY <1>1, FieldInvHolds, PTL

(* What is weak has less than 28 bits; each character with a disguise is allowed one. *)
LEMMA MediumFromBound == MediumFrom \in Nat /\ MediumFrom < 28 * Bit
  <1> DEFINE n == 2 * 10 ^ 8
             power == [e \in 0 .. 31 |-> 2 ^ e]
  <1>1. n \in Positive /\ n < 268435456
    BY DEF Positive
  <1>2. power[28] = 268435456
    OBVIOUS
  <1>3. n < 2 ^ 28
    BY <1>1, <1>2
  <1> HIDE DEF n
  <1>4. Lg(n) \in Nat /\ Lg(n) < Bit * 28
    BY <1>1, <1>3, LgType
  <1> QED
    BY <1>4 DEF MediumFrom, n, Bit

HasAny(set) == IF Range(text) \cap set # {} THEN 1 ELSE 0

(* Where a text is short enough, disguises cost no more than is allowed for them. *)
LEMMA DisguisesCost ==
    ASSUME NEW C, text \in Seq(C), Len(text) \in Positive, DisguiseBits < 28 * Bit,
           NEW sub, DOMAIN sub \subseteq LeetCharacters \cap Range(text),
           \A c \in DOMAIN sub : sub[c] \notin DOMAIN sub,
           \A c, d \in DOMAIN sub : sub[c] = sub[d] => c = d
    PROVE  /\ DisguiseBits \in Nat
           /\ UppercaseEntropy(text) + L33tEntropy(text, sub) <= DisguiseBits
  <1> DEFINE n == Len(text)
             upper == HasAny(DOMAIN Upper)
             leet == HasAny(LeetCharacters)
             u == UppercaseEntropy(text)
             l == L33tEntropy(text, sub)
  <1>1. DisguiseBits = Bit * n * (upper + leet)
    BY DEF DisguiseBits, HasAny
  <1>2. upper \in {0, 1} /\ leet \in {0, 1} /\ n \in Nat /\ n >= 1
    BY DEF HasAny, Positive
  <1>3. u \in Nat /\ l \in Nat
    BY UppercaseEntropyType, L33tEntropyType
  <1>4. upper = 0 => u = 0
    BY UppercaseBound DEF HasAny
  <1>5. leet = 0 => l = 0
    <2> SUFFICES ASSUME leet = 0 PROVE l = 0
      OBVIOUS
    <2>1. DOMAIN sub \cap Range(text) = {}
      BY DEF HasAny
    <2> QED
      BY <2>1 DEF L33tEntropy
  <1>6. n \in 1 .. 30 => u <= Bit * n /\ l <= Bit * n
    BY UppercaseBound, L33tBound
  <1> HIDE DEF n, upper, leet, u, l
  <1>7. CASE upper = 0 /\ leet = 0
    BY <1>1, <1>2, <1>4, <1>5, <1>7 DEF Bit, u, l
  <1>8. CASE upper = 1 /\ leet = 0
    <2>1. DisguiseBits = Bit * n
      BY <1>1, <1>2, <1>8 DEF Bit
    <2>2. n \in 1 .. 30
      BY <1>2, <2>1 DEF Bit
    <2> QED
      BY <1>2, <1>3, <1>5, <1>6, <1>8, <2>1, <2>2 DEF Bit, u, l
  <1>9. CASE upper = 0 /\ leet = 1
    <2>1. DisguiseBits = Bit * n
      BY <1>1, <1>2, <1>9 DEF Bit
    <2>2. n \in 1 .. 30
      BY <1>2, <2>1 DEF Bit
    <2> QED
      BY <1>2, <1>3, <1>4, <1>6, <1>9, <2>1, <2>2 DEF Bit, u, l
  <1>10. CASE upper = 1 /\ leet = 1
    <2>1. DisguiseBits = Bit * n * 2
      BY <1>1, <1>10
    <2>2. n \in 1 .. 30
      BY <1>2, <2>1 DEF Bit
    <2> QED
      BY <1>2, <1>3, <1>6, <2>1, <2>2 DEF Bit, u, l
  <1> QED
    BY <1>2, <1>7, <1>8, <1>9, <1>10

(* A word of the lists, in plain or disguised by capitals and by l33t that is used
   consistently, is weak if its rank leaves room for a bit for each character and
   kind of disguise, whatever is typed and pasted and however long it is: the
   substitution that was meant is among those that are tried, and finds the text as
   a whole in the list. *)
THEOREM CommonWordsStayWeak == Spec => []CommonWordsAreWeak
  <1>1. FieldInv /\ IInv => CommonWordsAreWeak
    <2> SUFFICES ASSUME FieldInv, IInv, box \in Ratings,
                        NEW ranks \in Dictionaries, NEW word \in DOMAIN ranks,
                        ReadsAs(word), Lg(ranks[word]) + DisguiseBits < MediumFrom
                 PROVE  box = "Weak"
      BY DEF CommonWordsAreWeak
    <2> DEFINE n == Len(text)
               rank == ranks[word]
    <2>1. Reads(text, word) /\ n \in Positive /\ text \in Seq(Characters)
      BY ReadsAsIs, ListedIsWord DEF Reads, IsWord, FieldInv
    <2>2. rank \in Positive /\ Lg(rank) \in Nat
      BY RankType, LgType
    <2>3. PICK sub : /\ WholeMatch(text, sub, rank) \in Omnimatch(text)
                     /\ DOMAIN sub \subseteq LeetCharacters \cap Range(text)
                     /\ \A c \in DOMAIN sub : sub[c] \notin DOMAIN sub
                     /\ \A c, d \in DOMAIN sub : sub[c] = sub[d] => c = d
      BY <2>1, WordIsFound
    <2> DEFINE m == WholeMatch(text, sub, rank)
               u == UppercaseEntropy(text)
               l == L33tEntropy(text, sub)
    <2>4. DisguiseBits \in Int
      BY <2>1 DEF DisguiseBits, Bit, Positive
    <2>5. DisguiseBits < 28 * Bit
      BY <2>2, <2>4, MediumFromBound DEF Bit
    <2>6. u \in Nat /\ l \in Nat /\ u + l <= DisguiseBits
      BY <2>1, <2>3, <2>5, DisguisesCost, UppercaseEntropyType, L33tEntropyType
    <2>7. m.i = 0 /\ m.j = n - 1 /\ m.entropy = Lg(rank) + u + l
      BY DEF WholeMatch
    <2> HIDE DEF m, u, l, rank, n
    <2>8. m.entropy < MediumFrom
      BY <2>2, <2>4, <2>6, <2>7, MediumFromBound DEF rank
    <2>9. phase = "done" /\ length = n /\ m \in matches /\ box = ScoreText(least[length])
      <3>1. text # <<>> /\ "checking" \notin Ratings
        BY <2>1, EmptySeq DEF n, Positive, Ratings
      <3> QED
        BY <2>3, <3>1 DEF FieldInv, m, n
    <2>10. n \in DOMAIN least \ {0} /\ least[n] \in Nat /\ least[0] = 0
      <3>1. least \in [0 .. n -> Nat] /\ n \in Nat /\ n # 0 /\ least[0] = 0
        BY <2>1, <2>9 DEF IInv, Types, FoundTypes, Scanned, Positive
      <3> QED
        BY <3>1
    <2>11. least[n] <= least[0] + m.entropy
      <3>1. m.j + 1 = n
        BY <2>1, <2>7 DEF n, Positive
      <3> QED
        BY <2>7, <2>9, <2>10, <3>1 DEF IInv, NoCheaperEnd
    <2>12. least[n] < MediumFrom
      BY <2>2, <2>6, <2>7, <2>8, <2>10, <2>11, MediumFromBound
    <2> QED
      BY <2>9, <2>12 DEF ScoreText
  <1> QED
    BY <1>1, FieldInvHolds, FieldImplementsEntropy, Inductive, PTL
=============================================================================
