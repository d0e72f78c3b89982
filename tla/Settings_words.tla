--------------------------- MODULE Settings_words ---------------------------
(***************************************************************************)
(* Lemmas about the words of Settings: what the helpers on sequences give  *)
(* for every input, and the values of the two recursive ones.              *)
(***************************************************************************)
EXTENDS Settings, SequenceTheorems, WellOrder

\* The constants as the proofs use them.
LEMMA Sizes ==
    /\ Cap \in Nat \ {0} /\ ChunkCap \in Nat \ {0} /\ PortMax \in Nat \ {0}
    /\ MaxEntries \in Nat /\ ValueCap \in Nat /\ MaxInts \in Nat
  BY CapsAssumption, LimitsAssumption

LEMMA IntSizes == IntMax \in Nat /\ IntMax >= 25 /\ Word \in Nat \ {0} /\ Word = 2 * (IntMax + 1)
  BY IntAssumption DEF Word

\* What is left of a negative number.
LEMMA RemainderNegative ==
    ASSUME NEW w \in Nat \ {0}, NEW n \in Int, -w <= n, n < 0
    PROVE  n % w = n + w
  <1> DEFINE q == n \div w
             r == n % w
  <1>1. q \in Int /\ r \in 0..w - 1 /\ n = w * q + r
    OBVIOUS
  <1> HIDE DEF q, r
  <1>2. q < 0
    <2>1. q >= 0 => w * q >= 0
      BY <1>1
    <2>2. QED
      BY <1>1, <2>1
  <1>3. q >= -1
    <2>1. q <= -2 => w * q <= w * (-2)
      BY <1>1
    <2>2. QED
      BY <1>1, <2>1
  <1>4. q = -1
    BY <1>1, <1>2, <1>3
  <1>5. w * q = -w
    BY <1>4
  <1>6. r = n + w
    BY <1>1, <1>5
  <1>7. QED
    BY <1>6 DEF r

\* What an int holds of a number is in its range, and is the number if that is.
LEMMA SignedIs ==
    ASSUME NEW n \in Int
    PROVE  /\ Signed(n) \in IntRange
           /\ n \in IntRange => Signed(n) = n
  <1> DEFINE r == n % Word
  <1>1. r \in 0..Word - 1
    BY IntSizes
  <1>2. Signed(n) = IF r <= IntMax THEN r ELSE r - Word
    BY DEF Signed, Unsigned
  <1>3. n \in 0..IntMax => r = n
    BY IntSizes
  <1>4. -(IntMax + 1) <= n /\ n < 0 => r = n + Word
    BY IntSizes, RemainderNegative
  <1> HIDE DEF r
  <1>5. QED
    BY <1>1, <1>2, <1>3, <1>4, IntSizes DEF IntRange

\* The first k cells of s are in the set, and no more.
Skips(s, set, k) ==
    /\ k \in 0..Len(s)
    /\ \A i \in 1..k : s[i] \in set
    /\ k < Len(s) => s[k + 1] \notin set

LEMMA AfterIs ==
    ASSUME NEW X, NEW s \in Seq(X), NEW set, NEW k, Skips(s, set, k)
    PROVE  /\ After(s, set) = SubSeq(s, k + 1, Len(s))
           /\ Before(s, set) = SubSeq(s, 1, k)
  <1> DEFINE others == {i \in 1..Len(s) : s[i] \notin set}
  <1>1. k \in Nat /\ Len(s) \in Nat /\ k <= Len(s)
    BY DEF Skips
  <1>2. CASE k = Len(s)
    <2>1. others = {}
      BY <1>2 DEF Skips
    <2>2. After(s, set) = <<>>
      BY <2>1 DEF After
    <2>3. QED
      BY <1>1, <1>2, <2>2 DEF Before
  <1>3. CASE k < Len(s)
    <2>1. k + 1 \in others /\ \A i \in others : k + 1 <= i
      BY <1>1, <1>3 DEF Skips
    <2>2. Min(others) = k + 1
      <3>1. others \subseteq Nat
        OBVIOUS
      <3> HIDE DEF others
      <3>2. Min(others) \in others /\ \A i \in others : Min(others) <= i
        BY <2>1 DEF Min
      <3>3. Min(others) \in Nat /\ Min(others) <= k + 1 /\ k + 1 <= Min(others)
        BY <2>1, <3>1, <3>2
      <3>4. QED
        BY <1>1, <3>3
    <2>3. others # {}
      BY <2>1
    <2>4. After(s, set) = SubSeq(s, k + 1, Len(s))
      BY <2>2, <2>3 DEF After
    <2>5. Len(After(s, set)) = Len(s) - k
      BY <1>1, <1>3, <2>4
    <2>6. QED
      BY <1>1, <2>4, <2>5 DEF Before
  <1>4. QED
    BY <1>1, <1>2, <1>3

LEMMA SkipsSome ==
    ASSUME NEW X, NEW s \in Seq(X), NEW set
    PROVE  \E k \in 0..Len(s) : Skips(s, set, k)
  <1> DEFINE stops == {k \in Nat : k < Len(s) => s[k + 1] \notin set}
  <1>1. stops \subseteq Nat /\ Len(s) \in stops
    OBVIOUS
  <1>2. PICK k \in stops : \A j \in stops : k <= j
    <2> HIDE DEF stops
    <2> QED
      BY <1>1, LeastElement
  <1>3. k \in 0..Len(s)
    <2> HIDE DEF stops
    <2> QED
      BY <1>1, <1>2
  <1>4. ASSUME NEW i \in 1..k PROVE s[i] \in set
    <2>1. i - 1 \in Nat /\ i - 1 < k /\ (i - 1) + 1 = i
      BY <1>3
    <2>2. i - 1 \notin stops
      <3> HIDE DEF stops
      <3> QED
        BY <1>1, <1>2, <2>1
    <2>3. QED
      BY <2>1, <2>2
  <1>5. QED
    BY <1>2, <1>3, <1>4 DEF Skips

\* What is skipped is in the set, what follows does not begin in it.
LEMMA AfterShape ==
    ASSUME NEW X, NEW s \in Seq(X), NEW set
    PROVE  /\ After(s, set) \in Seq(X)
           /\ After(s, set) # <<>> => Head(After(s, set)) \notin set
           /\ Before(s, set) \in Seq(X \cap set)
           /\ Len(Before(s, set)) + Len(After(s, set)) = Len(s)
           /\ Len(After(s, set)) <= Len(s)
  <1>1. PICK k \in 0..Len(s) : Skips(s, set, k)
    BY SkipsSome
  <1>2. After(s, set) = SubSeq(s, k + 1, Len(s)) /\ Before(s, set) = SubSeq(s, 1, k)
    BY <1>1, AfterIs
  <1>3. After(s, set) \in Seq(X) /\ Len(After(s, set)) = Len(s) - k
    BY <1>2
  <1>4. After(s, set) # <<>> => Head(After(s, set)) \notin set
    <2>1. After(s, set) # <<>> => k < Len(s) /\ Head(After(s, set)) = s[k + 1]
      BY <1>2, <1>3
    <2>2. QED
      BY <1>1, <2>1 DEF Skips
  <1>5. Before(s, set) \in Seq(X \cap set) /\ Len(Before(s, set)) = k
    <2>1. \A i \in 1..k : s[i] \in X \cap set
      BY <1>1 DEF Skips
    <2>2. QED
      BY <1>2, <2>1, SubSeqProperties
  <1>6. QED
    BY <1>3, <1>4, <1>5

LEMMA ReverseShape ==
    ASSUME NEW X, NEW s \in Seq(X)
    PROVE  Reverse(s) \in Seq(X) /\ Len(Reverse(s)) = Len(s)
  BY DEF Reverse

LEMMA TrimShape ==
    ASSUME NEW X, NEW s \in Seq(X)
    PROVE  /\ SkipSpaces(s) \in Seq(X) /\ Len(SkipSpaces(s)) <= Len(s)
           /\ TrimRight(s) \in Seq(X) /\ Len(TrimRight(s)) <= Len(s)
  <1>1. \A r \in Seq(X) : After(r, {" "}) \in Seq(X) /\ Len(After(r, {" "})) <= Len(r)
    BY AfterShape
  <1>2. QED
    BY <1>1, ReverseShape DEF SkipSpaces, TrimRight

LEMMA FirstShape ==
    ASSUME NEW X, NEW s \in Seq(X), NEW n \in Nat
    PROVE  FirstCells(s, n) \in Seq(X) /\ Len(FirstCells(s, n)) <= n
  BY DEF FirstCells

-----------------------------------------------------------------------------
(***************************************************************************)
(* The two recursive functions.                                            *)
(***************************************************************************)

\* The value of some digits.
LEMMA NumberIsNatural ==
    ASSUME NEW d \in Seq(Digits)
    PROVE  Number(d) \in Nat
  <1> DEFINE S == 0..Len(d)
             V == [i \in S |-> IF i = 0 THEN 0 ELSE Value(d[i])]
             Step(n) == [i \in S |-> IF i = 0 THEN 0 ELSE 10 * n[i - 1] + Value(d[i])]
             n == CHOOSE n : n = Step(n)
             zero == [i \in S |-> 0]
             R == [i \in S |-> IF i = 0 THEN 0 ELSE i - 1]
             m == [i \in S |-> i]
             D == [x \in S \X Nat |-> 10 * x[2] + V[x[1]]]
  <1>1. Number(d) = n[Len(d)]
    BY DEF Number
  <1>2. V \in [S -> Nat]
    <2>1. \A i \in S : i # 0 => d[i] \in Digits
      OBVIOUS
    <2>2. \A c \in Digits : Value(c) \in Nat
      BY DEF Digits, Value
    <2>3. QED
      BY <2>1, <2>2
  <1>3. PICK f : Solves(f, S, Nat, {0}, zero, R, D)
    <2>1. zero \in [S -> Nat] /\ R \in [S -> S] /\ m \in [S -> Nat]
      OBVIOUS
    <2>2. D \in [S \X Nat -> Nat]
      <3> HIDE DEF V, S
      <3> QED
        BY <1>2
    <2>3. \A i \in S \ {0} : m[R[i]] < m[i]
      OBVIOUS
    <2> HIDE DEF S, zero, R, m, D
    <2>4. QED
      BY <2>1, <2>2, <2>3, RecursionByMeasure
  <1>4. f = Step(f) /\ f \in [S -> Nat]
    <2>1. f = [i \in S |-> IF i \in {0} THEN zero[i] ELSE D[<<i, f[R[i]]>>]]
          /\ f \in [S -> Nat]
      BY <1>3 DEF Solves
    <2>2. ASSUME NEW i \in S
          PROVE  f[i] = IF i = 0 THEN 0 ELSE 10 * f[i - 1] + Value(d[i])
      <3>1. CASE i = 0
        BY <2>1, <3>1
      <3>2. CASE i # 0
        <4>1. f[i] = D[<<i, f[R[i]]>>]
          BY <2>1, <3>2
        <4>2. R[i] = i - 1 /\ i - 1 \in S /\ f[i - 1] \in Nat
          <5>1. i - 1 \in S
            BY <3>2
          <5>2. R[i] = i - 1
            BY <3>2
          <5> HIDE DEF S
          <5>3. QED
            BY <2>1, <5>1, <5>2
        <4>3. D[<<i, f[i - 1]>>] = 10 * f[i - 1] + V[i]
          BY <4>2
        <4>4. V[i] = Value(d[i])
          BY <3>2
        <4>5. QED
          BY <3>2, <4>1, <4>2, <4>3, <4>4
      <3>3. QED
        BY <3>1, <3>2
    <2>3. f = [i \in S |-> f[i]]
      BY <2>1
    <2>4. QED
      BY <2>1, <2>2, <2>3, ZenonT(30)
  <1>5. n = Step(n)
    BY <1>4
  <1> HIDE DEF n
  <1>6. S \subseteq {i \in S : n[i] \in Nat}
    <2> DEFINE P == {i \in S : n[i] \in Nat}
    <2>1. ASSUME NEW i \in S, \A j \in S : m[j] < m[i] => j \in P PROVE i \in P
      <3>1. CASE i = 0
        BY <1>5, <3>1
      <3>2. CASE i # 0
        <4>1. i - 1 \in P /\ V[i] \in Nat
          BY <2>1, <3>2, <1>2
        <4>2. n[i] = 10 * n[i - 1] + V[i]
          BY <1>5, <3>2
        <4>3. QED
          BY <4>1, <4>2
      <3>3. QED
        BY <3>1, <3>2
    <2>2. m \in [S -> Nat]
      OBVIOUS
    <2> HIDE DEF P, S, m
    <2>3. S \subseteq P
      BY <2>1, <2>2, InductionByMeasure
    <2>4. QED
      BY <2>3 DEF P
  <1>7. QED
    BY <1>1, <1>6

\* An integer in front of some cells, and what is left.
LEMMA IntegerShape ==
    ASSUME NEW u \in Seq(Cells)
    PROVE  /\ Integer(u).any \in BOOLEAN
           /\ Integer(u).int \in Int
           /\ Spelled(u) \in IntRange => Integer(u).int = Spelled(u)
           /\ Integer(u).rest \in Seq(Cells)
           /\ Integer(u).any => Len(Integer(u).rest) < Len(u)
  <1> DEFINE unsigned == IF StartsWith(u, "-") THEN Tail(u) ELSE u
             digits == Before(unsigned, Digits)
             rest == After(unsigned, Digits)
  <1>1. unsigned \in Seq(Cells) /\ Len(unsigned) <= Len(u) /\ Len(u) \in Nat
    BY DEF StartsWith
  <1>2. Integer(u) = [any |-> digits # <<>>, int |-> Signed(Spelled(u)), rest |-> rest]
    BY DEF Integer
  <1>2a. Spelled(u) = IF StartsWith(u, "-") THEN -Number(digits) ELSE Number(digits)
    BY DEF Spelled
  <1> HIDE DEF unsigned
  <1>3. /\ rest \in Seq(Cells) /\ digits \in Seq(Cells \cap Digits)
        /\ Len(digits) + Len(rest) = Len(unsigned)
    BY <1>1, AfterShape
  <1>4. digits \in Seq(Digits)
    <2>1. Cells \cap Digits = Digits
      BY DEF Cells
    <2> HIDE DEF digits
    <2>2. QED
      BY <1>3, <2>1
  <1>5. Number(digits) \in Nat
    BY <1>4, NumberIsNatural
  <1> HIDE DEF digits, rest
  <1>6. digits # <<>> => Len(rest) < Len(u)
    <2>1. Len(digits) \in Nat /\ Len(rest) \in Nat /\ Len(unsigned) \in Nat
      BY <1>1, <1>3, <1>4
    <2>2. digits # <<>> => Len(digits) > 0
      BY <1>4, EmptySeq
    <2>3. QED
      BY <1>1, <1>3, <2>1, <2>2
  <1>7. Integer(u).any = (digits # <<>>) /\ Integer(u).rest = rest
        /\ Integer(u).int = Signed(Spelled(u))
    BY <1>2
  <1>8. Integer(u).int \in Int /\ (Spelled(u) \in IntRange => Integer(u).int = Spelled(u))
    <2>1. Spelled(u) \in Int
      BY <1>2a, <1>5
    <2>2. Signed(Spelled(u)) \in IntRange
          /\ (Spelled(u) \in IntRange => Signed(Spelled(u)) = Spelled(u))
      BY <2>1, SignedIs
    <2>3. IntRange \subseteq Int
      BY IntSizes DEF IntRange
    <2>4. QED
      BY <1>7, <2>2, <2>3
  <1>9. QED
    BY <1>3, <1>6, <1>7, <1>8

Blanks == {" ", ","}

\* The integers of some cells: the first, and those of what is left.
LEMMA IntsAre ==
    ASSUME NEW v \in Seq(Cells)
    PROVE  LET i == Integer(After(v, Blanks))
           IN  /\ Ints(v) \in Seq(Int)
               /\ Ints(v) = IF i.any THEN <<i.int>> \o Ints(i.rest) ELSE <<>>
  <1> DEFINE S == Seq(Cells)
             T == Seq(Int)
             First(w) == Integer(After(w, {" ", ","}))
             Step(g) == [w \in S |-> IF First(w).any THEN <<First(w).int>> \o g[First(w).rest]
                                                    ELSE <<>>]
             f == CHOOSE g : g = Step(g)
             B == {w \in S : ~First(w).any}
             none == [w \in S |-> <<>>]
             R == [w \in S |-> First(w).rest]
             D == [x \in S \X T |-> <<First(x[1]).int>> \o x[2]]
             m == [w \in S |-> Len(w)]
  <1>1. \A w \in S : Ints(w) = f[w]
    BY DEF Ints
  <1>2. ASSUME NEW w \in S
        PROVE  /\ First(w).any \in BOOLEAN /\ First(w).int \in Int /\ First(w).rest \in S
               /\ First(w).any => Len(First(w).rest) < Len(w)
    <2>1. /\ After(w, {" ", ","}) \in S /\ Len(After(w, {" ", ","})) <= Len(w)
          /\ Len(After(w, {" ", ","})) \in Nat /\ Len(w) \in Nat
      BY AfterShape, LenProperties
    <2>2. /\ First(w).any \in BOOLEAN /\ First(w).int \in Int /\ First(w).rest \in S
          /\ First(w).any => Len(First(w).rest) < Len(After(w, {" ", ","}))
      BY <2>1, IntegerShape
    <2> HIDE DEF First
    <2> DEFINE r == First(w).rest
               a == After(w, {" ", ","})
    <2>3. r \in Seq(Cells) /\ a \in Seq(Cells)
      BY <2>1, <2>2
    <2>4. ASSUME First(w).any PROVE Len(r) < Len(w)
      <3>1. Len(r) < Len(a) /\ Len(a) <= Len(w)
        BY <2>1, <2>2, <2>4
      <3> HIDE DEF r, a
      <3>2. Len(r) \in Nat /\ Len(a) \in Nat /\ Len(w) \in Nat
        BY <2>3, LenProperties
      <3>3. QED
        BY <3>1, <3>2
    <2>5. QED
      BY <2>2, <2>4
  <1> HIDE DEF First
  <1>3. PICK g : Solves(g, S, T, B, none, R, D)
    <2>1. none \in [S -> T] /\ R \in [S -> S] /\ m \in [S -> Nat]
      BY <1>2
    <2>2. D \in [S \X T -> T]
      BY <1>2
    <2>3. \A w \in S \ B : m[R[w]] < m[w]
      BY <1>2
    <2> HIDE DEF S, T, B, none, R, D, m
    <2>4. QED
      BY <2>1, <2>2, <2>3, RecursionByMeasure
  <1>4. g = Step(g)
    <2>1. g \in [S -> T] /\ g = [w \in S |-> IF w \in B THEN none[w] ELSE D[<<w, g[R[w]]>>]]
      BY <1>3 DEF Solves
    <2>2. ASSUME NEW w \in S
          PROVE  g[w] = IF First(w).any THEN <<First(w).int>> \o g[First(w).rest] ELSE <<>>
      <3>1. CASE w \in B
        BY <2>1, <3>1
      <3>2. CASE w \notin B
        <4>1. g[w] = D[<<w, g[R[w]]>>] /\ R[w] = First(w).rest /\ First(w).any
          BY <2>1, <3>2
        <4>2. g[First(w).rest] \in T
          BY <1>2, <2>1
        <4>3. D[<<w, g[First(w).rest]>>] = <<First(w).int>> \o g[First(w).rest]
          BY <4>2
        <4>4. QED
          BY <4>1, <4>3
      <3>3. QED
        BY <3>1, <3>2
    <2>3. g = [w \in S |-> g[w]]
      BY <2>1
    <2>4. QED
      BY <2>2, <2>3
  <1>5. f = Step(f)
    BY <1>4
  <1> HIDE DEF f
  <1>6. \A w \in S : f[w] = IF First(w).any THEN <<First(w).int>> \o f[First(w).rest] ELSE <<>>
    BY <1>5
  <1> DEFINE P == {w \in S : f[w] \in T}
  <1>7. S \subseteq P
    <2>1. ASSUME NEW w \in S, \A u \in S : m[u] < m[w] => u \in P PROVE w \in P
      <3>1. CASE First(w).any
        <4>1. First(w).rest \in S /\ First(w).int \in Int /\ m[First(w).rest] < m[w]
          BY <1>2, <3>1
        <4>2. f[First(w).rest] \in Seq(Int)
          BY <2>1, <4>1
        <4>3. <<First(w).int>> \in Seq(Int)
          BY <4>1
        <4>4. <<First(w).int>> \o f[First(w).rest] \in Seq(Int)
          BY <4>2, <4>3, ConcatProperties
        <4>5. QED
          BY <1>6, <3>1, <4>4
      <3>2. CASE ~First(w).any
        <4>1. f[w] = <<>>
          BY <1>6, <3>2
        <4>2. f[w] \in Seq(Int)
          BY <4>1, EmptySeq
        <4>3. QED
          BY <4>2
      <3>3. QED
        BY <3>1, <3>2
    <2>2. m \in [S -> Nat]
      OBVIOUS
    <2> HIDE DEF P, S, m
    <2>3. QED
      BY <2>1, <2>2, InductionByMeasure
  <1>8. First(v).rest \in S
    BY <1>2
  <1>9. /\ Ints(v) \in Seq(Int)
        /\ Ints(v) = IF First(v).any THEN <<First(v).int>> \o Ints(First(v).rest) ELSE <<>>
    BY <1>1, <1>6, <1>7, <1>8
  <1>10. QED
    BY <1>9 DEF First, Blanks

-----------------------------------------------------------------------------
(***************************************************************************)
(* Cells in front of others.                                               *)
(***************************************************************************)

AllIn(s, set) == \A i \in 1..Len(s) : s[i] \in set

\* Cells of the set in front of others are skipped with those that follow.
LEMMA AfterPrefix ==
    ASSUME NEW X, NEW a \in Seq(X), NEW b \in Seq(X), NEW set, AllIn(a, set)
    PROVE  /\ After(a \o b, set) = After(b, set)
           /\ Before(a \o b, set) = a \o Before(b, set)
  <1>1. PICK k \in 0..Len(b) : Skips(b, set, k)
    BY SkipsSome
  <1>2. /\ a \o b \in Seq(X) /\ Len(a \o b) = Len(a) + Len(b) /\ Len(a) \in Nat /\ Len(b) \in Nat
        /\ \A i \in 1..(Len(a) + Len(b)) : (a \o b)[i] = IF i <= Len(a) THEN a[i] ELSE b[i - Len(a)]
    BY ConcatProperties, LenProperties
  <1> DEFINE n == Len(a) + k
  <1>3. n \in 0..Len(a \o b)
    BY <1>2
  <1>4. Skips(a \o b, set, n)
    <2>1. ASSUME NEW i \in 1..n PROVE (a \o b)[i] \in set
      <3>1. CASE i <= Len(a)
        BY <1>2, <3>1 DEF AllIn
      <3>2. CASE i > Len(a)
        <4>1. (a \o b)[i] = b[i - Len(a)] /\ i - Len(a) \in 1..k
          BY <1>2, <3>2
        <4>2. QED
          BY <1>1, <4>1 DEF Skips
      <3>3. QED
        BY <1>2, <3>1, <3>2
    <2>2. ASSUME n < Len(a \o b) PROVE (a \o b)[n + 1] \notin set
      <3>1. k < Len(b) /\ (n + 1) - Len(a) = k + 1 /\ n + 1 > Len(a) /\ n + 1 <= Len(a) + Len(b)
        BY <1>2, <2>2
      <3>2. (a \o b)[n + 1] = b[k + 1]
        BY <1>2, <3>1
      <3>3. QED
        BY <1>1, <3>1, <3>2 DEF Skips
    <2> HIDE DEF n
    <2>3. QED
      BY <1>3, <2>1, <2>2 DEF Skips
  <1>5. After(b, set) = SubSeq(b, k + 1, Len(b)) /\ Before(b, set) = SubSeq(b, 1, k)
    BY <1>1, AfterIs
  <1>6. /\ After(a \o b, set) = SubSeq(a \o b, n + 1, Len(a \o b))
        /\ Before(a \o b, set) = SubSeq(a \o b, 1, n)
    BY <1>2, <1>4, AfterIs
  <1>7. SubSeq(a \o b, n + 1, Len(a \o b)) = SubSeq(b, k + 1, Len(b))
    BY <1>2
  <1>8. SubSeq(a \o b, 1, n) = a \o SubSeq(b, 1, k)
    BY <1>2
  <1>9. QED
    BY <1>5, <1>6, <1>7, <1>8

LEMMA OneCell ==
    ASSUME NEW X, NEW c \in X, NEW y \in Seq(X)
    PROVE  /\ <<c>> \in Seq(X) /\ <<c>> # <<>> /\ Head(<<c>>) = c
           /\ \A set : c \in set => AllIn(<<c>>, set)
           /\ <<c>> \o y \in Seq(X) /\ <<c>> \o y # <<>> /\ Head(<<c>> \o y) = c
  <1>1. <<c>> \in Seq(X) /\ Len(<<c>>) = 1 /\ <<c>>[1] = c
    OBVIOUS
  <1> DEFINE s == <<c>> \o y
  <1>2. s \in Seq(X) /\ Len(s) = 1 + Len(y) /\ Len(y) \in Nat /\ s[1] = c
    BY <1>1, ConcatProperties, LenProperties
  <1>3. s # <<>> /\ Head(s) = c
    <2> HIDE DEF s
    <2>1. Len(s) # 0
      BY <1>2
    <2>2. s # <<>>
      BY <2>1, EmptySeq
    <2>3. QED
      BY <1>2, <2>2
  <1>4. QED
    BY <1>1, <1>2, <1>3 DEF AllIn

\* Nothing is skipped of cells that do not begin in the set.
LEMMA AfterNothing ==
    ASSUME NEW X, NEW b \in Seq(X), NEW set, b = <<>> \/ Head(b) \notin set
    PROVE  After(b, set) = b /\ Before(b, set) = <<>>
  <1>1. Skips(b, set, 0)
    BY DEF Skips
  <1>2. After(b, set) = SubSeq(b, 0 + 1, Len(b)) /\ Before(b, set) = SubSeq(b, 1, 0)
    BY <1>1, AfterIs
  <1>3. SubSeq(b, 0 + 1, Len(b)) = b
    BY SubSeqFull
  <1>4. QED
    BY <1>2, <1>3

LEMMA SplitAt ==
    ASSUME NEW X, NEW s \in Seq(X), NEW k \in 0..Len(s)
    PROVE  LET a == SubSeq(s, 1, k)
               b == SubSeq(s, k + 1, Len(s))
           IN  /\ a \in Seq(X) /\ Len(a) = k /\ \A i \in 1..k : a[i] = s[i]
               /\ b \in Seq(X) /\ Len(b) = Len(s) - k
               /\ \A i \in 1..(Len(s) - k) : b[i] = s[k + i]
               /\ s = a \o b
  <1>1. Len(s) \in Nat /\ \A i \in 1..Len(s) : s[i] \in X
    BY LenProperties, ElementOfSeq
  <1> DEFINE a == SubSeq(s, 1, k)
             b == SubSeq(s, k + 1, Len(s))
  <1>2. a \in Seq(X) /\ Len(a) = k /\ \A i \in 1..k : a[i] = s[i]
    BY <1>1
  <1>3. b \in Seq(X) /\ Len(b) = Len(s) - k /\ \A i \in 1..(Len(s) - k) : b[i] = s[k + i]
    BY <1>1
  <1>4. SubSeq(s, 1, k) \o SubSeq(s, k + 1, Len(s)) = SubSeq(s, 1, Len(s))
    <2>1. 1 \in 1..(Len(s) + 1) /\ k \in (1 - 1)..Len(s) /\ Len(s) \in k..Len(s)
      BY <1>1
    <2>2. QED
      BY <2>1, ConcatAdjacentSubSeq
  <1>5. SubSeq(s, 1, Len(s)) = s
    BY SubSeqFull
  <1>6. QED
    BY <1>2, <1>3, <1>4, <1>5

\* What is trimmed off is spaces.
LEMMA Trimmed ==
    ASSUME NEW X, NEW s \in Seq(X)
    PROVE  \E p, q \in Seq(X) : /\ AllIn(p, {" "}) /\ AllIn(q, {" "})
                                /\ s = p \o (TrimRight(SkipSpaces(s)) \o q)
  <1>1. PICK k \in 0..Len(s) : Skips(s, {" "}, k)
    BY SkipsSome
  <1> DEFINE p == SubSeq(s, 1, k)
             r == SubSeq(s, k + 1, Len(s))
  <1>2. SkipSpaces(s) = r
    BY <1>1, AfterIs DEF SkipSpaces
  <1>3. /\ p \in Seq(X) /\ r \in Seq(X) /\ s = p \o r
        /\ Len(p) = k /\ \A i \in 1..k : p[i] = s[i]
    BY SplitAt, ZenonT(30)
  <1> HIDE DEF p, r
  <1>4. AllIn(p, {" "})
    BY <1>1, <1>3 DEF AllIn, Skips
  <1> HIDE DEF p, r
  <1>5. Reverse(r) \in Seq(X) /\ Len(Reverse(r)) = Len(r)
    BY <1>3, ReverseShape
  <1>6. PICK j \in 0..Len(r) : Skips(Reverse(r), {" "}, j)
    BY <1>5, SkipsSome
  <1> DEFINE item == SubSeq(r, 1, Len(r) - j)
             q == SubSeq(r, (Len(r) - j) + 1, Len(r))
  <1>7. /\ item \in Seq(X) /\ q \in Seq(X) /\ r = item \o q
        /\ Len(item) = Len(r) - j /\ \A i \in 1..(Len(r) - j) : item[i] = r[i]
        /\ Len(q) = j /\ \A i \in 1..j : q[i] = r[(Len(r) - j) + i]
    <2>1. Len(r) - j \in 0..Len(r) /\ Len(r) - (Len(r) - j) = j
      BY <1>3, LenProperties
    <2> DEFINE n == Len(r) - j
    <2>2. /\ item \in Seq(X) /\ q \in Seq(X) /\ r = item \o q
          /\ Len(item) = n /\ \A i \in 1..n : item[i] = r[i]
          /\ Len(q) = Len(r) - n /\ \A i \in 1..(Len(r) - n) : q[i] = r[n + i]
      <3>1. n \in 0..Len(r)
        BY <2>1
      <3> HIDE DEF n
      <3>2. QED
        BY <1>3, <3>1, SplitAt DEF n
    <2>3. QED
      BY <2>1, <2>2
  <1> HIDE DEF item, q
  <1>8. AllIn(q, {" "})
    <2>1. ASSUME NEW i \in 1..Len(q) PROVE q[i] = " "
      <3>1. Len(q) = j /\ Len(r) \in Nat
        BY <1>3, <1>7, LenProperties
      <3>2. i \in 1..j /\ j - i + 1 \in 1..j /\ q[i] = r[(Len(r) - j) + i]
        BY <1>7, <3>1
      <3>3. Reverse(r)[j - i + 1] = r[(Len(r) - (j - i + 1)) + 1]
        BY <3>1, <3>2 DEF Reverse
      <3>4. (Len(r) - (j - i + 1)) + 1 = (Len(r) - j) + i
        BY <3>1
      <3>5. Reverse(r)[j - i + 1] = " "
        BY <1>6, <3>2 DEF Skips
      <3>6. QED
        BY <3>2, <3>3, <3>4, <3>5
    <2>2. QED
      BY <2>1 DEF AllIn
  <1>9. TrimRight(r) = item
    <2>1. After(Reverse(r), {" "}) = SubSeq(Reverse(r), j + 1, Len(r))
      BY <1>5, <1>6, AfterIs, ZenonT(30)
    <2> DEFINE b == SubSeq(Reverse(r), j + 1, Len(r))
    <2>2. /\ b \in Seq(X) /\ Len(b) = Len(r) - j
          /\ \A i \in 1..(Len(r) - j) : b[i] = Reverse(r)[j + i]
      <3> DEFINE rev == Reverse(r)
      <3>1. rev \in Seq(X) /\ Len(rev) = Len(r) /\ j \in 0..Len(rev)
        BY <1>5, <1>6
      <3>2. b = SubSeq(rev, j + 1, Len(rev))
        BY <3>1
      <3> HIDE DEF rev, b
      <3>3. /\ b \in Seq(X) /\ Len(b) = Len(rev) - j
            /\ \A i \in 1..(Len(rev) - j) : b[i] = rev[j + i]
        BY <3>1, <3>2, SplitAt
      <3>4. QED
        BY <3>1, <3>3 DEF rev
    <2> HIDE DEF b
    <2>3. /\ Reverse(b) \in Seq(X) /\ Len(Reverse(b)) = Len(r) - j
      BY <2>2, ReverseShape
    <2>4. ASSUME NEW i \in 1..(Len(r) - j) PROVE Reverse(b)[i] = item[i]
      <3>1. Len(r) \in Nat /\ j \in 0..Len(r)
        BY <1>3, LenProperties
      <3> DEFINE h == (Len(r) - j) - i + 1
      <3>2. h \in 1..(Len(r) - j) /\ j + h \in 1..Len(r) /\ (Len(r) - (j + h)) + 1 = i
        BY <3>1
      <3>3. Reverse(b)[i] = b[h]
        BY <2>2, <3>1, <3>2 DEF Reverse
      <3> HIDE DEF h
      <3>4. b[h] = Reverse(r)[j + h]
        BY <2>2, <3>2
      <3>5. Reverse(r)[j + h] = r[(Len(r) - (j + h)) + 1]
        BY <3>2 DEF Reverse
      <3>6. QED
        BY <1>7, <3>2, <3>3, <3>4, <3>5
    <2>5. Reverse(b) = item
      BY <1>7, <2>3, <2>4, SeqEqual
    <2>6. QED
      BY <2>1, <2>5 DEF TrimRight, b
  <1>10. QED
    BY <1>2, <1>3, <1>4, <1>7, <1>8, <1>9

-----------------------------------------------------------------------------
(***************************************************************************)
(* Lists.                                                                  *)
(***************************************************************************)

\* Cells that are all digits, and what stands behind them.
LEMMA DigitsThen ==
    ASSUME NEW d \in Seq(Cells), Before(d, Digits) # <<>>, After(d, Digits) = <<>>,
           NEW z \in Seq(Cells), z = <<>> \/ Head(z) \notin Digits
    PROVE  /\ d # <<>> /\ Head(d) \in Digits
           /\ After(d \o z, Digits) = z
           /\ Before(d \o z, Digits) = Before(d, Digits)
  <1>1. Before(d, Digits) = d
    <2>1. Len(After(d, Digits)) = 0
      OBVIOUS
    <2>2. Before(d, Digits) = SubSeq(d, 1, Len(d))
      BY <2>1 DEF Before
    <2>3. QED
      BY <2>2, SubSeqFull
  <1>2. d \in Seq(Cells \cap Digits)
    BY <1>1, AfterShape
  <1>3. AllIn(d, Digits)
    <2>1. \A i \in 1..Len(d) : d[i] \in Cells \cap Digits
      BY <1>2, ElementOfSeq
    <2>2. QED
      BY <2>1 DEF AllIn
  <1>4. After(d \o z, Digits) = After(z, Digits) /\ Before(d \o z, Digits) = d \o Before(z, Digits)
    BY <1>3, AfterPrefix
  <1>5. After(z, Digits) = z /\ Before(z, Digits) = <<>>
    BY AfterNothing
  <1>6. d \o <<>> = d
    BY ConcatEmptySeq
  <1>7. d # <<>> /\ Head(d) \in Digits
    <2>1. d # <<>>
      BY <1>1
    <2>2. Head(d) \in Cells \cap Digits
      BY <1>2, <2>1, HeadTailProperties
    <2>3. QED
      BY <2>1, <2>2
  <1>8. QED
    BY <1>1, <1>4, <1>5, <1>6, <1>7

\* An integer, and what stands behind it.
LEMMA IntegerThen ==
    ASSUME NEW u \in Seq(Cells), Integer(u).any, Integer(u).rest = <<>>,
           NEW z \in Seq(Cells), z = <<>> \/ Head(z) \notin Digits
    PROVE  /\ Integer(u \o z) = [any |-> TRUE, int |-> Integer(u).int, rest |-> z]
           /\ u # <<>> /\ Head(u) \in Digits \cup {"-"}
  <1>1. CASE StartsWith(u, "-")
    <2>1. u # <<>> /\ Head(u) = "-" /\ Tail(u) \in Seq(Cells)
      BY <1>1 DEF StartsWith
    <2>2. /\ Integer(u).any = (Before(Tail(u), Digits) # <<>>)
          /\ Integer(u).int = Signed(Spelled(u))
          /\ Spelled(u) = -Number(Before(Tail(u), Digits))
          /\ Integer(u).rest = After(Tail(u), Digits)
      BY <1>1 DEF Integer, Spelled
    <2>3. /\ After(Tail(u) \o z, Digits) = z
          /\ Before(Tail(u) \o z, Digits) = Before(Tail(u), Digits)
      BY <2>1, <2>2, DigitsThen
    <2>4. u \o z # <<>> /\ Head(u \o z) = "-" /\ Tail(u \o z) = Tail(u) \o z
      BY <2>1
    <2>5. StartsWith(u \o z, "-")
      BY <2>4 DEF StartsWith
    <2>6. Integer(u \o z) = [any |-> Before(Tail(u), Digits) # <<>>,
                             int |-> Signed(Spelled(u)), rest |-> z]
      <3>1. Spelled(u \o z) = Spelled(u)
        BY <2>2, <2>3, <2>4, <2>5 DEF Spelled
      <3>2. QED
        BY <2>3, <2>4, <2>5, <3>1 DEF Integer
    <2>7. QED
      BY <2>1, <2>2, <2>6
  <1>2. CASE ~StartsWith(u, "-")
    <2>1. /\ Integer(u).any = (Before(u, Digits) # <<>>)
          /\ Integer(u).int = Signed(Spelled(u))
          /\ Spelled(u) = Number(Before(u, Digits))
          /\ Integer(u).rest = After(u, Digits)
      BY <1>2 DEF Integer, Spelled
    <2>2. /\ u # <<>> /\ Head(u) \in Digits /\ After(u \o z, Digits) = z
          /\ Before(u \o z, Digits) = Before(u, Digits)
      BY <2>1, DigitsThen
    <2>3. u \o z # <<>> /\ Head(u \o z) = Head(u)
      BY <2>2
    <2>4. ~StartsWith(u \o z, "-")
      BY <1>2, <2>2, <2>3 DEF StartsWith
    <2>5. Integer(u \o z) = [any |-> Before(u, Digits) # <<>>,
                             int |-> Signed(Spelled(u)), rest |-> z]
      <3>1. Spelled(u \o z) = Spelled(u)
        BY <2>1, <2>2, <2>4 DEF Spelled
      <3>2. QED
        BY <2>2, <2>4, <3>1 DEF Integer
    <2>6. QED
      BY <2>1, <2>2, <2>5
  <1>3. QED
    BY <1>1, <1>2

LEMMA IntsSame ==
    ASSUME NEW v \in Seq(Cells), NEW w \in Seq(Cells), After(v, Blanks) = After(w, Blanks)
    PROVE  Ints(v) = Ints(w)
  <1>1. Ints(v) = LET i == Integer(After(v, Blanks))
                  IN  IF i.any THEN <<i.int>> \o Ints(i.rest) ELSE <<>>
    BY IntsAre
  <1>2. Ints(w) = LET i == Integer(After(w, Blanks))
                  IN  IF i.any THEN <<i.int>> \o Ints(i.rest) ELSE <<>>
    BY IntsAre
  <1>3. QED
    BY <1>1, <1>2

\* Joining is associative, and what stands behind spaces, an item and spaces.
Associates(s, t, u) == (s \o t) \o u = s \o (t \o u)
Splits(p, item, q, x) ==
    /\ (p \o (item \o q)) \o x = p \o (item \o (q \o x))
    /\ item \o (q \o x) \in Seq(Cells)

LEMMA Joined ==
    ASSUME NEW s \in Seq(Cells), NEW t \in Seq(Cells), NEW u \in Seq(Cells)
    PROVE  Associates(s, t, u)
  BY ConcatAssociative DEF Associates

LEMMA Split ==
    ASSUME NEW p \in Seq(Cells), NEW item \in Seq(Cells), NEW q \in Seq(Cells),
           NEW x \in Seq(Cells)
    PROVE  Splits(p, item, q, x)
  <1> DEFINE iq == item \o q
             qx == q \o x
             all == item \o qx
  <1>1. iq \in Seq(Cells) /\ qx \in Seq(Cells)
    BY ConcatProperties
  <1>2. all \in Seq(Cells)
    <2> HIDE DEF qx
    <2>1. QED
      BY <1>1, ConcatProperties
  <1>3. iq \o x = all
    <2>1. Associates(item, q, x)
      BY Joined
    <2>2. QED
      BY <2>1 DEF Associates
  <1>4. (p \o iq) \o x = p \o (iq \o x)
    <2> HIDE DEF iq
    <2>1. Associates(p, iq, x)
      BY <1>1, Joined
    <2>2. QED
      BY <2>1 DEF Associates
  <1>5. (p \o iq) \o x = p \o all
    <2> HIDE DEF iq, all
    <2>1. QED
      BY <1>3, <1>4
  <1>6. QED
    BY <1>2, <1>5, Zenon DEF Splits

\* An item of a list with spaces around it, and what stands behind it: a comma and
\* more, or the bracket that ends the list.
LEMMA IntsOfItem ==
    ASSUME NEW raw \in Seq(Cells), NEW y \in Seq(Cells),
           LET i == Integer(TrimRight(SkipSpaces(raw))) IN i.any /\ i.rest = <<>>
    PROVE  LET int == Integer(TrimRight(SkipSpaces(raw))).int
           IN  /\ int \in Int
               /\ Ints(raw \o (<<",">> \o y)) = <<int>> \o Ints(y)
               /\ Ints(raw \o <<"]">>) = <<int>>
  <1> DEFINE item == TrimRight(SkipSpaces(raw))
             int == Integer(item).int
  <1>1. PICK p, q \in Seq(Cells) : /\ AllIn(p, {" "}) /\ AllIn(q, {" "})
                                   /\ raw = p \o (item \o q)
    BY Trimmed
  <1>2. item \in Seq(Cells)
    BY TrimShape
  <1> HIDE DEF item
  <1>3. int \in Int
    BY <1>2, IntegerShape
  <1>4. AllIn(p, Blanks) /\ AllIn(q, Blanks)
    BY <1>1 DEF AllIn, Blanks
  <1>5. ASSUME NEW x \in Seq(Cells), x # <<>>, Head(x) \notin Digits
        PROVE  Ints(raw \o x) = <<int>> \o Ints(q \o x)
    <2>1. q \o x \in Seq(Cells) /\ (q \o x = <<>> \/ Head(q \o x) \notin Digits)
      <3>1. q \o x \in Seq(Cells)
        BY ConcatProperties
      <3>2. CASE q = <<>>
        <4>1. q \o x = x
          BY <3>2, ConcatEmptySeq
        <4>2. QED
          BY <1>5, <3>1, <4>1
      <3>3. CASE q # <<>>
        <4>1. Head(q \o x) = q[1] /\ 1 \in 1..Len(q)
          BY <3>3
        <4>2. q[1] \in {" "}
          BY <1>1, <4>1 DEF AllIn
        <4>3. " " \notin Digits
          BY DEF Digits
        <4>4. Head(q \o x) \notin Digits
          BY <4>1, <4>2, <4>3
        <4>5. QED
          BY <3>1, <4>4
      <3>4. QED
        BY <3>2, <3>3
    <2>2. /\ Integer(item \o (q \o x)) = [any |-> TRUE, int |-> int, rest |-> q \o x]
          /\ item # <<>> /\ Head(item) \in Digits \cup {"-"}
      BY <1>2, <2>1, IntegerThen DEF item
    <2>3. raw \o x = p \o (item \o (q \o x)) /\ item \o (q \o x) \in Seq(Cells)
      <3>1. Splits(p, item, q, x)
        BY <1>2, Split
      <3>2. QED
        BY <1>1, <3>1, Zenon DEF Splits
    <2> DEFINE z == item \o (q \o x)
    <2>4. Head(z) = Head(item) /\ z \in Seq(Cells)
      BY <1>2, <2>2, <2>3
    <2>5. After(z, Blanks) = z
      <3>1. Head(z) \notin Blanks
        BY <2>2, <2>4 DEF Blanks, Digits
      <3> HIDE DEF z
      <3>2. QED
        BY <2>4, <3>1, AfterNothing
    <2>6. After(raw \o x, Blanks) = z
      <3> HIDE DEF z
      <3>1. After(p \o z, Blanks) = After(z, Blanks)
        BY <1>4, <2>4, AfterPrefix
      <3>2. QED
        BY <2>3, <2>5, <3>1 DEF z
    <2>7. raw \o x \in Seq(Cells)
      BY ConcatProperties
    <2>8. Ints(raw \o x) = IF Integer(z).any THEN <<Integer(z).int>> \o Ints(Integer(z).rest) ELSE <<>>
      BY <2>6, <2>7, IntsAre
    <2>9. QED
      BY <2>2, <2>8
  <1>6. Ints(raw \o (<<",">> \o y)) = <<int>> \o Ints(y)
    <2> DEFINE x == <<",">> \o y
    <2> DEFINE comma == <<",">>
    <2>0. comma \in Seq(Cells) /\ AllIn(comma, Blanks)
      <3>1. "," \in Cells /\ "," \in Blanks
        BY DEF Blanks, Cells
      <3>2. QED
        BY <3>1, OneCell
    <2>1. x \in Seq(Cells) /\ x # <<>> /\ Head(x) = ","
      <3>1. "," \in Cells
        BY DEF Cells
      <3>2. QED
        BY <3>1, OneCell
    <2> HIDE DEF comma
    <2> HIDE DEF x
    <2>2. Ints(raw \o x) = <<int>> \o Ints(q \o x)
      <3>1. "," \notin Digits
        BY DEF Digits
      <3>2. QED
        BY <1>5, <2>1, <3>1
    <2>3. After(q \o x, Blanks) = After(y, Blanks)
      <3>1. After(q \o x, Blanks) = After(x, Blanks)
        <4>1. x \in Seq(Cells) /\ AllIn(q, Blanks)
          BY <1>4, <2>1
        <4>2. QED
          BY <4>1, AfterPrefix
      <3>2. After(x, Blanks) = After(y, Blanks)
        <4>1. After(comma \o y, Blanks) = After(y, Blanks)
          BY <2>0, AfterPrefix
        <4>2. QED
          BY <4>1 DEF x, comma
      <3>3. QED
        BY <3>1, <3>2
    <2>4. q \o x \in Seq(Cells)
      BY <2>1, ConcatProperties
    <2>5. Ints(q \o x) = Ints(y)
      BY <2>3, <2>4, IntsSame
    <2>6. QED
      BY <2>2, <2>5 DEF x
  <1>7. Ints(raw \o <<"]">>) = <<int>>
    <2> DEFINE x == <<"]">>
    <2>1. x \in Seq(Cells) /\ x # <<>> /\ Head(x) = "]"
      <3>1. "]" \in Cells
        BY DEF Cells
      <3>2. QED
        BY <3>1
    <2> HIDE DEF x
    <2>2. Ints(raw \o x) = <<int>> \o Ints(q \o x)
      <3>1. "]" \notin Digits
        BY DEF Digits
      <3>2. QED
        BY <1>5, <2>1, <3>1
    <2>3. After(q \o x, Blanks) = x
      <3>1. After(q \o x, Blanks) = After(x, Blanks)
        <4>1. x \in Seq(Cells) /\ AllIn(q, Blanks)
          BY <1>4, <2>1
        <4>2. QED
          BY <4>1, AfterPrefix
      <3>2. After(x, Blanks) = x
        BY <2>1, AfterNothing DEF Blanks
      <3>3. QED
        BY <3>1, <3>2
    <2>4. ~Integer(x).any
      <3>1. ~StartsWith(x, "-")
        BY <2>1 DEF StartsWith
      <3>2. Before(x, Digits) = <<>>
        BY <2>1, AfterNothing DEF Digits
      <3>3. QED
        BY <3>1, <3>2 DEF Integer
    <2>5. q \o x \in Seq(Cells)
      BY <2>1, ConcatProperties
    <2>6. Ints(q \o x) = <<>>
      BY <2>3, <2>4, <2>5, IntsAre
    <2>7. <<int>> \o <<>> = <<int>>
      BY <1>3, ConcatEmptySeq
    <2>8. QED
      BY <2>2, <2>6, <2>7 DEF x
  <1>8. QED
    BY <1>3, <1>6, <1>7 DEF item

-----------------------------------------------------------------------------
(***************************************************************************)
(* Positions in their order.                                               *)
(***************************************************************************)

Positions(C) == C \subseteq Nat /\ IsFiniteSet(C)
Rank(C, i) == Cardinality({j \in C : j < i})

LEMMA RankGrows ==
    ASSUME NEW C, Positions(C), NEW i \in C, NEW j \in Nat, i < j
    PROVE  /\ Rank(C, i) \in Nat /\ Rank(C, j) \in Nat
           /\ Rank(C, i) < Rank(C, j)
           /\ Rank(C, j) <= Cardinality(C)
  <1> DEFINE A == {m \in C : m < i}
             B == {m \in C : m < j}
  <1>1. A \subseteq B /\ B \subseteq C /\ A # B
    <2>1. i \in Nat /\ i \in B /\ i \notin A
      BY DEF Positions
    <2>2. \A m \in C : m < i => m < j
      BY <2>1 DEF Positions
    <2>3. QED
      BY <2>1, <2>2
  <1>2. IsFiniteSet(B) /\ Cardinality(B) <= Cardinality(C)
    BY <1>1, FS_Subset DEF Positions
  <1> HIDE DEF A, B
  <1>3. IsFiniteSet(A) /\ Cardinality(A) <= Cardinality(B) /\ Cardinality(A) # Cardinality(B)
    BY <1>1, <1>2, FS_Subset
  <1>4. Cardinality(A) \in Nat /\ Cardinality(B) \in Nat
    BY <1>2, <1>3, FS_CardinalityType
  <1>5. QED
    BY <1>2, <1>3, <1>4 DEF A, B, Rank

LEMMA RankType ==
    ASSUME NEW C, Positions(C), NEW i \in C
    PROVE  /\ Cardinality(C) \in Nat
           /\ Rank(C, i) \in 0..(Cardinality(C) - 1)
  <1> DEFINE A == {m \in C : m < i}
  <1>1. A \subseteq C /\ A # C
    BY DEF Positions
  <1> HIDE DEF A
  <1>2. IsFiniteSet(A) /\ Cardinality(A) <= Cardinality(C) /\ Cardinality(A) # Cardinality(C)
    BY <1>1, FS_Subset DEF Positions
  <1>3. Cardinality(A) \in Nat /\ Cardinality(C) \in Nat
    BY <1>2, FS_CardinalityType DEF Positions
  <1>4. QED
    BY <1>2, <1>3 DEF A, Rank

LEMMA RankTellsApart ==
    ASSUME NEW C, Positions(C), NEW i \in C, NEW j \in C, Rank(C, i) = Rank(C, j)
    PROVE  i = j
  <1>1. i \in Nat /\ j \in Nat
    BY DEF Positions
  <1>2. ~(i < j)
    BY <1>1, RankGrows
  <1>3. ~(j < i)
    BY <1>1, RankGrows
  <1>4. QED
    BY <1>1, <1>2, <1>3

LEMMA NthIs ==
    ASSUME NEW C, Positions(C), NEW i \in C, NEW k, Rank(C, i) = k - 1
    PROVE  Nth(C, k) = i
  <1>1. Nth(C, k) = CHOOSE j \in C : Rank(C, j) = k - 1
    BY DEF Nth, Rank
  <1>2. Nth(C, k) \in C /\ Rank(C, Nth(C, k)) = k - 1
    BY <1>1
  <1>3. QED
    BY <1>2, RankTellsApart

LEMMA NthShape ==
    ASSUME NEW C, Positions(C), NEW k \in 1..Cardinality(C)
    PROVE  Nth(C, k) \in C /\ Rank(C, Nth(C, k)) = k - 1
  <1> DEFINE N == Cardinality(C)
             f == [i \in C |-> Rank(C, i) + 1]
  <1>1. N \in Nat
    BY FS_CardinalityType DEF Positions
  <1>2. f \in Injection(C, 1..N)
    <2>1. f \in [C -> 1..N]
      <3>1. ASSUME NEW i \in C PROVE Rank(C, i) + 1 \in 1..N
        BY <1>1, RankType
      <3>2. QED
        BY <3>1
    <2>2. ASSUME NEW i \in C, NEW j \in C, f[i] = f[j] PROVE i = j
      <3>1. Rank(C, i) \in Nat /\ Rank(C, j) \in Nat
        BY <1>1, RankType
      <3>2. Rank(C, i) = Rank(C, j)
        BY <2>2, <3>1
      <3>3. QED
        BY <3>2, RankTellsApart
    <2> HIDE DEF f, N
    <2>3. QED
      BY <2>1, <2>2 DEF Injection, IsInjective
  <1>3. IsFiniteSet(1..N) /\ Cardinality(1..N) = N
    <2>1. /\ IsFiniteSet(1..N)
          /\ Cardinality(1..N) = IF 1 > N THEN 0 ELSE N - 1 + 1
      BY <1>1, FS_Interval
    <2>2. QED
      BY <1>1, <2>1
  <1>4. f \in Surjection(C, 1..N)
    <2> HIDE DEF f
    <2> QED
      BY <1>2, <1>3, FS_Injection
  <1>5. PICK i \in C : f[i] = k
    <2> HIDE DEF f
    <2> QED
      BY <1>4 DEF Surjection
  <1>6. Rank(C, i) = k - 1
    BY <1>1, <1>5, RankType
  <1>7. QED
    BY <1>6, NthIs

\* No position lies between two that follow each other.
LEMMA NthNext ==
    ASSUME NEW C, Positions(C), NEW k \in 1..(Cardinality(C) - 1)
    PROVE  /\ Nth(C, k) < Nth(C, k + 1)
           /\ \A i \in C : i <= Nth(C, k) \/ Nth(C, k + 1) <= i
  <1>1. Cardinality(C) \in Nat
    BY FS_CardinalityType DEF Positions
  <1>2. k \in 1..Cardinality(C) /\ k + 1 \in 1..Cardinality(C) /\ k \in Nat /\ (k + 1) - 1 = k
    BY <1>1
  <1> DEFINE a == Nth(C, k)
             b == Nth(C, k + 1)
  <1>3. /\ a \in C /\ Rank(C, a) = k - 1
        /\ b \in C /\ Rank(C, b) = k
    BY <1>2, NthShape
  <1>4. a \in Nat /\ b \in Nat
    BY <1>3 DEF Positions
  <1> HIDE DEF a, b
  <1>5. a < b
    <2>1. a # b
      BY <1>2, <1>3
    <2>2. ~(b < a)
      <3>1. b < a => k < k - 1
        BY <1>3, <1>4, RankGrows
      <3>2. QED
        BY <1>2, <3>1
    <2>3. QED
      BY <1>4, <2>1, <2>2
  <1>6. ASSUME NEW i \in C, a < i, i < b PROVE FALSE
    <2>1. i \in Nat
      BY DEF Positions
    <2>2. Rank(C, a) < Rank(C, i) /\ Rank(C, i) < Rank(C, b) /\ Rank(C, i) \in Nat
      BY <1>3, <1>4, <1>6, <2>1, RankGrows
    <2>3. QED
      BY <1>2, <1>3, <2>2
  <1>7. \A i \in C : i \in Nat
    BY DEF Positions
  <1>8. QED
    BY <1>4, <1>5, <1>6, <1>7 DEF a, b

\* What is picked, when a position is added behind the others.
LEMMA PickedAppend ==
    ASSUME NEW C, Positions(C), NEW n \in Nat, \A i \in C : i < n, NEW s
    PROVE  /\ Positions(C \cup {n})
           /\ Cardinality(C \cup {n}) = Cardinality(C) + 1
           /\ \A k \in 1..Cardinality(C) : Picked(s, C \cup {n})[k] = Picked(s, C)[k]
           /\ Picked(s, C \cup {n})[Cardinality(C) + 1] = s[n]
  <1> DEFINE D == C \cup {n}
             N == Cardinality(C)
  <1>1. n \notin C
    OBVIOUS
  <1>2. Positions(D) /\ Cardinality(D) = N + 1 /\ N \in Nat
    BY <1>1, FS_AddElement, FS_CardinalityType DEF Positions
  <1>3. Rank(D, n) = N
    <2>1. {j \in D : j < n} = C
      BY <1>1
    <2>2. QED
      BY <2>1 DEF Rank
  <1>4. ASSUME NEW i \in C PROVE Rank(D, i) = Rank(C, i)
    <2>1. i \in Nat /\ i < n
      BY DEF Positions
    <2>2. {j \in D : j < i} = {j \in C : j < i}
      BY <2>1
    <2>3. QED
      BY <2>2 DEF Rank
  <1> HIDE DEF D
  <1>5. n \in D /\ C \subseteq D
    BY DEF D
  <1>6. Nth(D, N + 1) = n
    <2>1. Rank(D, n) = (N + 1) - 1
      BY <1>2, <1>3
    <2>2. QED
      BY <1>2, <1>5, <2>1, NthIs
  <1>7. ASSUME NEW k \in 1..N PROVE Nth(D, k) = Nth(C, k)
    <2>1. Nth(C, k) \in C /\ Rank(C, Nth(C, k)) = k - 1
      BY NthShape
    <2>2. QED
      BY <1>2, <1>4, <1>5, <2>1, NthIs
  <1>8. N + 1 \in 1..(N + 1) /\ \A k \in 1..N : k \in 1..(N + 1)
    BY <1>2
  <1>9. Picked(s, D)[N + 1] = s[n] /\ \A k \in 1..N : Picked(s, D)[k] = Picked(s, C)[k]
    BY <1>2, <1>6, <1>7, <1>8 DEF Picked
  <1>10. QED
    BY <1>2, <1>9 DEF D

-----------------------------------------------------------------------------
(***************************************************************************)
(* The integers of a list.                                                 *)
(***************************************************************************)

\* The separators of a list: an opening bracket, commas, and the bracket that closes
\* it, if it is closed.
LEMMA Listed ==
    ASSUME NEW v \in Seq(Cells), IsList(v)
    PROVE  LET C == Separators(v)
               K == Items(v)
           IN  /\ K \in Nat
               /\ Nth(C, 1) = 1
               /\ \A k \in 1..(K + 1) : Nth(C, k) \in 1..Len(v)
               /\ \A k \in 1..K : /\ Nth(C, k) < Nth(C, k + 1)
                                  /\ \/ v[Nth(C, k + 1)] = ","
                                     \/ v[Nth(C, k + 1)] = "]" /\ Nth(C, k + 1) = Len(v)
               /\ Last(v) = "]" => Nth(C, K + 1) = Len(v)
  <1> DEFINE C == Separators(v)
             N == Cardinality(C)
             K == N - 1
  <1>1. C \subseteq 1..Len(v) /\ Len(v) \in Nat
    <2>1. Len(v) \in Nat
      OBVIOUS
    <2>2. C \subseteq 1..Len(v)
      BY DEF Separators
    <2>3. QED
      BY <2>1, <2>2
  <1>2. Positions(C)
    <2>1. IsFiniteSet(1..Len(v))
      BY <1>1, FS_Interval
    <2>2. IsFiniteSet(C)
      BY <1>1, <2>1, FS_Subset
    <2>3. QED
      BY <1>1, <2>2 DEF Positions
  <1>3. v # <<>> /\ v[1] = "[" /\ 1 \in 1..Len(v) /\ Len(v) \in 1..Len(v)
    BY <1>1 DEF IsList
  <1>4. 1 \in C
    BY <1>3 DEF Separators
  <1>4a. \A c \in C : c = 1 \/ v[c] = "," \/ (v[c] = "]" /\ c = Len(v))
    <2> SUFFICES ASSUME NEW c \in C, c # 1
                 PROVE  v[c] = "," \/ (v[c] = "]" /\ c = Len(v))
      OBVIOUS
    <2>1. v[c] \in {"[", ",", "]"}
      BY DEF Separators
    <2>2. c \in 2..Len(v)
      BY <1>1
    <2>3. v[c] # "[" /\ (v[c] = "]" => c = Len(v))
      BY <2>2 DEF IsList
    <2>4. QED
      BY <2>1, <2>3
  <1>4b. Last(v) = "]" => Len(v) \in C
    BY <1>3 DEF Last, Separators
  <1> HIDE DEF C
  <1>5. Rank(C, 1) = 0
    <2>1. \A j \in C : ~(j < 1)
      BY <1>1
    <2>2. {j \in C : j < 1} = {}
      BY <2>1
    <2>3. QED
      BY <2>2, FS_EmptySet DEF Rank
  <1>6. N \in Nat
    BY <1>2, FS_CardinalityType DEF Positions
  <1>7. K \in Nat
    <2>1. N # 0
      BY <1>2, <1>4, FS_EmptySet DEF Positions
    <2>2. QED
      BY <1>6, <2>1
  <1>8. Nth(C, 1) = 1
    <2>1. Rank(C, 1) = 1 - 1
      BY <1>5
    <2>2. QED
      BY <1>2, <1>4, <2>1, NthIs
  <1>9. ASSUME NEW k \in 1..(K + 1) PROVE Nth(C, k) \in C /\ Nth(C, k) \in 1..Len(v)
    <2>1. k \in 1..N
      BY <1>6
    <2>2. QED
      BY <1>1, <1>2, <2>1, NthShape
  <1>10. ASSUME NEW k \in 1..K
         PROVE  /\ Nth(C, k) < Nth(C, k + 1)
                /\ \/ v[Nth(C, k + 1)] = ","
                   \/ v[Nth(C, k + 1)] = "]" /\ Nth(C, k + 1) = Len(v)
    <2>1. k \in 1..(N - 1) /\ k \in 1..(K + 1) /\ k + 1 \in 1..(K + 1)
      BY <1>6
    <2>2. Nth(C, k) < Nth(C, k + 1)
      BY <1>2, <2>1, NthNext
    <2>3. Nth(C, k) \in 1..Len(v) /\ Nth(C, k + 1) \in 1..Len(v) /\ Nth(C, k + 1) \in C
      BY <1>9, <2>1
    <2>4. Nth(C, k + 1) # 1
      BY <1>1, <2>2, <2>3
    <2>5. QED
      BY <1>4a, <2>2, <2>3, <2>4
  <1>11. ASSUME Last(v) = "]" PROVE Nth(C, K + 1) = Len(v)
    <2>1. {j \in C : j < Len(v)} = C \ {Len(v)}
      <3>1. \A j \in C : j < Len(v) <=> j # Len(v)
        BY <1>1
      <3>2. QED
        BY <3>1
    <2>2. Cardinality(C \ {Len(v)}) = N - 1
      BY <1>2, <1>4b, <1>11, FS_RemoveElement DEF Positions
    <2>3. Rank(C, Len(v)) = (K + 1) - 1
      <3>1. Rank(C, Len(v)) = Cardinality({j \in C : j < Len(v)})
        BY DEF Rank
      <3>2. Rank(C, Len(v)) = N - 1
        BY <2>1, <2>2, <3>1
      <3> HIDE DEF N
      <3>3. N - 1 = ((N - 1) + 1) - 1
        BY <1>6
      <3>4. QED
        BY <3>2, <3>3
    <2> HIDE DEF K
    <2>4. QED
      BY <1>2, <1>4b, <1>11, <2>3, NthIs
  <1>12. Items(v) = K
    BY DEF Items, C
  <1> HIDE DEF K
  <1>13. QED
    BY <1>7, <1>8, <1>9, <1>10, <1>11, <1>12 DEF C

LEMMA CutOut ==
    ASSUME NEW X, NEW s \in Seq(X), NEW a \in 0..Len(s), NEW b \in (a + 1)..Len(s)
    PROVE  /\ SubSeq(s, a + 1, Len(s))
              = SubSeq(s, a + 1, b - 1) \o (<<s[b]>> \o SubSeq(s, b + 1, Len(s)))
           /\ SubSeq(s, a + 1, b - 1) \in Seq(X)
           /\ SubSeq(s, b + 1, Len(s)) \in Seq(X)
  <1>1. Len(s) \in Nat /\ \A i \in 1..Len(s) : s[i] \in X
    BY LenProperties, ElementOfSeq
  <1>2. /\ a + 1 \in 1..(Len(s) + 1) /\ b - 1 \in ((a + 1) - 1)..Len(s) /\ Len(s) \in (b - 1)..Len(s)
        /\ (b - 1) + 1 = b /\ b \in 1..Len(s) /\ Len(s) \in b..Len(s)
    BY <1>1
  <1>3. SubSeq(s, a + 1, b - 1) \o SubSeq(s, (b - 1) + 1, Len(s)) = SubSeq(s, a + 1, Len(s))
    BY <1>2, ConcatAdjacentSubSeq
  <1>4. SubSeq(s, b, Len(s)) = <<s[b]>> \o SubSeq(s, b + 1, Len(s))
    BY <1>2, SubSeqRecursiveFirst
  <1>5. SubSeq(s, a + 1, b - 1) \in Seq(X)
    <2>1. \A i \in (a + 1)..(b - 1) : s[i] \in X
      BY <1>1
    <2>2. a + 1 \in Int /\ b - 1 \in Int
      BY <1>1
    <2>3. QED
      BY <2>1, <2>2, SubSeqProperties
  <1>6. SubSeq(s, b + 1, Len(s)) \in Seq(X)
    <2>1. \A i \in (b + 1)..Len(s) : s[i] \in X
      BY <1>1
    <2>2. b + 1 \in Int /\ Len(s) \in Int
      BY <1>1
    <2>3. QED
      BY <2>1, <2>2, SubSeqProperties
  <1>7. QED
    BY <1>2, <1>3, <1>4, <1>5, <1>6

\* The same of integers, and what int_array() makes of nothing.
LEMMA JoinedInts ==
    ASSUME NEW s \in Seq(Int), NEW t \in Seq(Int), NEW u \in Seq(Int)
    PROVE  Associates(s, t, u)
  BY ConcatAssociative DEF Associates

LEMMA IntsOfNothing == Ints(<<>>) = <<>>
  <1>1. <<>> \in Seq(Cells)
    BY EmptySeq
  <1>2. After(<<>>, Blanks) = <<>> /\ Before(<<>>, Digits) = <<>>
    BY <1>1, AfterNothing
  <1>3. ~StartsWith(<<>>, "-")
    BY DEF StartsWith
  <1>4. ~Integer(<<>>).any
    BY <1>2, <1>3 DEF Integer
  <1>5. QED
    BY <1>1, <1>2, <1>4, IntsAre

\* The loop of int_array() gives the integers of a list whose items are integers, and
\* after them what it makes of an item that nothing ends.
LEMMA IntsOfList ==
    ASSUME NEW v \in Seq(Cells), IsList(v), \A n \in 1..Items(v) : IsInt(Item(v, n))
    PROVE  LET spelled == [n \in 1..Items(v) |-> Spelled(Item(v, n))]
           IN  /\ Items(v) \in Nat /\ spelled \in Seq(Int) /\ Len(spelled) = Items(v)
               /\ \E more \in Seq(Int) : /\ Ints(Tail(v)) = spelled \o more
                                         /\ Last(v) = "]" => more = <<>>
  <1> DEFINE C == Separators(v)
             K == Items(v)
             F == [n \in 1..K |-> Spelled(Item(v, n))]
             From(k) == SubSeq(v, Nth(C, k) + 1, Len(v))
             Raw(k) == SubSeq(v, Nth(C, k) + 1, Nth(C, k + 1) - 1)
             More == Ints(From(K + 1))
  <1>1. /\ K \in Nat /\ Nth(C, 1) = 1
        /\ \A k \in 1..(K + 1) : Nth(C, k) \in 1..Len(v)
        /\ \A k \in 1..K : /\ Nth(C, k) < Nth(C, k + 1)
                           /\ \/ v[Nth(C, k + 1)] = ","
                              \/ v[Nth(C, k + 1)] = "]" /\ Nth(C, k + 1) = Len(v)
        /\ Last(v) = "]" => Nth(C, K + 1) = Len(v)
    BY Listed
  <1>1a. K \in Nat /\ Nth(C, 1) = 1
    BY <1>1
  <1>2. Len(v) \in Nat /\ v # <<>>
    BY LenProperties DEF IsList
  <1>3. \A n \in 1..K : Item(v, n) = TrimRight(SkipSpaces(Raw(n)))
    BY DEF Item
  <1>3a. \A n \in 1..K : IsInt(Item(v, n))
    OBVIOUS
  <1> HIDE DEF C, K
  <1>4. ASSUME NEW k \in 1..K
        PROVE  /\ From(k) = Raw(k) \o (<<v[Nth(C, k + 1)]>> \o From(k + 1))
               /\ Raw(k) \in Seq(Cells) /\ From(k + 1) \in Seq(Cells)
    <2> DEFINE a == Nth(C, k)
               b == Nth(C, k + 1)
    <2>1. a \in 1..Len(v) /\ b \in 1..Len(v) /\ a < b
      <3>1. k \in 1..(K + 1) /\ k + 1 \in 1..(K + 1)
        BY <1>1a
      <3>2. QED
        BY <1>1, <3>1
    <2> HIDE DEF a, b
    <2>2. a \in 0..Len(v) /\ b \in (a + 1)..Len(v)
      BY <1>2, <2>1
    <2>3. /\ SubSeq(v, a + 1, Len(v))
             = SubSeq(v, a + 1, b - 1) \o (<<v[b]>> \o SubSeq(v, b + 1, Len(v)))
          /\ SubSeq(v, a + 1, b - 1) \in Seq(Cells)
          /\ SubSeq(v, b + 1, Len(v)) \in Seq(Cells)
      BY <2>2, CutOut
    <2>4. QED
      BY <2>3 DEF a, b
  <1>5. ASSUME NEW n \in 1..K
        PROVE  LET i == Integer(TrimRight(SkipSpaces(Raw(n))))
               IN  i.any /\ i.rest = <<>> /\ F[n] = i.int /\ i.int \in Int
    <2>1. /\ Integer(Item(v, n)).any /\ Integer(Item(v, n)).rest = <<>>
          /\ Spelled(Item(v, n)) \in IntRange
      BY <1>3a DEF IsInt
    <2>2. TrimRight(SkipSpaces(Raw(n))) \in Seq(Cells)
      BY <1>4, TrimShape
    <2>3. Item(v, n) \in Seq(Cells)
      BY <1>3, <2>2
    <2>4. Integer(Item(v, n)).int = Spelled(Item(v, n)) /\ Integer(Item(v, n)).int \in Int
      BY <2>1, <2>3, IntegerShape
    <2>5. QED
      BY <1>3, <2>1, <2>4
  <1>6. F \in Seq(Int) /\ Len(F) = K
    <2>1. F \in [1..K -> Int]
      BY <1>5
    <2> HIDE DEF F
    <2>2. K \in Nat
      BY <1>1a
    <2>3. F \in Seq(Int)
      BY <2>1, <2>2, IsASeq
    <2>4. DOMAIN F = 1..K /\ DOMAIN F = 1..Len(F) /\ Len(F) \in Nat
      BY <2>1, <2>3, LenProperties
    <2>5. QED
      BY <2>2, <2>3, <2>4
  <1>7. \A n \in 1..K : F[n] = Integer(TrimRight(SkipSpaces(Raw(n)))).int
    BY <1>5
  <1>7a. F = [n \in 1..K |-> Spelled(Item(v, n))]
    OBVIOUS
  <1>8. From(K + 1) \in Seq(Cells) /\ More \in Seq(Int)
    <2>1. Nth(C, K + 1) \in 1..Len(v)
      <3>1. K + 1 \in 1..(K + 1)
        BY <1>1a
      <3>2. QED
        BY <1>1, <3>1
    <2>2. From(K + 1) \in Seq(Cells)
      <3> DEFINE a == Nth(C, K + 1)
      <3>1. \A i \in (a + 1)..Len(v) : v[i] \in Cells
        BY <1>2, <2>1
      <3>2. a + 1 \in Int /\ Len(v) \in Int
        BY <1>2, <2>1
      <3> HIDE DEF a
      <3>3. SubSeq(v, a + 1, Len(v)) \in Seq(Cells)
        BY <3>1, <3>2, SubSeqProperties
      <3>4. QED
        BY <3>3 DEF a
    <2> HIDE DEF From
    <2>3. QED
      BY <2>2, IntsAre
  <1>9. ASSUME NEW k \in 1..K PROVE Ints(From(k)) = <<F[k]>> \o Ints(From(k + 1))
    <2> DEFINE raw == Raw(k)
               y == From(k + 1)
               i == Integer(TrimRight(SkipSpaces(raw)))
    <2>1. /\ raw \in Seq(Cells) /\ y \in Seq(Cells)
          /\ i.any /\ i.rest = <<>> /\ F[k] = i.int /\ F[k] \in Int
      BY <1>4, <1>5
    <2>2. From(k) = raw \o (<<v[Nth(C, k + 1)]>> \o y)
      BY <1>4
    <2>3. CASE v[Nth(C, k + 1)] = ","
      <3> HIDE DEF raw, y, F, From
      <3>1. Ints(raw \o (<<",">> \o y)) = <<i.int>> \o Ints(y)
        BY <2>1, IntsOfItem
      <3>2. Ints(From(k)) = <<F[k]>> \o Ints(y)
        BY <2>1, <2>2, <2>3, <3>1
      <3>3. QED
        BY <3>2 DEF y
    <2>4. CASE v[Nth(C, k + 1)] = "]" /\ Nth(C, k + 1) = Len(v)
      <3>1. y = <<>>
        <4>1. Len(v) + 1 > Len(v) /\ Len(v) + 1 \in Int
          BY <1>2
        <4>2. SubSeq(v, Len(v) + 1, Len(v)) = <<>>
          BY <1>2, <4>1, SubSeqEmpty
        <4>3. QED
          BY <2>4, <4>2
      <3>2. <<"]">> \o <<>> = <<"]">>
        <4>1. "]" \in Cells
          BY DEF Cells
        <4>2. QED
          BY <4>1, OneCell, ConcatEmptySeq
      <3> HIDE DEF raw, y, F, From
      <3>3. From(k) = raw \o <<"]">>
        BY <2>2, <2>4, <3>1, <3>2
      <3>4. Ints(raw \o <<"]">>) = <<i.int>>
        BY <2>1, IntsOfItem
      <3>5. <<F[k]>> \o <<>> = <<F[k]>>
        BY <2>1, ConcatEmptySeq
      <3>6. Ints(y) = <<>>
        BY <3>1, IntsOfNothing
      <3>7. Ints(From(k)) = <<F[k]>> \o Ints(y)
        BY <2>1, <3>3, <3>4, <3>5, <3>6
      <3>8. QED
        BY <3>7 DEF y
    <2>5. QED
      BY <1>1, <2>3, <2>4
  <1>10. Last(v) = "]" => More = <<>>
    <2> SUFFICES ASSUME Last(v) = "]" PROVE More = <<>>
      OBVIOUS
    <2>1. Len(v) + 1 > Len(v) /\ Len(v) + 1 \in Int
      BY <1>2
    <2>2. SubSeq(v, Len(v) + 1, Len(v)) = <<>>
      BY <1>2, <2>1, SubSeqEmpty
    <2>3. From(K + 1) = <<>>
      BY <1>1, <2>2
    <2> HIDE DEF From
    <2>4. QED
      BY <2>3, IntsOfNothing
  <1>11. From(1) = Tail(v)
    <2>1. Nth(C, 1) + 1 = 2
      BY <1>1a
    <2>2. SubSeq(v, 2, Len(v)) = Tail(v)
      BY <1>2, TailIsSubSeq
    <2>3. QED
      BY <2>1, <2>2
  <1> HIDE DEF F, From, Raw, More
  <1> DEFINE R(d) == Ints(From(K + 1 - d)) = SubSeq(F, K + 1 - d, K) \o More
             P == {d \in Nat : d <= K => R(d)}
  <1>12. 0 \in P
    <2>1. K + 1 - 0 = K + 1
      BY <1>1a
    <2>2. SubSeq(F, K + 1, K) = <<>>
      BY <1>1a, SubSeqEmpty
    <2>3. <<>> \o More = More
      BY <1>8, ConcatEmptySeq
    <2>4. Ints(From(K + 1)) = SubSeq(F, K + 1, K) \o More
      BY <2>2, <2>3 DEF More
    <2>5. QED
      BY <2>1, <2>4
  <1>13. ASSUME NEW d \in Nat, d \in P PROVE d + 1 \in P
    <2> SUFFICES ASSUME d + 1 <= K PROVE R(d + 1)
      <3> HIDE DEF R
      <3> QED
        OBVIOUS
    <2> DEFINE k == K + 1 - (d + 1)
    <2>1. k \in 1..K /\ k + 1 = K + 1 - d /\ d <= K /\ K \in k..K /\ k + 1 \in 1..(K + 1)
      BY <1>1a
    <2>2. Ints(From(k + 1)) = SubSeq(F, k + 1, K) \o More
      <3>1. R(d)
        <4> HIDE DEF R
        <4> QED
          BY <1>13, <2>1
      <3>2. QED
        BY <2>1, <3>1
    <2> HIDE DEF k
    <2>3. Ints(From(k)) = <<F[k]>> \o Ints(From(k + 1))
      BY <1>9, <2>1
    <2>4. SubSeq(F, k, K) = <<F[k]>> \o SubSeq(F, k + 1, K)
      BY <1>6, <2>1, SubSeqRecursiveFirst
    <2> DEFINE one == <<F[k]>>
               tail == SubSeq(F, k + 1, K)
    <2>5. one \in Seq(Int) /\ tail \in Seq(Int)
      <3>1. F[k] \in Int
        BY <1>6, <2>1, ElementOfSeq
      <3>2. \A j \in (k + 1)..K : F[j] \in Int
        BY <1>1a, <1>6, <2>1, ElementOfSeq
      <3>3. k + 1 \in Int /\ K \in Int
        BY <1>1a, <2>1
      <3>4. QED
        BY <3>1, <3>2, <3>3, IsASeq, SubSeqProperties
    <2> HIDE DEF one, tail
    <2>6. (one \o tail) \o More = one \o (tail \o More)
      <3>1. More \in Seq(Int)
        BY <1>8
      <3>2. QED
        BY <2>5, <3>1, JoinedInts DEF Associates
    <2>7. Ints(From(k)) = SubSeq(F, k, K) \o More
      BY <2>2, <2>3, <2>4, <2>6 DEF one, tail
    <2>8. QED
      BY <2>7 DEF k
  <1>14. Nat \subseteq P
    <2> HIDE DEF P
    <2> QED
      BY <1>12, <1>13, InductionOnNat
  <1>15. Ints(From(1)) = SubSeq(F, 1, K) \o More
    <2>1. K + 1 - K = 1 /\ K <= K
      BY <1>1a
    <2>2. K \in P
      <3> HIDE DEF P
      <3> QED
        BY <1>1a, <1>14
    <2>3. QED
      BY <2>1, <2>2
  <1>16. SubSeq(F, 1, K) = F
    BY <1>6, SubSeqFull
  <1>17. Ints(Tail(v)) = F \o More
    BY <1>11, <1>15, <1>16
  <1>18. QED
    BY <1>1a, <1>6, <1>7a, <1>8, <1>10, <1>17 DEF K

-----------------------------------------------------------------------------
(***************************************************************************)
(* Some cells of a text, and some more of them.                            *)
(***************************************************************************)

\* A function on the first numbers is a sequence.
LEMMA SeqOfFunction ==
    ASSUME NEW X, NEW n \in Nat, NEW f \in [1..n -> X]
    PROVE  f \in Seq(X) /\ Len(f) = n
  <1>1. f = [i \in 1..n |-> f[i]] /\ \A i \in 1..n : f[i] \in X
    OBVIOUS
  <1>2. [i \in 1..n |-> f[i]] \in Seq(X)
    BY <1>1, IsASeq
  <1>3. f \in Seq(X)
    BY <1>1, <1>2
  <1>4. DOMAIN f = 1..n /\ DOMAIN f = 1..Len(f) /\ Len(f) \in Nat
    BY <1>3, LenProperties
  <1>5. QED
    BY <1>4

\* What is picked depends on the picked positions only.
LEMMA PickedSame ==
    ASSUME NEW C, Positions(C), NEW f, NEW g, \A i \in C : f[i] = g[i]
    PROVE  Picked(f, C) = Picked(g, C)
  <1>1. \A k \in 1..Cardinality(C) : Nth(C, k) \in C
    BY NthShape
  <1>2. QED
    BY <1>1 DEF Picked

LEMMA PickedType ==
    ASSUME NEW C, Positions(C), NEW X, NEW f, \A i \in C : f[i] \in X
    PROVE  /\ Cardinality(C) \in Nat
           /\ Picked(f, C) \in Seq(X) /\ Len(Picked(f, C)) = Cardinality(C)
           /\ \A k \in 1..Cardinality(C) : Nth(C, k) \in C /\ Picked(f, C)[k] = f[Nth(C, k)]
  <1>1. \A k \in 1..Cardinality(C) : Nth(C, k) \in C
    BY NthShape
  <1>2. Cardinality(C) \in Nat
    BY FS_CardinalityType DEF Positions
  <1>3. Picked(f, C) = [k \in 1..Cardinality(C) |-> f[Nth(C, k)]]
    BY DEF Picked
  <1>4. \A k \in 1..Cardinality(C) : f[Nth(C, k)] \in X
    BY <1>1
  <1>5. Picked(f, C) \in [1..Cardinality(C) -> X]
    BY <1>3, <1>4
  <1> DEFINE N == Cardinality(C)
             p == Picked(f, C)
  <1> HIDE DEF N, p
  <1>6. p \in Seq(X) /\ Len(p) = N
    <2>1. p \in [1..N -> X] /\ N \in Nat
      BY <1>2, <1>5 DEF N, p
    <2>2. QED
      BY <2>1, SeqOfFunction
  <1>7. QED
    BY <1>1, <1>2, <1>3, <1>6 DEF N, p

\* One position more, behind the others.
LEMMA PickedMore ==
    ASSUME NEW C, Positions(C), NEW n \in Nat, \A i \in C : i < n,
           NEW X, NEW f, \A i \in C \cup {n} : f[i] \in X
    PROVE  Picked(f, C \cup {n}) = Append(Picked(f, C), f[n])
  <1> DEFINE D == C \cup {n}
             N == Cardinality(C)
             p == Picked(f, C)
             q == Picked(f, D)
  <1>1. /\ Positions(D) /\ Cardinality(D) = N + 1
        /\ \A k \in 1..N : q[k] = p[k]
        /\ q[N + 1] = f[n]
    BY PickedAppend
  <1>2. N \in Nat /\ p \in Seq(X) /\ Len(p) = N
    BY PickedType
  <1>3. q \in Seq(X) /\ Len(q) = N + 1
    <2>1. \A i \in D : f[i] \in X
      OBVIOUS
    <2> HIDE DEF D
    <2>2. QED
      BY <1>1, <2>1, PickedType
  <1> HIDE DEF D, N, p, q
  <1>4. f[n] \in X
    OBVIOUS
  <1>5. /\ Append(p, f[n]) \in Seq(X) /\ Len(Append(p, f[n])) = N + 1
        /\ \A k \in 1..N : Append(p, f[n])[k] = p[k]
        /\ Append(p, f[n])[N + 1] = f[n]
    BY <1>2, <1>4, AppendProperties
  <1>6. \A k \in 1..(N + 1) : k \in 1..N \/ k = N + 1
    BY <1>2
  <1>7. \A k \in 1..(N + 1) : q[k] = Append(p, f[n])[k]
    BY <1>1, <1>5, <1>6
  <1>8. q = Append(p, f[n])
    BY <1>3, <1>5, <1>7, SeqEqual
  <1>9. QED
    BY <1>8 DEF D, p, q

\* Any number of positions more, behind the others.
Starts(C, D) == C \subseteq D /\ \A i \in C : \A j \in D \ C : i < j
Begin(p, q) == Len(p) <= Len(q) /\ \A k \in 1..Len(p) : q[k] = p[k]

LEMMA PickedPrefix ==
    ASSUME NEW D, Positions(D), NEW C, Starts(C, D),
           NEW X, NEW f \in Seq(X), D \subseteq 1..Len(f)
    PROVE  Begin(Picked(f, C), Picked(f, D))
  <1>0. \A i \in D : f[i] \in X
    BY ElementOfSeq
  <1>1. Positions(C) /\ Cardinality(C) <= Cardinality(D)
    BY FS_Subset DEF Positions, Starts
  <1>2. /\ Cardinality(C) \in Nat /\ Len(Picked(f, C)) = Cardinality(C)
        /\ \A k \in 1..Cardinality(C) : Nth(C, k) \in C /\ Picked(f, C)[k] = f[Nth(C, k)]
    <2>1. \A i \in C : f[i] \in X
      BY <1>0 DEF Starts
    <2>2. QED
      BY <1>1, <2>1, PickedType
  <1>3. /\ Cardinality(D) \in Nat /\ Len(Picked(f, D)) = Cardinality(D)
        /\ \A k \in 1..Cardinality(D) : Picked(f, D)[k] = f[Nth(D, k)]
    BY <1>0, PickedType
  <1>4. ASSUME NEW i \in C PROVE Rank(D, i) = Rank(C, i)
    <2>1. \A j \in D \ C : ~(j < i)
      <3>1. \A j \in D \ C : i \in Nat /\ j \in Nat /\ i < j
        BY DEF Positions, Starts
      <3>2. QED
        BY <3>1
    <2>2. {j \in D : j < i} = {j \in C : j < i}
      BY <2>1 DEF Starts
    <2>3. QED
      BY <2>2 DEF Rank
  <1>5. ASSUME NEW k \in 1..Cardinality(C) PROVE Nth(D, k) = Nth(C, k)
    <2>1. Nth(C, k) \in C /\ Rank(C, Nth(C, k)) = k - 1
      BY <1>1, NthShape
    <2>2. Nth(C, k) \in D /\ Rank(D, Nth(C, k)) = k - 1
      BY <1>4, <2>1 DEF Starts
    <2>3. QED
      BY <2>2, NthIs
  <1>6. \A k \in 1..Cardinality(C) : k \in 1..Cardinality(D)
    BY <1>1, <1>2, <1>3
  <1>7. QED
    BY <1>1, <1>2, <1>3, <1>5, <1>6 DEF Begin

\* An entry more, if there is a place for it.
LEMMA FirstMore ==
    ASSUME NEW X, NEW p \in Seq(X), NEW e \in X, NEW m \in Nat
    PROVE  FirstCells(Append(p, e), m)
           = IF Len(FirstCells(p, m)) < m THEN Append(FirstCells(p, m), e) ELSE FirstCells(p, m)
  <1> DEFINE q == Append(p, e)
  <1>1. /\ q \in Seq(X) /\ Len(q) = Len(p) + 1 /\ Len(p) \in Nat
        /\ \A k \in 1..Len(p) : q[k] = p[k]
    BY AppendProperties, LenProperties
  <1> HIDE DEF q
  <1>2. CASE Len(p) < m
    <2>1. Len(q) <= m
      BY <1>1, <1>2
    <2>2. FirstCells(p, m) = p /\ FirstCells(q, m) = q
      <3>1. SubSeq(p, 1, Len(p)) = p /\ SubSeq(q, 1, Len(q)) = q
        BY <1>1, SubSeqFull
      <3>2. FirstCells(p, m) = SubSeq(p, 1, Len(p))
        BY <1>2 DEF FirstCells
      <3>3. Len(q) < m \/ Len(q) = m
        BY <1>1, <2>1
      <3>4. FirstCells(q, m) = SubSeq(q, 1, Len(q))
        BY <3>3 DEF FirstCells
      <3>5. QED
        BY <3>1, <3>2, <3>4
    <2>3. QED
      BY <1>2, <2>2 DEF q
  <1>3. CASE ~(Len(p) < m)
    <2>1. m <= Len(p) /\ m <= Len(q) /\ ~(Len(q) < m)
      BY <1>1, <1>3
    <2>2. FirstCells(p, m) = SubSeq(p, 1, m) /\ FirstCells(q, m) = SubSeq(q, 1, m)
      BY <1>3, <2>1 DEF FirstCells
    <2>3. \A k \in 1..m : k \in 1..Len(p) /\ k \in 1..Len(q)
      BY <1>1, <2>1
    <2>4. SubSeq(p, 1, m) = SubSeq(q, 1, m) /\ Len(SubSeq(p, 1, m)) = m
      <3>1. /\ SubSeq(p, 1, m) \in Seq(X) /\ Len(SubSeq(p, 1, m)) = m
            /\ \A k \in 1..m : SubSeq(p, 1, m)[k] = p[k]
        BY <1>1, <2>1, <2>3
      <3>2. /\ SubSeq(q, 1, m) \in Seq(X) /\ Len(SubSeq(q, 1, m)) = m
            /\ \A k \in 1..m : SubSeq(q, 1, m)[k] = q[k]
        BY <1>1, <2>1, <2>3
      <3>3. \A k \in 1..m : SubSeq(p, 1, m)[k] = SubSeq(q, 1, m)[k]
        BY <1>1, <2>3, <3>1, <3>2
      <3>4. QED
        BY <3>1, <3>2, <3>3, SeqEqual
    <2>5. ~(Len(FirstCells(p, m)) < m)
      BY <2>2, <2>4
    <2>6. QED
      BY <2>2, <2>4, <2>5 DEF q
  <1>4. QED
    BY <1>2, <1>3

LEMMA MaxIs ==
    ASSUME NEW S, S \subseteq Nat, NEW x \in S, \A y \in S : y <= x
    PROVE  Max(S) = x
  <1>1. Max(S) \in S /\ \A y \in S : Max(S) >= y
    <2>1. \A y \in S : x >= y
      OBVIOUS
    <2>2. QED
      BY <2>1 DEF Max
  <1> DEFINE m == Max(S)
  <1>2. m \in S /\ \A y \in S : m >= y
    BY <1>1
  <1> HIDE DEF m
  <1>3. m \in Nat /\ x \in Nat /\ m >= x /\ m <= x
    BY <1>2
  <1>4. m = x
    BY <1>3
  <1>5. QED
    BY <1>4 DEF m

LEMMA MaxIn ==
    ASSUME NEW n \in Nat, NEW S, S \subseteq 1..n, S # {}
    PROVE  Max(S) \in S
  <1>1. S \subseteq Nat /\ \A y \in S : y <= n
    OBVIOUS
  <1>2. PICK x \in S : \A y \in S : y <= x
    BY <1>1, GreatestElement
  <1>3. QED
    BY <1>1, <1>2, MaxIs

\* The last of some values and of one more.
OneMore(f, g, x) == DOMAIN g = DOMAIN f \cup {x} /\ \A a \in DOMAIN f : g[a] = f[a]

LEMMA LastMore ==
    ASSUME NEW n \in Nat, NEW f, DOMAIN f \subseteq 1..n, NEW g, OneMore(f, g, n + 1)
    PROVE  LastOf(g) = OrElse(g[n + 1], LastOf(f))
  <1> DEFINE A == DOMAIN f
             old == {b \in A : f[b] # 0}
             new == {b \in DOMAIN g : g[b] # 0}
  <1>0. DOMAIN g = A \cup {n + 1} /\ (\A a \in A : g[a] = f[a]) /\ A \subseteq 1..n
    BY DEF OneMore
  <1>1. LastOf(f) = IF old = {} THEN 0 ELSE f[Max(old)]
    BY DEF LastOf
  <1>2. LastOf(g) = IF new = {} THEN 0 ELSE g[Max(new)]
    BY DEF LastOf
  <1>3. CASE g[n + 1] # 0
    <2>1. new \subseteq Nat /\ n + 1 \in new /\ \A y \in new : y <= n + 1
      <3>1. n + 1 \in new
        BY <1>0, <1>3
      <3>2. \A y \in new : y \in 1..n \/ y = n + 1
        BY <1>0
      <3> HIDE DEF new
      <3>3. QED
        BY <3>1, <3>2
    <2> HIDE DEF new
    <2>2. Max(new) = n + 1
      BY <2>1, MaxIs
    <2>3. QED
      BY <1>2, <1>3, <2>1, <2>2 DEF OrElse
  <1>4. CASE g[n + 1] = 0
    <2>1. new = old
      BY <1>0, <1>4
    <2>2. old # {} => Max(old) \in A
      <3>1. old \subseteq 1..n /\ old \subseteq A
        BY <1>0
      <3> HIDE DEF old
      <3>2. QED
        BY <3>1, MaxIn
    <2> HIDE DEF old, new
    <2>3. QED
      BY <1>0, <1>1, <1>2, <1>4, <2>1, <2>2 DEF OrElse
  <1>5. QED
    BY <1>3, <1>4

-----------------------------------------------------------------------------
(***************************************************************************)
(* A line while it is read.                                                *)
(***************************************************************************)

\* The positions of the line that n cells of a text leave unfinished.
Held(t, n) == {i \in 1..n : t[i] # "cr" /\ \A j \in i..n : t[j] # "lf"}

LEMMA HeldShape ==
    ASSUME NEW t \in Seq(Cells), NEW n \in 0..Len(t)
    PROVE  /\ Positions(Held(t, n)) /\ Held(t, n) \subseteq 1..n
           /\ \A i \in Held(t, n) : t[i] \in Cells
           /\ Line(t, n + 1) = Picked(t, Held(t, n))
           /\ Line(t, n + 1) \in Seq(Cells) /\ Len(Line(t, n + 1)) \in Nat
  <1>1. Len(t) \in Nat /\ n \in Nat /\ n <= Len(t)
    OBVIOUS
  <1>2. Held(t, n) \subseteq 1..n
    BY DEF Held
  <1>3. Positions(Held(t, n))
    <2>1. IsFiniteSet(1..n)
      BY <1>1, FS_Interval
    <2>2. IsFiniteSet(Held(t, n))
      BY <1>2, <2>1, FS_Subset
    <2>3. QED
      BY <1>2, <2>2 DEF Positions
  <1>4. \A i \in 1..n : t[i] \in Cells
    BY <1>1, ElementOfSeq
  <1>5. Line(t, n + 1) = Picked(t, Held(t, n))
    <2>1. (n + 1) - 1 = n
      BY <1>1
    <2>2. QED
      BY <2>1 DEF Line, Held
  <1>6. Picked(t, Held(t, n)) \in Seq(Cells)
    BY <1>2, <1>3, <1>4, PickedType
  <1>7. Len(Line(t, n + 1)) \in Nat
    BY <1>5, <1>6, LenProperties
  <1>8. QED
    BY <1>2, <1>3, <1>4, <1>5, <1>6, <1>7

\* One cell more.
LEMMA LineNext ==
    ASSUME NEW t \in Seq(Cells), NEW n \in 0..(Len(t) - 1)
    PROVE  /\ t[n + 1] = "cr" => Line(t, n + 2) = Line(t, n + 1)
           /\ t[n + 1] = "lf" => Line(t, n + 2) = <<>>
           /\ t[n + 1] \notin {"cr", "lf"} => Line(t, n + 2) = Append(Line(t, n + 1), t[n + 1])
  <1> DEFINE m == n + 1
  <1>1. Len(t) \in Nat /\ n \in Nat /\ n \in 0..Len(t) /\ m \in 0..Len(t) /\ m \in 1..Len(t)
        /\ n + 2 = m + 1 /\ n < m
    OBVIOUS
  <1>2. /\ Line(t, n + 1) = Picked(t, Held(t, n)) /\ Line(t, n + 2) = Picked(t, Held(t, m))
        /\ Positions(Held(t, n)) /\ Held(t, n) \subseteq 1..n
        /\ \A i \in Held(t, n) : t[i] \in Cells
    <2> HIDE DEF m
    <2> QED
      BY <1>1, HeldShape
  <1>3. \A i \in 1..m : i \in 1..n \/ i = m
    BY <1>1
  <1>4. \A i \in 1..n : i..m = (i..n) \cup {m}
    BY <1>1
  <1>5. m..m = {m} /\ \A i \in 1..n : i \in 1..m
    BY <1>1
  <1>6. m \in 1..m
    BY <1>1
  <1> HIDE DEF m
  <1>7. CASE t[m] = "cr"
    <2>1. "cr" # "lf"
      OBVIOUS
    <2>2. Held(t, m) = Held(t, n)
      BY <1>3, <1>4, <1>5, <1>7, <2>1 DEF Held
    <2>3. QED
      BY <1>2, <1>7, <2>1, <2>2 DEF m
  <1>8. CASE t[m] = "lf"
    <2>1. \A i \in 1..m : m \in i..m
      BY <1>1
    <2>2. Held(t, m) = {}
      BY <1>8, <2>1 DEF Held
    <2>3. Picked(t, {}) = <<>>
      <3>1. Positions({}) /\ Cardinality({}) = 0
        BY FS_EmptySet DEF Positions
      <3>2. Picked(t, {}) \in Seq(Cells) /\ Len(Picked(t, {})) = 0
        BY <3>1, PickedType
      <3>3. QED
        BY <3>2
    <2>4. QED
      BY <1>2, <1>8, <2>2, <2>3 DEF m
  <1>9. CASE t[m] \notin {"cr", "lf"}
    <2>1. Held(t, m) = Held(t, n) \cup {m}
      BY <1>3, <1>4, <1>5, <1>6, <1>9 DEF Held
    <2>2. \A i \in Held(t, n) : i < m
      BY <1>1, <1>2
    <2>3. t[m] \in Cells
      BY <1>1, ElementOfSeq
    <2>4. Picked(t, Held(t, n) \cup {m}) = Append(Picked(t, Held(t, n)), t[m])
      <3> DEFINE A == Held(t, n)
      <3>1. m \in Nat /\ Positions(A) /\ \A i \in A : i < m
        BY <1>1, <1>2, <2>2
      <3>2. \A i \in A \cup {m} : t[i] \in Cells
        BY <1>2, <2>3
      <3> HIDE DEF A
      <3>3. Picked(t, A \cup {m}) = Append(Picked(t, A), t[m])
        BY <3>1, <3>2, PickedMore
      <3>4. QED
        BY <3>3 DEF A
    <2>5. QED
      BY <1>2, <1>9, <2>1, <2>4 DEF m
  <1>10. QED
    BY <1>7, <1>8, <1>9

\* What is read of a line is the start of the whole line.
LEMMA LineStarts ==
    ASSUME NEW t \in Seq(Cells), NEW n \in 0..Len(t)
    PROVE  \E b \in Breaks(t) : Line(t, b) \in Seq(Cells) /\ Begin(Line(t, n + 1), Line(t, b))
  <1> DEFINE later == {b \in Breaks(t) : b > n}
  <1>1. Len(t) \in Nat /\ n \in Nat /\ n <= Len(t)
    OBVIOUS
  <1>2. later \subseteq Nat /\ Len(t) + 1 \in later
    BY <1>1 DEF Breaks
  <1>3. PICK b \in later : \A c \in later : b <= c
    <2> HIDE DEF later
    <2> QED
      BY <1>2, LeastElement
  <1>4. b \in Breaks(t) /\ b \in Nat /\ n < b /\ b <= Len(t) + 1
    BY <1>2, <1>3
  <1> DEFINE m == b - 1
  <1>5. m \in 0..Len(t) /\ n <= m /\ m + 1 = b
    BY <1>1, <1>4
  <1>6. \A j \in (n + 1)..m : t[j] # "lf"
    <2> SUFFICES ASSUME NEW j \in (n + 1)..m, t[j] = "lf" PROVE FALSE
      OBVIOUS
    <2>1. j \in 1..Len(t) /\ j > n /\ j < b /\ j \in Nat
      BY <1>1, <1>4, <1>5
    <2>2. j \in later
      BY <2>1 DEF Breaks
    <2>3. QED
      BY <1>3, <1>4, <2>1, <2>2
  <1> HIDE DEF m
  <1>7. /\ Positions(Held(t, n)) /\ Held(t, n) \subseteq 1..n
        /\ Line(t, n + 1) = Picked(t, Held(t, n))
    BY HeldShape
  <1>8. /\ Positions(Held(t, m)) /\ Held(t, m) \subseteq 1..m
        /\ \A i \in Held(t, m) : t[i] \in Cells
        /\ Line(t, b) = Picked(t, Held(t, m)) /\ Line(t, b) \in Seq(Cells)
    BY <1>5, HeldShape
  <1>9. Held(t, n) = Held(t, m) \cap (1..n)
    <2>1. \A i \in 1..n : i \in 1..m /\ i..m = (i..n) \cup ((n + 1)..m)
      BY <1>1, <1>5
    <2>2. QED
      BY <1>6, <2>1 DEF Held
  <1>10. \A i \in Held(t, n), j \in Held(t, m) \ Held(t, n) : i < j
    <2>1. \A i \in 1..n, j \in (1..m) \ (1..n) : i < j
      BY <1>1, <1>5
    <2>2. QED
      BY <1>7, <1>8, <1>9, <2>1
  <1>11. Held(t, n) \in SUBSET Held(t, m)
    BY <1>9
  <1>12. Begin(Picked(t, Held(t, n)), Picked(t, Held(t, m)))
    <2> DEFINE C == Held(t, n)
               D == Held(t, m)
    <2>1. Positions(D)
      BY <1>8
    <2>1a. Starts(C, D)
      BY <1>10, <1>11 DEF Starts
    <2>1b. D \subseteq 1..Len(t)
      BY <1>1, <1>5, <1>8
    <2> HIDE DEF C, D
    <2>2. Begin(Picked(t, C), Picked(t, D))
      BY <2>1, <2>1a, <2>1b, PickedPrefix
    <2>3. QED
      BY <2>2 DEF C, D
  <1>13. QED
    BY <1>4, <1>7, <1>8, <1>12

\* A line that is longer than its buffer is longer by one, and a comment.
LEMMA Overlong ==
    ASSUME NEW t \in Seq(Cells), Scannable(t), NEW n \in 0..Len(t), Len(Line(t, n + 1)) > Cap
    PROVE  Len(Line(t, n + 1)) = Cap + 1 /\ IsComment(Words(t, n + 1))
  <1> DEFINE l == Line(t, n + 1)
  <1>1. PICK b \in Breaks(t) : Line(t, b) \in Seq(Cells) /\ Begin(l, Line(t, b))
    BY LineStarts
  <1>2. l \in Seq(Cells) /\ Len(l) \in Nat /\ Len(Line(t, b)) \in Nat /\ Cap \in Nat
    BY <1>1, HeldShape, LenProperties, Sizes
  <1>3. \/ Len(Line(t, b)) <= Cap
        \/ Len(Line(t, b)) = Cap + 1 /\ IsComment(Words(t, b))
    BY DEF Scannable
  <1>4. Len(Line(t, b)) = Cap + 1 /\ IsComment(Words(t, b)) /\ Len(l) = Len(Line(t, b))
    BY <1>1, <1>2, <1>3 DEF Begin
  <1> HIDE DEF l
  <1>5. Line(t, b) = l
    BY <1>1, <1>2, <1>4, SeqEqual DEF Begin
  <1>6. Words(t, b) = Words(t, n + 1)
    BY <1>5 DEF Words, l
  <1>7. QED
    BY <1>4, <1>6 DEF l

\* A comment without its last cell is a comment.
LEMMA CommentShorter ==
    ASSUME NEW p \in Seq(Cells), NEW c \in Cells, IsComment(SkipSpaces(Append(p, c)))
    PROVE  IsComment(SkipSpaces(p))
  <1>1. PICK k \in 0..Len(p) : Skips(p, {" "}, k)
    BY SkipsSome
  <1> DEFINE a == SubSeq(p, 1, k)
             b == SubSeq(p, k + 1, Len(p))
  <1>2. SkipSpaces(p) = b
    BY <1>1, AfterIs DEF SkipSpaces
  <1>3. /\ a \in Seq(Cells) /\ Len(a) = k /\ \A i \in 1..k : a[i] = p[i]
        /\ b \in Seq(Cells) /\ Len(b) = Len(p) - k /\ p = a \o b
        /\ \A i \in 1..(Len(p) - k) : b[i] = p[k + i]
    BY SplitAt, ZenonT(30)
  <1>4. AllIn(a, {" "})
    BY <1>1, <1>3 DEF Skips, AllIn
  <1>5. Len(p) \in Nat /\ k \in Nat
    BY LenProperties
  <1>6. ASSUME b # <<>> PROVE b[1] \notin {" "}
    <2>1. Len(b) # 0 /\ Len(b) \in Nat
      BY <1>3, <1>6
    <2>2. k < Len(p) /\ 1 \in 1..(Len(p) - k) /\ k + 1 \in 1..Len(p)
      BY <1>3, <1>5, <2>1
    <2>3. QED
      BY <1>1, <1>3, <2>2 DEF Skips
  <1> HIDE DEF a, b
  <1>7. CASE b = <<>>
    BY <1>2, <1>7 DEF IsComment
  <1>8. CASE b # <<>>
    <2>1. <<c>> \in Seq(Cells) /\ Len(<<c>>) = 1
      OBVIOUS
    <2>2. b \o <<c>> \in Seq(Cells)
      BY <1>3, <2>1, ConcatProperties
    <2>3. Len(b) \in Nat /\ Len(b) # 0
      BY <1>3, <1>8
    <2>4. Len(b \o <<c>>) = Len(b) + 1 /\ (b \o <<c>>)[1] = b[1]
      <3>1. 1 \in 1..(Len(b) + Len(<<c>>)) /\ 1 <= Len(b)
        BY <2>1, <2>3
      <3>2. /\ Len(b \o <<c>>) = Len(b) + Len(<<c>>)
            /\ \A i \in 1..(Len(b) + Len(<<c>>)) :
                  (b \o <<c>>)[i] = IF i <= Len(b) THEN b[i] ELSE <<c>>[i - Len(b)]
        <4>1. b \in Seq(Cells)
          BY <1>3
        <4>2. <<c>> \in Seq(Cells)
          BY <2>1
        <4> DEFINE d == <<c>>
        <4> HIDE DEF d
        <4>3. d \in Seq(Cells)
          BY <4>2 DEF d
        <4>4. /\ Len(b \o d) = Len(b) + Len(d)
              /\ \A i \in 1..(Len(b) + Len(d)) :
                    (b \o d)[i] = IF i <= Len(b) THEN b[i] ELSE d[i - Len(b)]
          BY <4>1, <4>3, ConcatProperties
        <4>5. QED
          BY <4>4 DEF d
      <3>3. QED
        BY <2>1, <3>1, <3>2
    <2>5. b \o <<c>> # <<>>
      BY <2>3, <2>4
    <2>6. Head(b \o <<c>>) = b[1] /\ Head(b) = b[1]
      BY <1>3, <2>2, <2>4, <2>5
    <2>7. Append(p, c) = a \o (b \o <<c>>)
      <3>1. Append(p, c) = p \o <<c>>
        BY AppendIsConcat
      <3>2. a \in Seq(Cells) /\ b \in Seq(Cells) /\ p = a \o b
        BY <1>3
      <3>3. (a \o b) \o <<c>> = a \o (b \o <<c>>)
        BY <2>1, <3>2, ConcatAssociative
      <3>4. QED
        BY <3>1, <3>2, <3>3
    <2>8. SkipSpaces(Append(p, c)) = SkipSpaces(b \o <<c>>)
      <3> DEFINE e == b \o <<c>>
      <3>1. a \in Seq(Cells)
        BY <1>3
      <3>1a. e \in Seq(Cells)
        BY <2>2
      <3> DEFINE set == {" "}
      <3>1b. AllIn(a, set)
        BY <1>4
      <3> HIDE DEF e, set
      <3>2. After(a \o e, set) = After(e, set)
        BY <3>1, <3>1a, <3>1b, AfterPrefix
      <3>3. QED
        BY <2>7, <3>2 DEF SkipSpaces, e, set
    <2>9. SkipSpaces(b \o <<c>>) = b \o <<c>>
      BY <1>6, <1>8, <2>2, <2>6, AfterNothing DEF SkipSpaces
    <2>10. Head(b) = "#"
      BY <2>5, <2>6, <2>8, <2>9 DEF IsComment
    <2>11. QED
      BY <1>2, <2>10 DEF IsComment
  <1>9. QED
    BY <1>7, <1>8

=============================================================================
