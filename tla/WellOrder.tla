----------------------------- MODULE WellOrder ------------------------------
(***************************************************************************)
(* Induction as facts about sets.  The induction theorems of the library   *)
(* take an operator as a parameter and cannot be instantiated here; its    *)
(* theorem that finite sets are well-founded under inclusion has none, and *)
(* the order of the naturals is the inclusion of the sets 1..n.            *)
(***************************************************************************)
EXTENDS Integers, FiniteSets, FiniteSetTheorems, TLAPS

\* Every set of naturals that is not empty has a least element.
LEMMA LeastElement ==
    ASSUME NEW T, T \subseteq Nat, T # {}
    PROVE  \E x \in T : \A y \in T : x <= y
  <1> DEFINE W == {1..n : n \in T}
  <1>1. W \subseteq FiniteSubsetsOf(Nat)
    <2>1. \A n \in T : IsFiniteSet(1..n) /\ 1..n \subseteq Nat
      BY FS_Interval
    <2>2. QED
      BY <2>1 DEF FiniteSubsetsOf
  <1>2. W # {}
    OBVIOUS
  <1>3. \E X \in W : \A Y \in W : <<Y, X>> \notin StrictSubsetOrdering(Nat)
    <2>1. IsWellFoundedOn(StrictSubsetOrdering(Nat), FiniteSubsetsOf(Nat))
      BY FS_StrictSubsetOrderingWellFounded
    <2> HIDE DEF W
    <2>2. QED
      BY <1>1, <1>2, <2>1, WFMin
  <1>4. PICK x \in T : \A Y \in W : <<Y, 1..x>> \notin StrictSubsetOrdering(Nat)
    BY <1>3
  <1>5. ASSUME NEW y \in T, y < x
        PROVE  FALSE
    <2>1. x \in 1..x /\ x \notin 1..y /\ 1..y \subseteq 1..x /\ 1..x \subseteq Nat
      BY <1>5
    <2>2. <<1..y, 1..x>> \in StrictSubsetOrdering(Nat)
      BY <2>1 DEF StrictSubsetOrdering
    <2>3. QED
      BY <1>4, <2>2
  <1>6. QED
    BY <1>5

\* A set of naturals that has a bound has a greatest one.
LEMMA GreatestElement ==
    ASSUME NEW T, T \subseteq Nat, T # {}, NEW n \in Nat, \A y \in T : y <= n
    PROVE  \E x \in T : \A y \in T : y <= x
  <1> DEFINE D == {d \in Nat : n - d \in T}
  <1>1. D \subseteq Nat /\ D # {}
    <2>1. PICK y \in T : TRUE
      OBVIOUS
    <2>2. n - y \in Nat /\ n - (n - y) = y
      OBVIOUS
    <2>3. n - y \in D
      BY <2>2
    <2>4. QED
      BY <2>3
  <1>2. PICK d \in D : \A e \in D : d <= e
    <2> HIDE DEF D
    <2> QED
      BY <1>1, LeastElement
  <1>3. ASSUME NEW y \in T PROVE y <= n - d
    <2>1. n - y \in Nat /\ n - (n - y) = y
      OBVIOUS
    <2>2. n - y \in D
      BY <2>1
    <2>3. QED
      BY <1>2, <2>2
  <1>4. QED
    BY <1>3

\* A set that has 0 and the successor of what it has, has all naturals.
LEMMA InductionOnNat ==
    ASSUME NEW S, 0 \in S, \A n \in Nat : n \in S => n + 1 \in S
    PROVE  Nat \subseteq S
  <1> DEFINE T == Nat \ S
  <1> SUFFICES ASSUME T # {} PROVE FALSE
    OBVIOUS
  <1>1. PICK x \in T : \A y \in T : x <= y
    <2>1. T \subseteq Nat
      OBVIOUS
    <2> HIDE DEF T
    <2>2. QED
      BY <2>1, LeastElement
  <1>2. x # 0 /\ x - 1 \in Nat
    OBVIOUS
  <1>3. QED
    BY <1>1, <1>2

\* A function is defined by its first value and by what each value makes of the last.
Iterates(f, T, c, D) ==
    /\ f \in [Nat -> T]
    /\ f[0] = c
    /\ \A n \in Nat : f[n + 1] = D[<<n, f[n]>>]

LEMMA RecursionOnNat ==
    ASSUME NEW T, NEW c \in T, NEW D \in [Nat \X T -> T]
    PROVE  \E f : Iterates(f, T, c, D)
  <1> DEFINE Starts(n) ==
               {g \in [0..n -> T] : g[0] = c /\ \A i \in 0..(n - 1) : g[i + 1] = D[<<i, g[i]>>]}
  <1>1. \A n \in Nat : Starts(n) # {}
    <2> DEFINE S == {n \in Nat : Starts(n) # {}}
    <2>1. 0 \in S
      <3>1. [i \in 0..0 |-> c] \in Starts(0)
        OBVIOUS
      <3>2. QED
        BY <3>1
    <2>2. ASSUME NEW n \in Nat, n \in S PROVE n + 1 \in S
      <3>1. PICK g : g \in Starts(n)
        BY <2>2
      <3> DEFINE h == [i \in 0..(n + 1) |-> IF i = n + 1 THEN D[<<n, g[n]>>] ELSE g[i]]
      <3>2. h \in [0..(n + 1) -> T] /\ h[0] = c
        BY <3>1
      <3>3. ASSUME NEW i \in 0..n PROVE h[i + 1] = D[<<i, h[i]>>]
        <4>1. CASE i = n
          <5>1. h[n + 1] = D[<<n, g[n]>>] /\ h[n] = g[n]
            OBVIOUS
          <5>2. QED
            BY <4>1, <5>1
        <4>2. CASE i # n
          <5>1. i \in 0..(n - 1) /\ i + 1 \in 0..n
            BY <4>2
          <5>2. g[i + 1] = D[<<i, g[i]>>] /\ h[i + 1] = g[i + 1] /\ h[i] = g[i]
            BY <3>1, <5>1
          <5>3. QED
            BY <5>2
        <4>3. QED
          BY <4>1, <4>2
      <3>4. h \in Starts(n + 1)
        <4> HIDE DEF h
        <4> QED
          BY <3>2, <3>3
      <3> HIDE DEF Starts, h
      <3>5. QED
        BY <3>4
    <2>3. Nat \subseteq S
      <3> HIDE DEF S
      <3> QED
        BY <2>1, <2>2, InductionOnNat
    <2>4. QED
      BY <2>3
  <1>2. \A m \in Nat : \A g \in Starts(m) : \A n \in Nat : \A h \in Starts(n) :
            \A i \in Nat : i <= m /\ i <= n => g[i] = h[i]
    <2> SUFFICES ASSUME NEW m \in Nat, NEW g \in Starts(m), NEW n \in Nat, NEW h \in Starts(n)
                 PROVE  \A i \in Nat : i <= m /\ i <= n => g[i] = h[i]
      OBVIOUS
    <2> DEFINE S == {i \in Nat : i <= m /\ i <= n => g[i] = h[i]}
    <2>1. 0 \in S
      OBVIOUS
    <2>2. ASSUME NEW i \in Nat, i \in S PROVE i + 1 \in S
      <3> SUFFICES ASSUME i + 1 <= m, i + 1 <= n PROVE g[i + 1] = h[i + 1]
        OBVIOUS
      <3>1. g[i] = h[i] /\ i \in 0..(m - 1) /\ i \in 0..(n - 1)
        BY <2>2
      <3>2. QED
        BY <3>1
    <2>3. Nat \subseteq S
      <3> HIDE DEF S
      <3> QED
        BY <2>1, <2>2, InductionOnNat
    <2>4. QED
      BY <2>3
  <1> DEFINE start == [n \in Nat |-> CHOOSE g : g \in Starts(n)]
             f == [n \in Nat |-> start[n][n]]
  <1>3. \A n \in Nat : start[n] \in Starts(n)
    BY <1>1
  <1>4. f \in [Nat -> T] /\ f[0] = c
    <2> HIDE DEF start
    <2>1. ASSUME NEW n \in Nat PROVE start[n][n] \in T /\ start[n][0] = c
      BY <1>3
    <2>2. QED
      BY <2>1
  <1>5. ASSUME NEW n \in Nat PROVE f[n + 1] = D[<<n, f[n]>>]
    <2>1. start[n] \in Starts(n) /\ start[n + 1] \in Starts(n + 1)
      <3> HIDE DEF Starts, start
      <3> QED
        BY <1>3
    <2>2. start[n][n] = start[n + 1][n]
      <3> HIDE DEF Starts, start
      <3> QED
        BY <2>1, <1>2
    <2>3. start[n + 1][n + 1] = D[<<n, start[n + 1][n]>>]
      <3> HIDE DEF start
      <3> QED
        BY <2>1
    <2>4. f[n] = start[n][n] /\ f[n + 1] = start[n + 1][n + 1]
      <3> HIDE DEF Starts, start
      <3> QED
        OBVIOUS
    <2>5. QED
      <3> HIDE DEF f, start
      <3> QED
        BY <2>2, <2>3, <2>4
  <1>6. Iterates(f, T, c, D)
    <2> HIDE DEF f, start
    <2> QED
      BY <1>4, <1>5 DEF Iterates
  <1>7. QED
    BY <1>6

\* Induction by a measure, where the hypothesis is there for all that is smaller.
LEMMA InductionByMeasure ==
    ASSUME NEW S, NEW m \in [S -> Nat], NEW P,
           \A w \in S : (\A v \in S : m[v] < m[w] => v \in P) => w \in P
    PROVE  S \subseteq P
  <1> DEFINE T == {m[w] : w \in S \ P}
  <1> SUFFICES ASSUME S \ P # {} PROVE FALSE
    OBVIOUS
  <1>1. T \subseteq Nat /\ T # {}
    OBVIOUS
  <1>2. PICK n \in T : \A k \in T : n <= k
    <2> HIDE DEF T
    <2> QED
      BY <1>1, LeastElement
  <1>3. PICK w \in S \ P : n = m[w]
    OBVIOUS
  <1>4. ASSUME NEW v \in S, m[v] < m[w] PROVE v \in P
    <2>1. v \notin P => m[v] \in T
      OBVIOUS
    <2>2. m[v] \in Nat /\ m[w] \in Nat
      OBVIOUS
    <2> HIDE DEF T
    <2>3. QED
      BY <1>2, <1>3, <1>4, <2>1, <2>2
  <1>5. QED
    BY <1>3, <1>4

\* A function is defined by its values where it does not call itself, and, elsewhere,
\* by what it makes of its value for an argument with a smaller measure.
Solves(f, S, T, B, c, R, D) ==
    /\ f \in [S -> T]
    /\ f = [w \in S |-> IF w \in B THEN c[w] ELSE D[<<w, f[R[w]]>>]]

LEMMA RecursionByMeasure ==
    ASSUME NEW S, NEW T, NEW B, NEW c \in [S -> T], NEW R \in [S -> S],
           NEW D \in [S \X T -> T], NEW m \in [S -> Nat],
           \A w \in S \ B : m[R[w]] < m[w]
    PROVE  \E f : Solves(f, S, T, B, c, R, D)
  <1> DEFINE Deeper(g) == [w \in S |-> IF w \in B THEN c[w] ELSE D[<<w, g[R[w]]>>]]
             E == [x \in Nat \X [S -> T] |-> Deeper(x[2])]
  <1>1. E \in [Nat \X [S -> T] -> [S -> T]]
    OBVIOUS
  <1>2. PICK F \in [Nat -> [S -> T]] : \A n \in Nat : F[n + 1] = E[<<n, F[n]>>]
    <2>1. c \in [S -> T]
      OBVIOUS
    <2> HIDE DEF E
    <2>2. PICK F : Iterates(F, [S -> T], c, E)
      BY <1>1, <2>1, RecursionOnNat
    <2>3. QED
      BY <2>2 DEF Iterates
  <1>3. \A n \in Nat : F[n + 1] = Deeper(F[n])
    BY <1>2
  <1>4. ASSUME NEW n \in Nat, NEW w \in S
        PROVE  F[n + 1][w] = IF w \in B THEN c[w] ELSE D[<<w, F[n][R[w]]>>]
    BY <1>3
  <1> DEFINE Settled == {n \in Nat : \A w \in S : m[w] < n => F[n + 1][w] = F[n][w]}
  <1>5. Nat \subseteq Settled
    <2>1. 0 \in Settled
      OBVIOUS
    <2>2. ASSUME NEW n \in Nat, n \in Settled PROVE n + 1 \in Settled
      <3> SUFFICES ASSUME NEW w \in S, m[w] < n + 1 PROVE F[(n + 1) + 1][w] = F[n + 1][w]
        OBVIOUS
      <3> HIDE DEF Deeper, E
      <3>1. CASE w \in B
        <4>1. n + 1 \in Nat
          OBVIOUS
        <4>2. F[(n + 1) + 1][w] = c[w]
          BY <1>4, <3>1, <4>1
        <4>3. F[n + 1][w] = c[w]
          BY <1>4, <3>1
        <4>4. QED
          BY <4>2, <4>3
      <3>2. CASE w \notin B
        <4>1. m[R[w]] < n /\ R[w] \in S
          BY <3>2
        <4>2. F[n + 1][R[w]] = F[n][R[w]]
          BY <2>2, <4>1
        <4>3. /\ F[(n + 1) + 1][w] = D[<<w, F[n + 1][R[w]]>>]
              /\ F[n + 1][w] = D[<<w, F[n][R[w]]>>]
          BY <1>4, <3>2
        <4>4. QED
          BY <4>2, <4>3
      <3>3. QED
        BY <3>1, <3>2
    <2>3. QED
      <3> HIDE DEF Settled
      <3> QED
        BY <2>1, <2>2, InductionOnNat
  <1>6. ASSUME NEW w \in S, NEW k \in Nat PROVE F[m[w] + 1 + k][w] = F[m[w] + 1][w]
    <2> DEFINE Same == {n \in Nat : F[m[w] + 1 + n][w] = F[m[w] + 1][w]}
    <2>1. 0 \in Same
      OBVIOUS
    <2>2. ASSUME NEW n \in Nat, n \in Same PROVE n + 1 \in Same
      <3>1. m[w] + 1 + n \in Settled /\ m[w] < m[w] + 1 + n
        BY <1>5
      <3>2. F[(m[w] + 1 + n) + 1][w] = F[m[w] + 1 + n][w]
        BY <3>1
      <3>3. (m[w] + 1 + n) + 1 = m[w] + 1 + (n + 1)
        <4>1. m[w] \in Nat
          OBVIOUS
        <4>2. QED
          BY <4>1
      <3>4. QED
        BY <2>2, <3>2, <3>3
    <2>3. Nat \subseteq Same
      <3> HIDE DEF Same
      <3> QED
        BY <2>1, <2>2, InductionOnNat
    <2>4. QED
      BY <2>3
  <1> DEFINE f == [w \in S |-> F[m[w] + 1][w]]
  <1>7. ASSUME NEW w \in S
        PROVE  f[w] = IF w \in B THEN c[w] ELSE D[<<w, f[R[w]]>>]
    <2>1. CASE w \in B
      BY <1>4, <2>1
    <2>2. CASE w \notin B
      <3>1. R[w] \in S /\ m[R[w]] < m[w] /\ m[w] - (m[R[w]] + 1) \in Nat
        BY <2>2
      <3>2. F[m[w]][R[w]] = F[m[R[w]] + 1][R[w]]
        <4>1. m[w] = m[R[w]] + 1 + (m[w] - (m[R[w]] + 1))
          BY <3>1
        <4>2. QED
          BY <1>6, <3>1, <4>1
      <3>3. F[m[w] + 1][w] = D[<<w, F[m[w]][R[w]]>>]
        BY <1>4, <2>2
      <3>4. QED
        BY <2>2, <3>1, <3>2, <3>3
    <2>3. QED
      BY <2>1, <2>2
  <1>8. f \in [S -> T]
    OBVIOUS
  <1>9. f = [w \in S |-> IF w \in B THEN c[w] ELSE D[<<w, f[R[w]]>>]]
    <2> HIDE DEF f
    <2> QED
      BY <1>7, <1>8
  <1>10. Solves(f, S, T, B, c, R, D)
    <2> HIDE DEF f
    <2> QED
      BY <1>8, <1>9 DEF Solves
  <1>11. QED
    BY <1>10

=============================================================================
