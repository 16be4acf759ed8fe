---------------------------- MODULE CommonProofs ----------------------------
(***************************************************************************)
(* Induction and recursion on natural numbers in a form that needs no      *)
(* operator as a parameter, and what follows for the arithmetic of Common. *)
(***************************************************************************)
EXTENDS Common, WellFoundedInduction, TLAPS

\* Every nonempty set of naturals has a least element.
LEMMA LeastNat ==
    ASSUME NEW T \in SUBSET Nat, T # {}
    PROVE  \E n \in T : \A m \in T : n <= m
<1>1. PICK n \in T : \A m \in T : ~ (<<m, n>> \in OpToRel(<, Nat))
  BY NatLessThanWellFounded, WFMin, Zenon
<1>2. \A m \in T : ~ (m < n)
  BY <1>1 DEF OpToRel
<1> QED
  BY <1>2

\* Induction: a set of naturals that contains 0 and every successor of its
\* elements contains every natural.
LEMMA InductionSet ==
    ASSUME NEW S, 0 \in S, \A n \in Nat : n \in S => n + 1 \in S
    PROVE  Nat \subseteq S
<1> DEFINE T == {n \in Nat : n \notin S}
<1> SUFFICES ASSUME T # {} PROVE FALSE
  OBVIOUS
<1>1. PICK n \in T : \A m \in T : n <= m
  <2> HIDE DEF T
  <2>1. T \in SUBSET Nat
    BY DEF T
  <2> QED
    BY <2>1, LeastNat
<1>2. n # 0 /\ n - 1 \in Nat /\ n - 1 \notin T
  BY <1>1
<1>3. n - 1 + 1 \in S
  BY <1>2
<1> QED
  BY <1>1, <1>2, <1>3

\* g is the sequence of values in S with this first value and these steps.
IsSequence(g, S, first, step) ==
    g \in [Nat -> S] /\ g[0] = first /\ \A n \in Nat : g[n + 1] = step[n][g[n]]

\* Recursion: a first value and a step function determine a sequence of values.
LEMMA Recursion ==
    ASSUME NEW S, NEW first \in S, NEW step \in [Nat -> [S -> S]]
    PROVE  \E g : IsSequence(g, S, first, step)
<1> DEFINE Starts(h, n) == h[0] = first /\ \A i \in 0 .. n - 1 : h[i + 1] = step[i][h[i]]
           Good == {n \in Nat : \E h \in [0 .. n -> S] : Starts(h, n)}
<1>1. 0 \in Good
  <2>1. [i \in 0 .. 0 |-> first] \in [0 .. 0 -> S] /\ Starts([i \in 0 .. 0 |-> first], 0)
    OBVIOUS
  <2> QED
    BY <2>1
<1>2. ASSUME NEW n \in Nat, n \in Good PROVE n + 1 \in Good
  <2>1. PICK h \in [0 .. n -> S] : Starts(h, n)
    BY <1>2
  <2> DEFINE k == [i \in 0 .. n + 1 |-> IF i = n + 1 THEN step[n][h[n]] ELSE h[i]]
  <2>2. k \in [0 .. n + 1 -> S]
    OBVIOUS
  <2>3. k[0] = first
    BY <2>1
  <2>4. ASSUME NEW i \in 0 .. n PROVE k[i + 1] = step[i][k[i]]
    BY <2>1
  <2>5. Starts(k, n + 1)
    <3> HIDE DEF k
    <3> QED BY <2>3, <2>4
  <2> QED
    <3> HIDE DEF Starts, k
    <3>1. n + 1 \in Nat
      OBVIOUS
    <3> QED BY <2>2, <2>5, <3>1
<1>3. \A n \in Nat : \E h \in [0 .. n -> S] : Starts(h, n)
  <2>1. Nat \subseteq Good
    <3> HIDE DEF Good
    <3> QED BY <1>1, <1>2, InductionSet
  <2> QED
    BY <2>1
<1>4. PICK part : \A n \in Nat : part[n] \in [0 .. n -> S] /\ Starts(part[n], n)
  <2> HIDE DEF Starts
  <2> DEFINE p == [n \in Nat |-> CHOOSE h \in [0 .. n -> S] : Starts(h, n)]
  <2>1. \A n \in Nat : p[n] \in [0 .. n -> S] /\ Starts(p[n], n)
    BY <1>3
  <2> QED
    BY <2>1
<1>5. ASSUME NEW n \in Nat PROVE \A i \in 0 .. n : part[n + 1][i] = part[n][i]
  <2> DEFINE Same == {i \in Nat : i <= n => part[n + 1][i] = part[n][i]}
  <2>1. /\ part[n + 1][0] = first
        /\ \A i \in 0 .. n : part[n + 1][i + 1] = step[i][part[n + 1][i]]
    BY <1>4
  <2>2. /\ part[n][0] = first
        /\ \A i \in 0 .. n - 1 : part[n][i + 1] = step[i][part[n][i]]
    BY <1>4
  <2>3. 0 \in Same
    BY <2>1, <2>2
  <2>4. ASSUME NEW i \in Nat, i \in Same PROVE i + 1 \in Same
    BY <2>1, <2>2, <2>4
  <2>5. Nat \subseteq Same
    <3> HIDE DEF Same
    <3> QED BY <2>3, <2>4, InductionSet
  <2> QED
    BY <2>5
<1> DEFINE g == [n \in Nat |-> part[n][n]]
<1>6. g \in [Nat -> S] /\ g[0] = first
  BY <1>4
<1>7. ASSUME NEW n \in Nat PROVE g[n + 1] = step[n][g[n]]
  <2>1. part[n + 1][n + 1] = step[n][part[n + 1][n]]
    BY <1>4
  <2>2. part[n + 1][n] = part[n][n]
    BY <1>5
  <2> QED
    BY <2>1, <2>2
<1> QED
  BY <1>6, <1>7 DEF IsSequence

\* The recursion of Pow2 is well founded.
LEMMA Pow2Def ==
    /\ Pow2 \in [Nat -> Nat]
    /\ Pow2[0] = 1
    /\ \A n \in Nat : Pow2[n + 1] = 2 * Pow2[n]
<1> DEFINE step == [n \in Nat |-> [v \in Nat |-> 2 * v]]
<1>1. 1 \in Nat /\ step \in [Nat -> [Nat -> Nat]]
  OBVIOUS
<1>2. PICK g : IsSequence(g, Nat, 1, step)
  <2> HIDE DEF step
  <2> QED BY <1>1, Recursion
<1>3. g = [n \in Nat |-> IF n = 0 THEN 1 ELSE 2 * g[n - 1]]
  <2>1. ASSUME NEW n \in Nat PROVE g[n] = IF n = 0 THEN 1 ELSE 2 * g[n - 1]
    <3>1. CASE n = 0
      BY <3>1, <1>2 DEF IsSequence
    <3>2. CASE n # 0
      <4>1. n - 1 \in Nat /\ n - 1 + 1 = n
        BY <3>2
      <4>2. g[n - 1 + 1] = step[n - 1][g[n - 1]]
        BY <4>1, <1>2 DEF IsSequence
      <4> QED
        BY <4>1, <4>2, <3>2, <1>2 DEF IsSequence
    <3> QED
      BY <3>1, <3>2
  <2> QED
    BY <2>1, <1>2 DEF IsSequence
<1>4. Pow2 = [n \in Nat |-> IF n = 0 THEN 1 ELSE 2 * Pow2[n - 1]]
  BY <1>3, Zenon DEF Pow2
<1>5. Pow2[0] = 1 /\ \A n \in Nat : Pow2[n + 1] = 2 * Pow2[n]
  <2>1. \A n \in Nat : Pow2[n] = IF n = 0 THEN 1 ELSE 2 * Pow2[n - 1]
    BY <1>4
  <2> QED
    BY <2>1
<1>6. \A n \in Nat : Pow2[n] \in Nat
  <2> DEFINE Good == {n \in Nat : Pow2[n] \in Nat}
  <2>1. 0 \in Good
    BY <1>5
  <2>2. ASSUME NEW n \in Nat, n \in Good PROVE n + 1 \in Good
    BY <2>2, <1>5
  <2>3. Nat \subseteq Good
    <3> HIDE DEF Good
    <3> QED BY <2>1, <2>2, InductionSet
  <2> QED
    BY <2>3
<1> QED
  BY <1>4, <1>5, <1>6

\* A power of two is not 0.
LEMMA Pow2Positive == \A n \in Nat : Pow2[n] \in Nat \ {0}
<1> DEFINE Good == {n \in Nat : Pow2[n] \in Nat \ {0}}
<1>1. 0 \in Good
  BY Pow2Def
<1>2. ASSUME NEW n \in Nat, n \in Good PROVE n + 1 \in Good
  BY <1>2, Pow2Def
<1>3. Nat \subseteq Good
  <2> HIDE DEF Good
  <2> QED BY <1>1, <1>2, InductionSet
<1> QED
  BY <1>3

\* Division with remainder.
LEMMA Euclid ==
    ASSUME NEW a \in Nat, NEW n \in Nat \ {0}
    PROVE  /\ a \div n \in Nat /\ n * (a \div n) <= a /\ a < n * (a \div n) + n
           /\ a % n = a - n * (a \div n) /\ a % n \in 0 .. n - 1
  OBVIOUS

\* The quotient is the only number with this property.
LEMMA Quotients ==
    ASSUME NEW a \in Nat, NEW n \in Nat \ {0}, NEW q \in Nat, n * q <= a, a < n * q + n
    PROVE  a \div n = q /\ a % n = a - n * q
<1>1. PICK r \in 0 .. n - 1 : a = n * q + r
  <2>1. n * q \in Nat /\ a - n * q \in 0 .. n - 1 /\ a = n * q + (a - n * q)
    OBVIOUS
  <2> QED
    BY <2>1
<1>2. a \div n = q
  BY <1>1
<1> QED
  BY <1>2, Euclid

\* Products grow.
LEMMA Products ==
    ASSUME NEW a \in Nat, NEW b \in Nat, NEW n \in Nat
    PROVE  /\ n * a \in Nat
           /\ a <= b => n * a <= n * b
           /\ a < b => n * a + n <= n * b
           /\ n * a < n * b + n => n * a <= n * b
  OBVIOUS

\* Division keeps the order.
LEMMA QuotientOrder ==
    ASSUME NEW a \in Nat, NEW b \in Nat, NEW n \in Nat \ {0}, a <= b
    PROVE a \div n <= b \div n
  OBVIOUS

\* ROUNDUP(a, n) is the least multiple of n that is not below a.
LEMMA RoundUp ==
    ASSUME NEW a \in Nat, NEW n \in Nat \ {0}
    PROVE  \E k \in Nat : ROUNDUP(a, n) = n * k /\ a <= n * k /\ n * k < a + n
<1> DEFINE b == a + n - 1
           m == b % n
<1>1. b \in Nat /\ b = a + n - 1
  OBVIOUS
<1>2. ROUNDUP(a, n) = b - m
  BY DEF ROUNDUP, ROUNDDOWN
<1> HIDE DEF b
<1>3. PICK k \in Nat : n * k <= b /\ b < n * k + n /\ m = b - n * k
  BY <1>1, Euclid
<1>4. n * k \in Nat
  OBVIOUS
<1> HIDE DEF m
<1>5. ROUNDUP(a, n) = n * k
  BY <1>1, <1>2, <1>3, <1>4
<1>6. a <= n * k /\ n * k < a + n
  BY <1>1, <1>3, <1>4
<1> QED
  BY <1>5, <1>6

\* ROUNDDOWN(a, n) is the largest multiple of n that is not above a.
LEMMA RoundDown ==
    ASSUME NEW a \in Nat, NEW n \in Nat \ {0}
    PROVE  \E k \in Nat : ROUNDDOWN(a, n) = n * k /\ n * k <= a /\ a < n * k + n
<1>1. PICK k \in Nat : n * k <= a /\ a < n * k + n /\ a % n = a - n * k
  BY Euclid
<1>2. n * k \in Nat
  OBVIOUS
<1> QED
  BY <1>1, <1>2 DEF ROUNDDOWN

\* DIV_ROUNDUP(a, n) is the least number of parts of size n that hold a.
LEMMA DivRoundUp ==
    ASSUME NEW a \in Nat, NEW n \in Nat \ {0}
    PROVE  /\ DIV_ROUNDUP(a, n) \in Nat
           /\ n * DIV_ROUNDUP(a, n) >= a /\ n * DIV_ROUNDUP(a, n) < a + n
           /\ DIV_ROUNDUP(a, n) <= a
<1>1. PICK b \in Nat : b = a + n - 1
  OBVIOUS
<1>2. PICK k \in Nat : n * k <= b /\ b < n * k + n /\ k = b \div n
  BY Euclid
<1>3. DIV_ROUNDUP(a, n) = k
  BY <1>1, <1>2 DEF DIV_ROUNDUP
<1>4. n * k \in Nat /\ n * k >= a /\ n * k < a + n
  BY <1>1, <1>2
<1>5. k <= a
  <2> SUFFICES ASSUME k > a PROVE FALSE
    OBVIOUS
  <2>1. n * a + n <= n * k
    BY Products
  <2>2. n * a >= a /\ n * a \in Nat
    OBVIOUS
  <2> QED
    BY <1>4, <2>1, <2>2
<1> QED
  BY <1>3, <1>4, <1>5

\* Rounding up keeps the order.
LEMMA RoundUpOrder ==
    ASSUME NEW a \in Nat, NEW b \in Nat, NEW n \in Nat \ {0}, a <= b
    PROVE  ROUNDUP(a, n) <= ROUNDUP(b, n) /\ DIV_ROUNDUP(a, n) <= DIV_ROUNDUP(b, n)
<1>1. PICK j \in Nat : ROUNDUP(a, n) = n * j /\ a <= n * j /\ n * j < a + n
  BY RoundUp
<1>2. PICK k \in Nat : ROUNDUP(b, n) = n * k /\ b <= n * k /\ n * k < b + n
  BY RoundUp
<1>3. n * j \in Nat /\ n * k \in Nat
  OBVIOUS
<1>4. n * j < n * k + n
  BY <1>1, <1>2, <1>3
<1>5. n * j <= n * k
  BY <1>4, Products
<1>6. DIV_ROUNDUP(a, n) <= DIV_ROUNDUP(b, n)
  <2>1. a + n - 1 \in Nat /\ b + n - 1 \in Nat /\ a + n - 1 <= b + n - 1
    OBVIOUS
  <2> QED
    BY <2>1, QuotientOrder DEF DIV_ROUNDUP
<1> QED
  BY <1>1, <1>2, <1>5, <1>6
=============================================================================
