----------------------------- MODULE BootProofs -----------------------------
(***************************************************************************)
(* Theorems about Boot and Zones: for every size of the kernel, all boot   *)
(* loader and firmware data, and every page size and largest order.        *)
(***************************************************************************)
EXTENDS Boot, CommonProofs

-----------------------------------------------------------------------------
(* Tables of records. *)

\* A tag of the multiboot information, or an entry of the MADT.
Record == [type : STRING, size : Nat]

\* Where the records of a table lie: each begins where the one before it ends,
\* after rounding up.
LEMMA OffsetsDef ==
    ASSUME NEW s \in Seq(Record), NEW first \in Nat, NEW align \in Nat \ {0}
    PROVE  /\ Offsets(s, first, align) \in [1 .. Len(s) + 1 -> Nat]
           /\ Offsets(s, first, align)[1] = first
           /\ \A k \in 1 .. Len(s) : Offsets(s, first, align)[k + 1] =
                                     ROUNDUP(Offsets(s, first, align)[k] + s[k].size, align)
<1> DEFINE N == Len(s)
           step == [n \in Nat |-> [v \in Nat |->
                       IF n + 1 \in 1 .. N THEN ROUNDUP(v + s[n + 1].size, align) ELSE v]]
           at == Offsets(s, first, align)
<1>0. N \in Nat /\ \A k \in 1 .. N : s[k].size \in Nat
  <2>1. N \in Nat /\ \A k \in 1 .. N : s[k] \in Record
    OBVIOUS
  <2> QED
    BY <2>1 DEF Record
<1>1. step \in [Nat -> [Nat -> Nat]]
  <2>1. ASSUME NEW n \in Nat, NEW v \in Nat, n + 1 \in 1 .. N
        PROVE  ROUNDUP(v + s[n + 1].size, align) \in Nat
    <3>1. v + s[n + 1].size \in Nat
      BY <1>0, <2>1
    <3>2. PICK k \in Nat : ROUNDUP(v + s[n + 1].size, align) = align * k
      BY <3>1, RoundUp
    <3> QED
      BY <3>2
  <2> QED
    BY <2>1
<1>2. PICK g : IsSequence(g, Nat, first, step)
  <2> HIDE DEF step
  <2> QED BY <1>1, Recursion
<1>3. /\ g \in [Nat -> Nat] /\ g[0] = first
      /\ \A n \in Nat : n + 1 \in 1 .. N => g[n + 1] = ROUNDUP(g[n] + s[n + 1].size, align)
  BY <1>2 DEF IsSequence
<1> DEFINE h == [i \in 1 .. N + 1 |-> g[i - 1]]
<1>4. h = [i \in 1 .. N + 1 |-> IF i = 1 THEN first ELSE ROUNDUP(h[i - 1] + s[i - 1].size, align)]
  <2>1. ASSUME NEW i \in 1 .. N + 1, i # 1
        PROVE  i - 1 \in 1 .. N + 1 /\ i - 2 \in Nat /\ (i - 2) + 1 = i - 1 /\ i - 1 \in 1 .. N
               /\ (i - 1) - 1 = i - 2
    BY <1>0, <2>1
  <2>2. ASSUME NEW i \in 1 .. N + 1
        PROVE  h[i] = IF i = 1 THEN first ELSE ROUNDUP(h[i - 1] + s[i - 1].size, align)
    <3>1. CASE i = 1
      BY <1>3, <3>1
    <3>2. CASE i # 1
      <4>1. g[i - 1] = ROUNDUP(g[i - 2] + s[i - 1].size, align)
        BY <1>3, <2>1, <3>2
      <4>2. h[i] = g[i - 1] /\ h[i - 1] = g[i - 2]
        BY <2>1, <3>2
      <4> QED
        BY <3>2, <4>1, <4>2
    <3> QED
      BY <3>1, <3>2
  <2> QED
    BY <2>2
<1>5. at = [i \in 1 .. N + 1 |-> IF i = 1 THEN first ELSE ROUNDUP(at[i - 1] + s[i - 1].size, align)]
  <2> HIDE DEF h
  <2> QED BY <1>4, Zenon DEF Offsets
<1>6. \A i \in 1 .. N + 1 : at[i] = IF i = 1 THEN first ELSE ROUNDUP(at[i - 1] + s[i - 1].size, align)
  <2> HIDE DEF at
  <2> QED BY <1>5
<1>7. at[1] = first /\ \A k \in 1 .. N : at[k + 1] = ROUNDUP(at[k] + s[k].size, align)
  <2>1. 1 \in 1 .. N + 1
    BY <1>0
  <2>2. ASSUME NEW k \in 1 .. N PROVE k + 1 \in 1 .. N + 1 /\ k + 1 # 1 /\ (k + 1) - 1 = k
    BY <1>0
  <2> HIDE DEF at
  <2> QED
    BY <1>6, <2>1, <2>2
<1>8. \A n \in Nat : n + 1 \in 1 .. N + 1 => at[n + 1] = g[n]
  <2> DEFINE Good == {n \in Nat : n + 1 \in 1 .. N + 1 => at[n + 1] = g[n]}
  <2> HIDE DEF at
  <2>1. 0 \in Good
    BY <1>3, <1>7
  <2>2. ASSUME NEW n \in Nat, n \in Good PROVE n + 1 \in Good
    <3> SUFFICES ASSUME n + 1 + 1 \in 1 .. N + 1 PROVE at[n + 1 + 1] = g[n + 1]
      OBVIOUS
    <3>1. n + 1 \in 1 .. N /\ n + 1 \in 1 .. N + 1
      BY <1>0
    <3>2. at[n + 1] = g[n]
      BY <2>2, <3>1
    <3>3. at[n + 1 + 1] = ROUNDUP(at[n + 1] + s[n + 1].size, align)
      BY <1>7, <3>1
    <3>4. g[n + 1] = ROUNDUP(g[n] + s[n + 1].size, align)
      BY <1>3, <3>1
    <3> QED
      BY <3>2, <3>3, <3>4
  <2>3. Nat \subseteq Good
    <3> HIDE DEF Good
    <3> QED BY <2>1, <2>2, InductionSet
  <2> QED
    BY <2>3
<1>9. \A i \in 1 .. N + 1 : at[i] \in Nat
  <2> SUFFICES ASSUME NEW i \in 1 .. N + 1 PROVE at[i] \in Nat
    OBVIOUS
  <2>1. i - 1 \in Nat /\ (i - 1) + 1 = i
    BY <1>0
  <2> HIDE DEF at
  <2> QED
    BY <1>3, <1>8, <2>1
<1>10. at \in [1 .. N + 1 -> Nat]
  <2> HIDE DEF at
  <2> QED
    BY <1>5, <1>9
<1> QED
  BY <1>7, <1>10

\* Records that are not empty do not begin at the same offset.
LEMMA OffsetsApart ==
    ASSUME NEW s \in Seq(Record), NEW first \in Nat, NEW align \in Nat \ {0},
           \A k \in DOMAIN s : s[k].size >= 1,
           NEW j \in 1 .. Len(s) + 1, NEW k \in 1 .. Len(s) + 1, j < k
    PROVE  Offsets(s, first, align)[j] < Offsets(s, first, align)[k]
<1> DEFINE N == Len(s)
           at == Offsets(s, first, align)
<1>0. /\ at \in [1 .. N + 1 -> Nat]
      /\ \A i \in 1 .. N : at[i + 1] = ROUNDUP(at[i] + s[i].size, align)
  BY OffsetsDef, ZenonT(30)
<1>1. N \in Nat
  OBVIOUS
<1> HIDE DEF at
<1>2. ASSUME NEW i \in 1 .. N PROVE at[i] < at[i + 1]
  <2>1. at[i] \in Nat
    BY <1>0, <1>1
  <2>2. s[i] \in Record /\ i \in DOMAIN s
    OBVIOUS
  <2>3. s[i].size \in Nat /\ s[i].size >= 1
    BY <2>2 DEF Record
  <2>4. PICK a \in Nat : a = at[i] + s[i].size /\ a > at[i]
    BY <2>1, <2>3
  <2>5. PICK n \in Nat : ROUNDUP(a, align) = align * n /\ a <= align * n
    BY RoundUp
  <2>6. at[i + 1] = align * n /\ align * n \in Nat
    BY <1>0, <2>4, <2>5
  <2> QED
    BY <2>1, <2>4, <2>5, <2>6
<1> DEFINE Good == {n \in Nat : j + 1 + n \in 1 .. N + 1 => at[j] < at[j + 1 + n]}
<1>3. 0 \in Good
  <2>1. j + 1 + 0 = j + 1 /\ (j + 1 \in 1 .. N + 1 => j \in 1 .. N)
    BY <1>1
  <2> QED
    BY <1>2, <2>1
<1>4. ASSUME NEW n \in Nat, n \in Good PROVE n + 1 \in Good
  <2> SUFFICES ASSUME j + 1 + (n + 1) \in 1 .. N + 1 PROVE at[j] < at[j + 1 + (n + 1)]
    OBVIOUS
  <2>1. PICK i \in 1 .. N : i = j + 1 + n /\ j + 1 + (n + 1) = i + 1
    BY <1>1
  <2>2. at[j] < at[i] /\ at[i] < at[i + 1]
    BY <1>1, <1>2, <1>4, <2>1
  <2>3. at[j] \in Nat /\ at[i] \in Nat /\ at[i + 1] \in Nat
    BY <1>0, <1>1, <2>1, SMTT(30)
  <2> QED
    BY <2>1, <2>2, <2>3
<1>5. Nat \subseteq Good
  <2> HIDE DEF Good
  <2> QED BY <1>3, <1>4, InductionSet
<1>6. k - j - 1 \in Nat /\ j + 1 + (k - j - 1) = k
  BY <1>1
<1>7. at[j] < at[k]
  BY <1>5, <1>6
<1> QED
  BY <1>7 DEF at

-----------------------------------------------------------------------------
(* Zones. *)

\* The estimate adds up one term per order.
LEMMA BytesDef ==
    ASSUME NEW pages \in Nat
    PROVE  /\ BytesUpTo(pages) \in [0 .. MAX_ORDER -> Nat]
           /\ BytesUpTo(pages)[0] = DIV_ROUNDUP((pages \div Pow2[0]) \div 2, 8)
           /\ \A i \in 0 .. MAX_ORDER - 1 :
                 BytesUpTo(pages)[i + 1] =
                     DIV_ROUNDUP((pages \div Pow2[i + 1]) \div 2, 8) + BytesUpTo(pages)[i]
<1> DEFINE t == [i \in Nat |-> DIV_ROUNDUP((pages \div Pow2[i]) \div 2, 8)]
           step == [n \in Nat |-> [v \in Nat |-> t[n + 1] + v]]
           sum == BytesUpTo(pages)
<1>1. \A i \in Nat : t[i] \in Nat
  <2> SUFFICES ASSUME NEW i \in Nat PROVE t[i] \in Nat
    OBVIOUS
  <2>1. Pow2[i] \in Nat \ {0}
    BY Pow2Positive
  <2>2. PICK q \in Nat : q = pages \div Pow2[i]
    BY <2>1, Euclid
  <2>3. q \div 2 \in Nat
    BY Euclid
  <2>4. DIV_ROUNDUP(q \div 2, 8) \in Nat
    BY <2>3, DivRoundUp
  <2> QED
    BY <2>2, <2>4
<1>2. step \in [Nat -> [Nat -> Nat]]
  <2> HIDE DEF t
  <2> QED BY <1>1
<1>3. PICK g : IsSequence(g, Nat, t[0], step)
  <2>1. t[0] \in Nat
    BY <1>1
  <2> HIDE DEF step, t
  <2> QED BY <1>2, <2>1, Recursion
<1>t. \A i \in Nat : t[i] = DIV_ROUNDUP((pages \div Pow2[i]) \div 2, 8)
  OBVIOUS
<1> HIDE DEF t
<1>4. g \in [Nat -> Nat] /\ g[0] = t[0] /\ \A n \in Nat : g[n + 1] = t[n + 1] + g[n]
  BY <1>3 DEF IsSequence
<1>0. MAX_ORDER \in Nat
  BY ZonesAssumption
<1> DEFINE h == [i \in 0 .. MAX_ORDER |-> g[i]]
<1>5. h = [i \in 0 .. MAX_ORDER |-> DIV_ROUNDUP((pages \div Pow2[i]) \div 2, 8) +
                                       IF i = 0 THEN 0 ELSE h[i - 1]]
  <2> SUFFICES ASSUME NEW i \in 0 .. MAX_ORDER
               PROVE  h[i] = DIV_ROUNDUP((pages \div Pow2[i]) \div 2, 8) +
                                IF i = 0 THEN 0 ELSE h[i - 1]
    OBVIOUS
  <2>1. h[i] = t[i] + IF i = 0 THEN 0 ELSE h[i - 1]
    <3>1. CASE i = 0
      BY <1>0, <1>1, <1>4, <3>1
    <3>2. CASE i # 0
      <4>1. i - 1 \in Nat /\ i - 1 \in 0 .. MAX_ORDER /\ (i - 1) + 1 = i
        BY <1>0, <3>2
      <4>2. g[i] = t[i] + g[i - 1]
        BY <1>4, <4>1
      <4> QED
        BY <3>2, <4>1, <4>2
    <3> QED
      BY <3>1, <3>2
  <2> HIDE DEF h
  <2> QED
    BY <1>t, <2>1
<1>6. sum = [i \in 0 .. MAX_ORDER |-> DIV_ROUNDUP((pages \div Pow2[i]) \div 2, 8) +
                                         IF i = 0 THEN 0 ELSE sum[i - 1]]
  <2> HIDE DEF h
  <2> QED BY <1>5, Zenon DEF BytesUpTo
<1> HIDE DEF sum
<1>7. \A i \in 0 .. MAX_ORDER : sum[i] = t[i] + IF i = 0 THEN 0 ELSE sum[i - 1]
  <2>1. \A i \in 0 .. MAX_ORDER : sum[i] = DIV_ROUNDUP((pages \div Pow2[i]) \div 2, 8) +
                                             IF i = 0 THEN 0 ELSE sum[i - 1]
    BY <1>6
  <2> QED
    BY <1>t, <2>1
<1>8. sum[0] = t[0] /\ \A i \in 0 .. MAX_ORDER - 1 : sum[i + 1] = t[i + 1] + sum[i]
  <2>1. sum[0] = t[0]
    BY <1>0, <1>1, <1>7
  <2>2. ASSUME NEW i \in 0 .. MAX_ORDER - 1 PROVE sum[i + 1] = t[i + 1] + sum[i]
    <3>1. i + 1 \in 0 .. MAX_ORDER /\ i + 1 # 0 /\ (i + 1) - 1 = i
      BY <1>0
    <3> QED
      BY <1>7, <3>1
  <2> QED
    BY <2>1, <2>2
<1>9. \A n \in Nat : n \in 0 .. MAX_ORDER => sum[n] \in Nat
  <2> DEFINE Good == {n \in Nat : n \in 0 .. MAX_ORDER => sum[n] \in Nat}
  <2>1. 0 \in Good
    BY <1>1, <1>8
  <2>2. ASSUME NEW n \in Nat, n \in Good PROVE n + 1 \in Good
    <3> SUFFICES ASSUME n + 1 \in 0 .. MAX_ORDER PROVE sum[n + 1] \in Nat
      OBVIOUS
    <3>1. n \in 0 .. MAX_ORDER - 1 /\ n \in 0 .. MAX_ORDER
      BY <1>0
    <3>2. sum[n] \in Nat /\ t[n + 1] \in Nat /\ sum[n + 1] = t[n + 1] + sum[n]
      BY <1>1, <1>8, <2>2, <3>1
    <3> QED
      BY <3>2
  <2>3. Nat \subseteq Good
    <3> HIDE DEF Good
    <3> QED BY <2>1, <2>2, InductionSet
  <2> QED
    BY <2>3
<1>10. sum \in [0 .. MAX_ORDER -> Nat]
  BY <1>0, <1>6, <1>9
<1>11. sum[0] = DIV_ROUNDUP((pages \div Pow2[0]) \div 2, 8)
  BY <1>8, <1>t
<1>12. ASSUME NEW i \in 0 .. MAX_ORDER - 1
       PROVE  sum[i + 1] = DIV_ROUNDUP((pages \div Pow2[i + 1]) \div 2, 8) + sum[i]
  BY <1>0, <1>8, <1>t
<1> QED
  BY <1>10, <1>11, <1>12 DEF sum

\* Halving twice is dividing by the next power.
LEMMA Halved ==
    ASSUME NEW p \in Nat, NEW i \in Nat
    PROVE  (p \div Pow2[i]) \div 2 = p \div Pow2[i + 1]
<1>1. PICK n \in Nat \ {0} : n = Pow2[i] /\ Pow2[i + 1] = 2 * n
  BY Pow2Positive, Pow2Def
<1>2. PICK q \in Nat : q = p \div n /\ n * q <= p /\ p < n * q + n
  BY Euclid
<1>3. PICK r \in Nat : r = q \div 2 /\ 2 * r <= q /\ q <= 2 * r + 1
  BY Euclid
<1>4. n * (2 * r) <= n * q /\ n * q <= n * (2 * r + 1)
  BY <1>3, Products
<1>5. n * (2 * r) = (2 * n) * r /\ n * (2 * r + 1) = (2 * n) * r + n
  OBVIOUS
<1>6. (2 * n) * r \in Nat /\ n * q \in Nat /\ 2 * n \in Nat \ {0}
  OBVIOUS
<1>7. (2 * n) * r <= p /\ p < (2 * n) * r + 2 * n
  BY <1>2, <1>4, <1>5, <1>6
<1>8. p \div (2 * n) = r
  BY <1>6, <1>7, Quotients
<1> QED
  BY <1>1, <1>2, <1>3, <1>8

\* The bitmaps never need more bytes than there are pages.
LEMMA EstimateBounded ==
    ASSUME NEW pages \in Nat
    PROVE  EstimatedBytes(pages) \in Nat /\ EstimatedBytes(pages) <= pages
<1> DEFINE sum == BytesUpTo(pages)
<1>0. MAX_ORDER \in Nat
  BY ZonesAssumption
<1>1. /\ sum \in [0 .. MAX_ORDER -> Nat]
      /\ sum[0] = DIV_ROUNDUP((pages \div Pow2[0]) \div 2, 8)
      /\ \A i \in 0 .. MAX_ORDER - 1 :
            sum[i + 1] = DIV_ROUNDUP((pages \div Pow2[i + 1]) \div 2, 8) + sum[i]
  BY BytesDef, Zenon
<1> HIDE DEF sum
<1>2. \A i \in Nat : pages \div Pow2[i] \in Nat
  BY Euclid, Pow2Positive
<1>3. ASSUME NEW q \in Nat PROVE DIV_ROUNDUP(q \div 2, 8) + q \div 2 <= q
                                 /\ DIV_ROUNDUP(q \div 2, 8) \in Nat /\ q \div 2 \in Nat
  <2>1. PICK r \in Nat : r = q \div 2 /\ 2 * r <= q
    BY Euclid
  <2>2. PICK c \in Nat : c = DIV_ROUNDUP(r, 8) /\ c <= r
    BY DivRoundUp
  <2> QED
    BY <2>1, <2>2
<1> DEFINE Good == {i \in Nat : i \in 0 .. MAX_ORDER => sum[i] + pages \div Pow2[i + 1] <= pages}
<1>4. 0 \in Good
  <2>1. Pow2[0] = 1 /\ pages \div 1 = pages
    BY Pow2Def
  <2>2. pages \div 2 = pages \div Pow2[0 + 1]
    BY <2>1, Halved
  <2>3. sum[0] = DIV_ROUNDUP(pages \div 2, 8)
    BY <1>1, <2>1
  <2>4. DIV_ROUNDUP(pages \div 2, 8) + pages \div 2 <= pages
    BY <1>3
  <2>5. sum[0] + pages \div Pow2[0 + 1] <= pages
    BY <2>2, <2>3, <2>4, Zenon
  <2> QED
    BY <2>5
<1>5. ASSUME NEW i \in Nat, i \in Good PROVE i + 1 \in Good
  <2> SUFFICES ASSUME i + 1 \in 0 .. MAX_ORDER
               PROVE  sum[i + 1] + pages \div Pow2[i + 1 + 1] <= pages
    OBVIOUS
  <2>1. i \in 0 .. MAX_ORDER - 1 /\ i \in 0 .. MAX_ORDER
    BY <1>0
  <2>2. PICK q \in Nat : q = pages \div Pow2[i + 1]
    BY <1>2
  <2>3. PICK r \in Nat : r = q \div 2 /\ r = pages \div Pow2[i + 1 + 1]
    BY <1>2, <2>2, Halved
  <2>4. PICK c \in Nat : c = DIV_ROUNDUP(r, 8) /\ c + r <= q
    BY <1>3, <2>3
  <2>5. PICK m \in Nat : m = sum[i] /\ m + q <= pages
    BY <1>1, <1>5, <2>1, <2>2
  <2>6. sum[i + 1] = c + m
    BY <1>1, <2>1, <2>2, <2>3, <2>4, <2>5
  <2>7. (c + m) + r <= pages
    BY <2>4, <2>5
  <2> QED
    BY <2>3, <2>6, <2>7
<1>6. Nat \subseteq Good
  <2> HIDE DEF Good
  <2> QED BY <1>4, <1>5, InductionSet
<1>7. PICK m \in Nat : m = sum[MAX_ORDER] /\ m + pages \div Pow2[MAX_ORDER + 1] <= pages
  BY <1>0, <1>1, <1>6
<1>8. pages \div Pow2[MAX_ORDER + 1] \in Nat
  BY <1>0, <1>2
<1>9. m <= pages
  BY <1>7, <1>8
<1> QED
  BY <1>7, <1>9 DEF EstimatedBytes, sum

\* The bytes that order i's bitmap takes.
Bytes(pages, i) == DIV_ROUNDUP((pages \div Pow2[i]) \div 2, 8)

\* Higher orders take fewer bytes.
LEMMA BytesShrink ==
    ASSUME NEW p \in Nat, NEW i \in Nat
    PROVE  Bytes(p, i) \in Nat /\ Bytes(p, i + 1) \in Nat /\ Bytes(p, i + 1) <= Bytes(p, i)
<1>1. PICK a \in Nat : a = p \div Pow2[i]
  BY Euclid, Pow2Positive
<1>h. a \div 2 = p \div Pow2[i + 1]
  BY <1>1, Halved
<1>2. PICK c \in Nat : c = a \div 2 /\ c = p \div Pow2[i + 1]
  BY <1>h, Euclid
<1>3. PICK e \in Nat : e = c \div 2 /\ e <= c
  BY Euclid
<1>4. DIV_ROUNDUP(c, 8) \in Nat /\ DIV_ROUNDUP(e, 8) \in Nat
  <2>1. \A x \in Nat : DIV_ROUNDUP(x, 8) \in Nat
    BY DivRoundUp
  <2> QED
    BY <2>1
<1>5. DIV_ROUNDUP(e, 8) <= DIV_ROUNDUP(c, 8)
  BY <1>3, RoundUpOrder
<1>6. Bytes(p, i) = DIV_ROUNDUP(c, 8) /\ Bytes(p, i + 1) = DIV_ROUNDUP(e, 8)
  BY <1>1, <1>2, <1>3, Zenon DEF Bytes
<1> QED
  BY <1>4, <1>5, <1>6

\* More pages take more bytes.
LEMMA BytesGrow ==
    ASSUME NEW p \in Nat, NEW q \in Nat, p <= q, NEW i \in Nat
    PROVE  Bytes(p, i) <= Bytes(q, i)
<1>1. PICK n \in Nat \ {0} : n = Pow2[i]
  BY Pow2Positive
<1>2. PICK a \in Nat : a = p \div n
  BY Euclid
<1>3. PICK b \in Nat : b = q \div n
  BY Euclid
<1>4. a <= b
  BY <1>2, <1>3, QuotientOrder
<1>5. a \div 2 <= b \div 2 /\ a \div 2 \in Nat /\ b \div 2 \in Nat
  BY <1>4, Euclid, QuotientOrder
<1>6. DIV_ROUNDUP(a \div 2, 8) <= DIV_ROUNDUP(b \div 2, 8)
  BY <1>5, RoundUpOrder
<1> QED
  BY <1>1, <1>2, <1>3, <1>6 DEF Bytes

\* The estimate covers every bitmap of a zone of fewer pages, laid out as
\* zone_add does it: all of them at the distance of the last one's size.
LEMMA EstimateCovers ==
    ASSUME NEW pages \in Nat, NEW p \in Nat, p <= pages, NEW o \in 0 .. MAX_ORDER
    PROVE  o * Bytes(p, MAX_ORDER) + Bytes(p, o) <= EstimatedBytes(pages)
<1> DEFINE sum == BytesUpTo(pages)
           K == Bytes(p, MAX_ORDER)
<1>0. MAX_ORDER \in Nat /\ K \in Nat
  BY ZonesAssumption, BytesShrink
<1>1. /\ sum \in [0 .. MAX_ORDER -> Nat] /\ sum[0] = Bytes(pages, 0)
      /\ \A i \in 0 .. MAX_ORDER - 1 : sum[i + 1] = Bytes(pages, i + 1) + sum[i]
  BY BytesDef, Zenon DEF Bytes
<1> HIDE DEF sum, K
<1>2. \A i \in 0 .. MAX_ORDER : K <= Bytes(p, i)
  <2> DEFINE Good == {i \in Nat : i <= MAX_ORDER => K <= Bytes(p, MAX_ORDER - i)}
  <2>1. 0 \in Good
    BY <1>0 DEF K
  <2>2. ASSUME NEW i \in Nat, i \in Good PROVE i + 1 \in Good
    <3> SUFFICES ASSUME i + 1 <= MAX_ORDER PROVE K <= Bytes(p, MAX_ORDER - (i + 1))
      OBVIOUS
    <3>1. PICK j \in Nat : j = MAX_ORDER - (i + 1) /\ j + 1 = MAX_ORDER - i
      BY <1>0
    <3>2. K <= Bytes(p, j + 1)
      BY <1>0, <2>2, <3>1
    <3>3. Bytes(p, j + 1) <= Bytes(p, j) /\ Bytes(p, j) \in Nat /\ Bytes(p, j + 1) \in Nat
      BY BytesShrink
    <3> QED
      BY <1>0, <3>1, <3>2, <3>3
  <2>3. Nat \subseteq Good
    <3> HIDE DEF Good
    <3> QED BY <2>1, <2>2, InductionSet
  <2> SUFFICES ASSUME NEW i \in 0 .. MAX_ORDER PROVE K <= Bytes(p, i)
    OBVIOUS
  <2>4. MAX_ORDER - i \in Nat /\ MAX_ORDER - i <= MAX_ORDER /\ MAX_ORDER - (MAX_ORDER - i) = i
    BY <1>0
  <2> QED
    BY <2>3, <2>4
<1> DEFINE Fits == {i \in Nat : i <= MAX_ORDER => i * K + Bytes(p, i) <= sum[i]}
<1>3. 0 \in Fits
  <2>1. Bytes(p, 0) <= Bytes(pages, 0) /\ Bytes(p, 0) \in Nat
    BY BytesShrink, BytesGrow
  <2>2. 0 * K = 0
    BY <1>0
  <2> QED
    BY <1>1, <2>1, <2>2
<1>4. ASSUME NEW i \in Nat, i \in Fits PROVE i + 1 \in Fits
  <2> SUFFICES ASSUME i + 1 <= MAX_ORDER PROVE (i + 1) * K + Bytes(p, i + 1) <= sum[i + 1]
    OBVIOUS
  <2>1. i \in 0 .. MAX_ORDER - 1 /\ i \in 0 .. MAX_ORDER /\ i <= MAX_ORDER
    BY <1>0
  <2>2. PICK a \in Nat : a = Bytes(p, i) /\ K <= a
    BY <1>2, <2>1, BytesShrink
  <2>3. PICK b \in Nat : b = Bytes(p, i + 1)
    BY BytesShrink
  <2>4. PICK c \in Nat : c = Bytes(pages, i + 1)
    BY BytesShrink
  <2>9. b <= c
    BY <2>3, <2>4, BytesGrow
  <2>5. PICK m \in Nat : m = sum[i] /\ sum[i + 1] = c + m
    BY <1>1, <2>1, <2>4
  <2>6. PICK t \in Nat : t = i * K /\ (i + 1) * K = t + K
    BY <1>0
  <2>7. t + a <= m
    BY <1>4, <2>1, <2>2, <2>5, <2>6
  <2>8. (t + K) + b <= c + m
    BY <1>0, <2>2, <2>7, <2>9
  <2> QED
    BY <2>3, <2>5, <2>6, <2>8
<1>5. Nat \subseteq Fits
  <2> HIDE DEF Fits
  <2> QED BY <1>3, <1>4, InductionSet
<1>6. o * K + Bytes(p, o) <= sum[o]
  BY <1>0, <1>5
<1> DEFINE Above == {i \in Nat : o + i <= MAX_ORDER => sum[o] <= sum[o + i]}
<1>7. 0 \in Above
  <2>1. o + 0 = o /\ sum[o] \in Nat
    BY <1>0, <1>1
  <2> QED
    BY <2>1
<1>8. ASSUME NEW i \in Nat, i \in Above PROVE i + 1 \in Above
  <2> SUFFICES ASSUME o + (i + 1) <= MAX_ORDER PROVE sum[o] <= sum[o + (i + 1)]
    OBVIOUS
  <2>1. PICK j \in 0 .. MAX_ORDER - 1 : j = o + i /\ o + (i + 1) = j + 1
    BY <1>0
  <2>2. sum[o] <= sum[j] /\ sum[j] \in Nat /\ sum[o] \in Nat
    BY <1>0, <1>1, <1>8, <2>1
  <2>3. sum[j + 1] = Bytes(pages, j + 1) + sum[j] /\ Bytes(pages, j + 1) \in Nat
    BY <1>1, BytesShrink
  <2>4. sum[o] <= sum[j + 1]
    BY <2>2, <2>3
  <2> QED
    BY <2>1, <2>4
<1>9. Nat \subseteq Above
  <2> HIDE DEF Above
  <2> QED BY <1>7, <1>8, InductionSet
<1>10. MAX_ORDER - o \in Nat /\ o + (MAX_ORDER - o) = MAX_ORDER
  BY <1>0
<1>11. sum[o] <= sum[MAX_ORDER] /\ sum[o] \in Nat /\ sum[MAX_ORDER] \in Nat
  <2>1. MAX_ORDER - o \in Above
    BY <1>9, <1>10
  <2>2. sum[o] <= sum[MAX_ORDER]
    BY <1>0, <1>10, <2>1
  <2> QED
    BY <1>0, <1>1, <2>2
<1>12. o * K \in Nat /\ Bytes(p, o) \in Nat
  BY <1>0, BytesShrink
<1>13. o * K + Bytes(p, o) <= sum[MAX_ORDER]
  BY <1>6, <1>11, <1>12
<1> QED
  BY <1>13 DEF EstimatedBytes, sum, K

\* Pages in the largest block.
W == Pow2[MAX_ORDER]

\* A largest block has at least one page.
LEMMA BlockDef ==
    /\ PAGE_SIZE \in Nat \ {0} /\ W \in Nat \ {0} /\ MAX_ORDER \in Nat
    /\ Block = PAGE_SIZE * W /\ Block \in Nat \ {0}
<1>1. PAGE_SIZE \in Nat \ {0} /\ W \in Nat \ {0} /\ MAX_ORDER \in Nat
  BY ZonesAssumption, Pow2Positive DEF W
<1>2. PICK p \in Nat \ {0} : p = PAGE_SIZE
  BY <1>1
<1>3. PICK w \in Nat \ {0} : w = W
  BY <1>1
<1>4. p * w \in Nat \ {0}
  OBVIOUS
<1> QED
  BY <1>1, <1>2, <1>3, <1>4 DEF Block, W

\* A zone whose ends are ends of largest blocks.
WholeBlocks(z) ==
    \E a, b \in Nat : /\ a <= b /\ z.start = Block * a /\ z.end = Block * b
                      /\ z.pages_count = W * (b - a)
                      /\ PAGE_SIZE * z.pages_count = z.end - z.start

\* What zone_add makes of a region: whole blocks, behind room for the
\* estimated bitmaps, that end less than a block after the region.
LEMMA ZoneShape ==
    ASSUME NEW addr \in Nat, NEW pages \in Nat, NEW z, z = ZoneAt(addr, pages)
    PROVE  /\ z \in Zone /\ z.bitmap = addr /\ z.pages_count <= pages
           /\ addr + EstimatedBytes(pages) <= z.start
           /\ z.end < addr + PAGE_SIZE * pages + Block
           /\ WholeBlocks(z)
<1>1. PICK P \in Nat \ {0} : P = PAGE_SIZE
  BY BlockDef
<1>2. PICK w \in Nat \ {0} : w = W
  BY BlockDef
<1>3. PICK B \in Nat \ {0} : B = Block /\ B = P * w
  BY <1>1, <1>2, BlockDef
<1>4. PICK E \in Nat : E = EstimatedBytes(pages) /\ E <= pages
  BY EstimateBounded
<1>5. PICK R \in Nat : R = DIV_ROUNDUP(E, P) /\ P * R >= E /\ R <= E
  BY DivRoundUp
<1>6. PICK Q \in Nat : Q = P * R
  OBVIOUS
<1>q. addr + Q \in Nat
  OBVIOUS
<1>7. PICK a \in Nat : ROUNDUP(addr + Q, B) = B * a /\ addr + Q <= B * a /\ B * a < addr + Q + B
  BY <1>q, RoundUp
<1>8. PICK S \in Nat : S = B * a
  OBVIOUS
<1>9. PICK L \in Nat : L = pages - R
  BY <1>4, <1>5
<1>10. PICK M \in Nat : M = L * P /\ M = P * L
  OBVIOUS
<1>11. PICK b \in Nat : ROUNDDOWN(S + M, B) = B * b /\ B * b <= S + M /\ S + M < B * b + B
  <2>1. S + M \in Nat
    OBVIOUS
  <2> QED
    BY <2>1, RoundDown
<1>12. PICK T \in Nat : T = B * b
  OBVIOUS
<1>13. z = [bitmap |-> addr, start |-> S, end |-> T, pages_count |-> (T - S) \div P]
  BY <1>1, <1>3, <1>4, <1>5, <1>6, <1>7, <1>8, <1>9, <1>10, <1>11, <1>12, Zenon DEF ZoneAt
<1>14. a <= b
  <2> SUFFICES ASSUME b < a PROVE FALSE
    OBVIOUS
  <2>1. B * b + B <= B * a
    BY Products
  <2> QED
    BY <1>8, <1>11, <1>12, <2>1
<1>15. PICK c \in Nat : c = b - a
  BY <1>14
<1>16. T - S = P * (w * c)
  <2>1. B * b = B * a + B * c
    BY <1>15
  <2>2. B * c = P * (w * c)
    BY <1>3
  <2>3. B * c \in Nat
    OBVIOUS
  <2> QED
    BY <1>8, <1>12, <2>1, <2>2, <2>3
<1>17. PICK n \in Nat : n = w * c
  OBVIOUS
<1>18. PICK D \in Nat : D = P * n /\ D = T - S
  BY <1>16, <1>17
<1>19. (T - S) \div P = n
  <2>1. D \div P = n
    BY <1>18, Quotients
  <2> QED
    BY <1>18, <2>1
<1>20. n <= L
  <2> SUFFICES ASSUME L < n PROVE FALSE
    OBVIOUS
  <2>1. P * L + P <= P * n
    BY Products
  <2> QED
    BY <1>10, <1>11, <1>12, <1>18, <2>1
<1>21. z.bitmap = addr /\ z.start = S /\ z.end = T /\ z.pages_count = n
  BY <1>13, <1>19
<1>22. z \in Zone
  <2>1. z = [bitmap |-> addr, start |-> S, end |-> T, pages_count |-> n]
    BY <1>13, <1>19
  <2> QED
    BY <2>1 DEF Zone
<1>23. n <= pages
  BY <1>9, <1>20
<1>24. addr + E <= S
  BY <1>5, <1>6, <1>7, <1>8
<1>25. T < addr + P * pages + B
  <2>1. P * pages = P * R + P * L
    BY <1>9
  <2>2. P * pages = Q + M
    BY <1>6, <1>10, <2>1
  <2> QED
    BY <1>7, <1>8, <1>11, <1>12, <2>2
<1>26. /\ a <= b /\ z.start = Block * a /\ z.end = Block * b
       /\ z.pages_count = W * (b - a) /\ PAGE_SIZE * z.pages_count = z.end - z.start
  BY <1>1, <1>2, <1>3, <1>8, <1>12, <1>14, <1>15, <1>17, <1>18, <1>21
<1>27. WholeBlocks(z)
  BY <1>26 DEF WholeBlocks
<1> QED
  BY <1>1, <1>3, <1>4, <1>21, <1>22, <1>23, <1>24, <1>25, <1>27

\* A smaller power of two divides a larger one.
LEMMA Pow2Divides ==
    ASSUME NEW i \in Nat, NEW d \in Nat
    PROVE  \E m \in Nat : Pow2[i + d] = Pow2[i] * m
<1> DEFINE Good == {n \in Nat : \E m \in Nat : Pow2[i + n] = Pow2[i] * m}
<1>0. PICK p \in Nat : p = Pow2[i]
  BY Pow2Def
<1>1. 0 \in Good
  <2>1. i + 0 = i /\ 1 \in Nat /\ p = p * 1
    OBVIOUS
  <2> QED
    BY <1>0, <2>1
<1>2. ASSUME NEW n \in Nat, n \in Good PROVE n + 1 \in Good
  <2>1. PICK m \in Nat : Pow2[i + n] = p * m
    BY <1>0, <1>2
  <2>2. i + n \in Nat /\ i + (n + 1) = (i + n) + 1
    OBVIOUS
  <2>3. Pow2[i + (n + 1)] = 2 * (p * m)
    BY <2>1, <2>2, Pow2Def
  <2>4. 2 * (p * m) = p * (2 * m) /\ 2 * m \in Nat
    OBVIOUS
  <2>5. Pow2[i + (n + 1)] = p * (2 * m)
    BY <2>3, <2>4
  <2> QED
    BY <1>0, <2>4, <2>5
<1>3. Nat \subseteq Good
  <2> HIDE DEF Good
  <2> QED BY <1>1, <1>2, InductionSet
<1> QED
  BY <1>3

\* The blocks of an order below the largest come in pairs, so that a bit per
\* pair is what the estimate counts.
LEMMA WholePairs ==
    ASSUME NEW c \in Nat, NEW p \in Nat, p = W * c, NEW i \in 0 .. MAX_ORDER - 1
    PROVE  DIV_ROUNDUP(p \div Pow2[i], 2) = (p \div Pow2[i]) \div 2
<1>1. MAX_ORDER \in Nat /\ i \in Nat /\ MAX_ORDER - (i + 1) \in Nat
      /\ (i + 1) + (MAX_ORDER - (i + 1)) = MAX_ORDER
  BY BlockDef
<1>2. PICK n \in Nat \ {0} : n = Pow2[i] /\ Pow2[i + 1] = 2 * n
  BY <1>1, Pow2Positive, Pow2Def
<1>3. PICK m \in Nat : W = Pow2[i + 1] * m
  <2>1. PICK j \in Nat, d \in Nat : j = i + 1 /\ j + d = MAX_ORDER
    BY <1>1
  <2>2. PICK m \in Nat : Pow2[j + d] = Pow2[j] * m
    BY Pow2Divides
  <2> QED
    BY <2>1, <2>2 DEF W
<1>4. PICK x \in Nat : x = m * c
  OBVIOUS
<1>5. p = n * (2 * x)
  <2>1. p = ((2 * n) * m) * c
    BY <1>2, <1>3
  <2>2. ((2 * n) * m) * c = n * (2 * (m * c))
    OBVIOUS
  <2> QED
    BY <1>4, <2>1, <2>2
<1>6. PICK y \in Nat : y = 2 * x
  OBVIOUS
<1>7. p \div n = y
  <2>1. n * y <= p /\ p < n * y + n
    BY <1>5, <1>6
  <2> QED
    BY <2>1, Quotients
<1>8. DIV_ROUNDUP(y, 2) = y \div 2
  BY <1>6 DEF DIV_ROUNDUP
<1> QED
  BY <1>2, <1>7, <1>8

\* A zone as it should be: above what is reserved, made of whole blocks, and
\* behind its own bitmaps.
GoodZone(z) ==
    /\ z \in Zone /\ z.bitmap >= reserved_end
    /\ z.start % Block = 0 /\ z.end % Block = 0 /\ z.start <= z.end
    /\ PAGE_SIZE * z.pages_count = z.end - z.start
    /\ \A o \in 0 .. MAX_ORDER - 1 : BitmapEnd(z, o) <= z.start

\* zone_add makes such a zone.
LEMMA ZoneGood ==
    ASSUME NEW addr \in Nat, NEW pages \in Nat, addr >= reserved_end
    PROVE  GoodZone(ZoneAt(addr, pages))
<1>1. PICK z : z = ZoneAt(addr, pages)
  OBVIOUS
<1>2. /\ z \in Zone /\ z.bitmap = addr /\ z.pages_count <= pages
      /\ addr + EstimatedBytes(pages) <= z.start /\ WholeBlocks(z)
  BY <1>1, ZoneShape
<1>3. PICK a, b \in Nat : /\ a <= b /\ z.start = Block * a /\ z.end = Block * b
                          /\ z.pages_count = W * (b - a)
                          /\ PAGE_SIZE * z.pages_count = z.end - z.start
  BY <1>2 DEF WholeBlocks
<1>4. z.start % Block = 0 /\ z.end % Block = 0 /\ z.start <= z.end
  <2>1. PICK B \in Nat \ {0} : B = Block
    BY BlockDef
  <2>2. ASSUME NEW x \in Nat PROVE (B * x) % B = 0
    <3>1. PICK y \in Nat : y = B * x
      OBVIOUS
    <3>2. y % B = y - B * x
      BY <3>1, Quotients
    <3> QED
      BY <3>1, <3>2
  <2>3. B * a <= B * b
    BY <1>3, Products
  <2> QED
    BY <1>3, <2>1, <2>2, <2>3
<1>5. PICK p \in Nat, s \in Nat : p = z.pages_count /\ s = z.start
  BY <1>2 DEF Zone
<1>6. ASSUME NEW o \in 0 .. MAX_ORDER - 1 PROVE BitmapEnd(z, o) <= z.start
  <2>1. o \in Nat /\ o \in 0 .. MAX_ORDER /\ MAX_ORDER \in Nat
    BY BlockDef
  <2>2. b - a \in Nat /\ p = W * (b - a)
    BY <1>3, <1>5
  <2>3. DIV_ROUNDUP(p \div Pow2[o], 2) = (p \div Pow2[o]) \div 2
    BY <2>2, WholePairs
  <2>4. PICK k \in Nat : k = Bytes(p, MAX_ORDER)
    BY <2>1, BytesShrink
  <2>5. PICK e \in Nat : e = Bytes(p, o)
    BY <2>1, BytesShrink
  <2>6. BitmapEnd(z, o) = (addr + o * k) + e
    BY <1>2, <1>5, <2>3, <2>4, <2>5, Zenon DEF BitmapEnd, BitmapStart, Bytes
  <2>7. PICK E \in Nat : E = EstimatedBytes(pages)
    BY EstimateBounded
  <2>8. o * k + e <= E
    BY <1>2, <1>5, <2>1, <2>4, <2>5, <2>7, EstimateCovers
  <2>9. o * k \in Nat
    BY <2>1
  <2>10. addr + E <= s
    BY <1>2, <1>5, <2>7
  <2> QED
    BY <1>5, <2>6, <2>8, <2>9, <2>10
<1>7. GoodZone(z)
  BY <1>2, <1>3, <1>4, <1>6 DEF GoodZone
<1> QED
  BY <1>1, <1>7

\* An entry of the memory map.
Entry == [base : Nat, length : Nat, type : STRING]

\* What is reserved ends at a page.
LEMMA ReservedDef == reserved_end \in Nat /\ \E k \in Nat : reserved_end = PAGE_SIZE * k
<1>1. PICK P \in Nat \ {0} : P = PAGE_SIZE
  BY BlockDef
<1>2. KernelEnd \in Nat /\ InfoStart \in Nat /\ InfoSize \in Nat
  BY ZonesAssumption
<1>3. PICK j \in Nat : ROUNDUP(InfoSize, P) = P * j
  BY <1>2, RoundUp
<1>4. PICK info \in Nat : info = InfoStart + ROUNDUP(InfoSize, P)
  <2>1. P * j \in Nat
    OBVIOUS
  <2> QED
    BY <1>2, <1>3, <2>1
<1>5. PICK x \in Nat : x = IF info > KernelEnd THEN info ELSE KernelEnd
  BY <1>2
<1>6. PICK k \in Nat : ROUNDUP(x, P) = P * k
  BY RoundUp
<1>7. reserved_end = P * k
  BY <1>1, <1>4, <1>5, <1>6, Zenon DEF reserved_end
<1>8. P * k \in Nat
  OBVIOUS
<1> QED
  BY <1>1, <1>7, <1>8

\* What frame_alloc_init makes of an entry lies in the entry's pages, rounded
\* up, and above what is reserved.
LEMMA RegionShape ==
    ASSUME NEW e \in Entry, NEW r, r = Region(e)
    PROVE  /\ r.base \in Nat /\ r.pages \in Nat
           /\ r.pages >= 1 =>
                 /\ r.base >= reserved_end /\ r.base >= ROUNDUP(e.base, PAGE_SIZE)
                 /\ r.base + PAGE_SIZE * r.pages <= ROUNDUP(e.base + e.length, PAGE_SIZE)
<1>1. PICK P \in Nat \ {0} : P = PAGE_SIZE
  BY BlockDef
<1>2. PICK b, l \in Nat : b = e.base /\ l = e.length
  BY DEF Entry
<1>3. PICK j \in Nat : ROUNDUP(b, P) = P * j /\ b <= P * j /\ P * j < b + P
  BY RoundUp
<1>4. PICK base \in Nat : base = P * j
  OBVIOUS
<1>5. PICK n \in Nat : n = l \div P /\ P * n <= l
  BY Euclid
<1>6. PICK k \in Nat : ROUNDUP(b + l, P) = P * k /\ b + l <= P * k
  <2>1. b + l \in Nat
    OBVIOUS
  <2> QED
    BY <2>1, RoundUp
<1>7. base + P * n <= P * k
  <2>1. base + P * n = P * (j + n)
    BY <1>4
  <2>2. P * n \in Nat /\ P * k \in Nat
    OBVIOUS
  <2>3. P * (j + n) < P * k + P
    BY <1>3, <1>4, <1>5, <1>6, <2>1, <2>2
  <2>4. j + n \in Nat
    OBVIOUS
  <2> QED
    BY <2>1, <2>3, <2>4, Products
<1>8. PICK x \in Nat : x = reserved_end
  BY ReservedDef
<1>9. PICK i \in Nat : x = P * i
  BY <1>1, <1>8, ReservedDef
<1>10. r = IF base >= x THEN [base |-> base, pages |-> n]
           ELSE IF x >= base + n * P THEN [base |-> base, pages |-> 0]
           ELSE [base |-> x, pages |-> n - (x - base) \div P]
  BY <1>1, <1>2, <1>3, <1>4, <1>5, <1>8, Zenon DEF Region
<1>11. CASE base >= x
  <2>1. r.base = base /\ r.pages = n
    BY <1>10, <1>11
  <2> QED
    BY <1>1, <1>2, <1>3, <1>4, <1>6, <1>7, <1>8, <1>11, <2>1
<1>12. CASE ~ (base >= x) /\ x >= base + n * P
  <2>1. r.base = base /\ r.pages = 0
    BY <1>10, <1>12
  <2> QED
    BY <2>1
<1>13. CASE ~ (base >= x) /\ ~ (x >= base + n * P)
  <2>1. PICK d \in Nat : d = i - j
    <3>1. j < i
      <4> SUFFICES ASSUME i <= j PROVE FALSE
        OBVIOUS
      <4>1. P * i <= P * j
        BY Products
      <4> QED
        BY <1>4, <1>9, <1>13, <4>1
    <3> QED
      BY <3>1
  <2>2. PICK y \in Nat : y = P * d /\ y = x - base
    BY <1>4, <1>9, <2>1
  <2>3. y \div P = d
    BY <2>2, Quotients
  <2>4. (x - base) \div P = d
    BY <2>2, <2>3
  <2>5. r.base = x /\ r.pages = n - d
    BY <1>10, <1>13, <2>4
  <2>6. d <= n
    <3> SUFFICES ASSUME n < d PROVE FALSE
      OBVIOUS
    <3>1. P * n <= P * d
      BY Products
    <3>2. n * P = P * n /\ P * n \in Nat
      OBVIOUS
    <3> QED
      BY <1>13, <2>2, <3>1, <3>2
  <2>7. PICK m \in Nat : m = n - d
    BY <2>6
  <2>8. x + P * m = base + P * n
    <3>1. P * n = P * d + P * m
      BY <2>7
    <3>2. P * n \in Nat /\ P * m \in Nat
      OBVIOUS
    <3> QED
      BY <2>2, <3>1, <3>2
  <2>9. x + P * m <= P * k
    BY <1>7, <2>8
  <2>10. x >= base
    BY <1>13
  <2> QED
    BY <1>1, <1>2, <1>3, <1>4, <1>6, <1>8, <2>5, <2>7, <2>9, <2>10
<1> QED
  BY <1>11, <1>12, <1>13

\* The first address at which the zone of a region that begins at base can start.
Floor(base) == ROUNDUP(ROUNDUP(base, PAGE_SIZE), Block)

\* An entry's zone does not start below that, and it ends at or below that of
\* every address behind the entry.
LEMMA ZoneBetween ==
    ASSUME NEW e \in Entry, NEW g \in Nat, e.base + e.length <= g,
           NEW r, r = Region(e), r.pages >= 1, NEW z, z = ZoneAt(r.base, r.pages)
    PROVE  Floor(e.base) <= z.start /\ z.end <= Floor(g)
<1>1. PICK P \in Nat \ {0} : P = PAGE_SIZE
  BY BlockDef
<1>2. PICK B \in Nat \ {0} : B = Block
  BY BlockDef
<1>3. PICK b, l \in Nat : b = e.base /\ l = e.length /\ b + l <= g
  BY DEF Entry
<1>4. PICK u \in Nat : u = ROUNDUP(b, P)
  <2>1. PICK k \in Nat : ROUNDUP(b, P) = P * k
    BY RoundUp
  <2> QED
    BY <2>1
<1>5. PICK v \in Nat : v = ROUNDUP(g, P)
  <2>1. PICK k \in Nat : ROUNDUP(g, P) = P * k
    BY RoundUp
  <2> QED
    BY <2>1
<1>6. PICK x, n \in Nat : x = r.base /\ n = r.pages
  BY RegionShape
<1>7. x >= u /\ x + P * n <= ROUNDUP(b + l, P)
  BY <1>1, <1>3, <1>4, <1>6, RegionShape
<1>8. x + P * n <= v
  <2>1. b + l \in Nat
    OBVIOUS
  <2>2. PICK w \in Nat : w = ROUNDUP(b + l, P) /\ w <= v
    <3>1. PICK k \in Nat : ROUNDUP(b + l, P) = P * k
      BY <2>1, RoundUp
    <3>2. ROUNDUP(b + l, P) <= v
      BY <1>3, <1>5, <2>1, RoundUpOrder
    <3> QED
      BY <3>1, <3>2
  <2>3. P * n \in Nat
    OBVIOUS
  <2> QED
    BY <1>7, <2>2, <2>3
<1>9. /\ z \in Zone /\ x + EstimatedBytes(n) <= z.start /\ z.end < x + P * n + B /\ WholeBlocks(z)
  BY <1>1, <1>2, <1>6, ZoneShape
<1>10. PICK a, c \in Nat : z.start = B * a /\ z.end = B * c
  BY <1>2, <1>9 DEF WholeBlocks
<1>11. x <= B * a
  <2>1. EstimatedBytes(n) \in Nat
    BY EstimateBounded
  <2> QED
    BY <1>9, <1>10, <2>1
<1>12. PICK h \in Nat : ROUNDUP(u, B) = B * h /\ B * h < u + B
  BY RoundUp
<1>13. PICK k \in Nat : ROUNDUP(v, B) = B * k /\ v <= B * k
  BY RoundUp
<1>14. B * h <= B * a
  <2>1. B * h < B * a + B
    <3>1. B * h \in Nat /\ B * a \in Nat
      OBVIOUS
    <3> QED
      BY <1>7, <1>11, <1>12, <3>1
  <2> QED
    BY <2>1, Products
<1>15. B * c <= B * k
  <2>1. B * c < B * k + B
    <3>1. B * c \in Nat /\ B * k \in Nat /\ P * n \in Nat
      OBVIOUS
    <3> QED
      BY <1>8, <1>9, <1>10, <1>13, <3>1
  <2> QED
    BY <2>1, Products
<1>16. Floor(e.base) = B * h /\ Floor(g) = B * k
  BY <1>1, <1>2, <1>3, <1>4, <1>5, <1>12, <1>13 DEF Floor
<1> QED
  BY <1>10, <1>14, <1>15, <1>16

-----------------------------------------------------------------------------
(* What is being read, and the types. *)

\* The data that is read in each phase.
InputOK ==
    /\ pc = "early" => input \in KernelPages
    /\ pc = "parse" => input \in Infos
    /\ pc = "fb" => input \in Infos
    /\ pc \in {"lookup", "found"} => input \in SdtLists
    /\ pc = "madt" => input \in Madts
    /\ pc = "frames" => input \in MemMaps

\* Each phase sets up the data that the next one reads.
LEMMA InputStep == InputOK /\ [Next]_vars => InputOK'
<1> SUFFICES ASSUME InputOK, [Next]_vars PROVE InputOK'
  OBVIOUS
<1> USE DEF InputOK, Goto, panic
<1>1. CASE EarlyMap
  BY <1>1 DEF EarlyMap
<1>2. CASE ArchInit
  BY <1>2 DEF ArchInit
<1>3. CASE IdtEntry
  BY <1>3 DEF IdtEntry
<1>4. CASE Lidt
  BY <1>4 DEF Lidt
<1>5. CASE ParseTag
  BY <1>5 DEF ParseTag
<1>6. CASE ParseEnd
  BY <1>6 DEF ParseEnd
<1>7. CASE FbInit
  BY <1>7 DEF FbInit
<1>8. CASE ConsInit
  BY <1>8 DEF ConsInit
<1>9. CASE AcpiInit
  BY <1>9 DEF AcpiInit
<1>10. CASE LookupNext
  BY <1>10 DEF LookupNext
<1>11. CASE LookupFound
  BY <1>11 DEF LookupFound
<1>12. CASE LookupNone
  BY <1>12 DEF LookupNone
<1>13. CASE MadtStart
  BY <1>13 DEF MadtStart
<1>14. CASE MadtEntry
  BY <1>14 DEF MadtEntry
<1>15. CASE ApicEnable
  BY <1>15 DEF ApicEnable
<1>16. CASE TimerStart
  BY <1>16 DEF TimerStart
<1>17. CASE TimerPolled
  BY <1>17 DEF TimerPolled
<1>18. CASE TimerArm
  BY <1>18 DEF TimerArm
<1>19. CASE DumpMemmap
  BY <1>19 DEF DumpMemmap
<1>20. CASE SkipEntry
  BY <1>20 DEF SkipEntry
<1>21. CASE ZoneAdd
  BY <1>21 DEF ZoneAdd
<1>22. CASE FramesDone
  BY <1>22 DEF FramesDone
<1>23. CASE SchedStart
  BY <1>23 DEF SchedStart
<1>24. CASE BusTick
  BY <1>24 DEF BusTick
<1>25. CASE PitFire
  BY <1>25 DEF PitFire
<1>26. CASE UNCHANGED vars
  BY <1>26 DEF vars
<1> QED
  BY <1>1, <1>2, <1>3, <1>4, <1>5, <1>6, <1>7, <1>8, <1>9, <1>10, <1>11, <1>12, <1>13,
     <1>14, <1>15, <1>16, <1>17, <1>18, <1>19, <1>20, <1>21, <1>22, <1>23, <1>24, <1>25, <1>26
  DEF Next, Kmain, Stopped

\* A record that a walk stands at is one of the table, or its end.
LEMMA AtRecord ==
    ASSUME NEW s \in Seq(Record), NEW first \in Nat, NEW align \in Nat \ {0}, NEW off,
           NEW k \in RecordAt(s, first, align, off)
    PROVE  /\ k \in 1 .. Len(s) + 1 /\ off \in Nat
           /\ k # Len(s) + 1 => k \in 1 .. Len(s) /\ s[k] \in Record /\ s[k].size \in Nat
<1>1. k \in 1 .. Len(s) + 1 /\ Offsets(s, first, align)[k] = off
  BY DEF RecordAt
<1>2. off \in Nat
  <2>1. Offsets(s, first, align) \in [1 .. Len(s) + 1 -> Nat]
    BY OffsetsDef
  <2> QED
    BY <1>1, <2>1
<1>3. ASSUME k # Len(s) + 1 PROVE k \in 1 .. Len(s) /\ s[k] \in Record /\ s[k].size \in Nat
  <2>1. k \in 1 .. Len(s)
    BY <1>1, <1>3
  <2>2. s[k] \in Record
    BY <2>1
  <2> QED
    BY <2>1, <2>2 DEF Record
<1> QED
  BY <1>1, <1>2, <1>3

\* The next tag is looked for at a multiple of the alignment.
LEMMA NextTagDef ==
    ASSUME NEW iter \in Nat, NEW size \in Nat
    PROVE  NextTag(iter, size) \in Nat
<1>1. PICK a \in Nat : a = iter + size
  OBVIOUS
<1>2. PICK j \in Nat : ROUNDUP(a, 8) = 8 * j
  <2>1. \A n \in Nat \ {0} : \E j \in Nat : ROUNDUP(a, n) = n * j
    BY RoundUp
  <2>2. 8 \in Nat \ {0}
    OBVIOUS
  <2> QED
    BY <2>1, <2>2, Zenon
<1>3. NextTag(iter, size) = 8 * j
  BY <1>1, <1>2, Zenon DEF NextTag, MB_TAG_ALIGNMENT
<1> QED
  BY <1>3

\* Writing a gate that irq_init installs stays inside the table.
LEMMA GatesType ==
    ASSUME NEW gates \in Gates, NEW i \in 1 .. Len(Vectors)
    PROVE  IDT_ENTRY(gates, Vectors[i]) \in Gates
<1>1. PICK v \in 0 .. 39 : v = Vectors[i]
  BY DEF Vectors
<1>2. PICK w \in 0 .. 40 : w = v + 1
  OBVIOUS
<1>3. {0, 1, 2} \in SUBSET (0 .. 2) /\ gates[w] \ {0} \in SUBSET (0 .. 2)
  BY DEF Gates
<1>4. v \in 0 .. 40
  OBVIOUS
<1>5. IDT_ENTRY(gates, v) = [gates EXCEPT ![v] = {0, 1, 2}, ![w] = gates[w] \ {0}]
  BY <1>2 DEF IDT_ENTRY
<1>6. IDT_ENTRY(gates, v) \in Gates
  BY <1>3, <1>4, <1>5 DEF Gates
<1> QED
  BY <1>1, <1>6

\* kmain keeps every variable in its type.
LEMMA TypeStep == TypeOK /\ InputOK /\ [Next]_vars => TypeOK'
<1> SUFFICES ASSUME TypeOK, InputOK, [Next]_vars PROVE TypeOK'
  OBVIOUS
<1> USE DEF TypeOK, Goto, panic
<1>1. CASE EarlyMap
  <2>1. early'.curr = early.curr + 1
    BY <1>1 DEF EarlyMap
  <2>2. early'.curr \in Nat
    BY <2>1
  <2> QED
    BY <1>1, <2>2 DEF EarlyMap
<1>2. CASE ArchInit
  <2>1. early'.curr = 0 /\ cpu'.star \in Nat /\ cpu'.tr \in Nat
    BY <1>2 DEF ArchInit, NoTables, UDATA
  <2> QED
    BY <1>2, <2>1 DEF ArchInit
<1>3. CASE IdtEntry
  <2>1. idt.vec \in 1 .. Len(Vectors) /\ idt.vec + 1 \in 1 .. Len(Vectors) + 1
    <3>1. Len(Vectors) = 10
      BY DEF Vectors
    <3>2. idt.vec \in 1 .. Len(Vectors) + 1 /\ idt.vec <= Len(Vectors)
      BY <1>3 DEF IdtEntry, Idt
    <3> QED
      BY <3>1, <3>2, SMTT(30)
  <2>2. IDT_ENTRY(idt.gates, Vectors[idt.vec]) \in Gates
    BY <2>1, GatesType DEF Idt
  <2>3. idt' \in Idt
    BY <1>3, <2>1, <2>2 DEF IdtEntry, Idt
  <2> QED
    BY <1>3, <2>3 DEF IdtEntry
<1>4. CASE Lidt
  BY <1>4 DEF Lidt, MbHeader, Idt
<1>5. CASE ParseTag
  <2>1. PICK k \in TagsAtIter \ {Len(input) + 1} :
           mb' = [f \in Wanted \cup {"iter"} |->
                     IF f = "iter" THEN NextTag(mb.iter, input[k].size)
                     ELSE IF f = input[k].type THEN mb.iter ELSE mb[f]]
    BY <1>5 DEF ParseTag
  <2>2. input \in Seq(Record)
    BY <1>5, BootAssumption DEF ParseTag, InputOK, Record
  <2>3. input[k].size \in Nat /\ mb.iter \in Nat
    <3>1. k \in RecordAt(input, MbHeader, MB_TAG_ALIGNMENT, mb.iter) /\ k # Len(input) + 1
      BY DEF TagsAtIter
    <3>2. MbHeader \in Nat /\ MB_TAG_ALIGNMENT \in Nat \ {0}
      BY DEF MbHeader, MB_TAG_ALIGNMENT
    <3> QED
      BY <2>2, <3>1, <3>2, AtRecord
  <2>4. NextTag(mb.iter, input[k].size) \in Nat
    BY <2>3, NextTagDef
  <2>5. mb' \in [Wanted \cup {"iter"} -> Nat]
    BY <2>1, <2>3, <2>4
  <2> QED
    BY <1>5, <2>5 DEF ParseTag
<1>6. CASE ParseEnd
  BY <1>6 DEF ParseEnd
<1>7. CASE FbInit
  BY <1>7 DEF FbInit
<1>8. CASE ConsInit
  BY <1>8 DEF ConsInit
<1>9. CASE AcpiInit
  <2>1. pc' \in {"lookup", "panic"} /\ sdt' \in Nat
    BY <1>9 DEF AcpiInit
  <2> QED
    BY <1>9, <2>1 DEF AcpiInit
<1>10. CASE LookupNext
  <2>1. sdt' \in Nat
    BY <1>10 DEF LookupNext
  <2> QED
    BY <1>10, <2>1 DEF LookupNext
<1>11. CASE LookupFound
  BY <1>11 DEF LookupFound
<1>12. CASE LookupNone
  BY <1>12 DEF LookupNone
<1>13. CASE MadtStart
  BY <1>13 DEF MadtStart, MadtHeader
<1>14. CASE MadtEntry
  <2>1. PICK k \in MadtCurrent :
           madt' = [entry  |-> madt.entry + input[k].size,
                    ioapic |-> IF input[k].type = "ioapic" THEN madt.entry ELSE madt.ioapic]
    BY <1>14 DEF MadtEntry
  <2>a. k \in RecordAt(input, MadtHeader, 1, madt.entry)
    BY DEF MadtCurrent
  <2>2. input \in Seq(Record)
    BY <1>14, BootAssumption DEF MadtEntry, InputOK, Record
  <2>3. k # Len(input) + 1
    <3>1. Offsets(input, MadtHeader, 1)[k] = madt.entry
      BY <2>a DEF RecordAt
    <3>2. madt.entry < Offsets(input, MadtHeader, 1)[Len(input) + 1] /\ madt.entry \in Nat
      BY <1>14 DEF MadtEntry, MadtEnd
    <3> QED
      BY <3>1, <3>2
  <2>4. input[k].size \in Nat
    <3>1. MadtHeader \in Nat /\ 1 \in Nat \ {0}
      BY DEF MadtHeader
    <3> QED
      BY <2>2, <2>3, <2>a, <3>1, AtRecord
  <2>5. madt' \in [entry : Nat, ioapic : Nat]
    BY <2>1, <2>4
  <2> QED
    BY <1>14, <2>5 DEF MadtEntry
<1>15. CASE ApicEnable
  BY <1>15 DEF ApicEnable
<1>16. CASE TimerStart
  <2>1. tmr' \in Timer
    <3>1. 0 \in 0 .. MaxElapsed
      BY BootAssumption
    <3> QED
      BY <1>16, <3>1 DEF TimerStart, Timer
  <2> QED
    BY <1>16, <2>1 DEF TimerStart
<1>17. CASE TimerPolled
  BY <1>17 DEF TimerPolled, Timer
<1>18. CASE TimerArm
  <2>1. PICK e \in Nat : e = tmr.elapsed
    BY BootAssumption DEF Timer
  <2>2. ((((e * 1000) \div 10) * 10) \div 1000) \in Nat
    OBVIOUS
  <2>3. tmr' \in Timer
    <3>1. 0 \in 0 .. MaxElapsed
      BY BootAssumption
    <3> QED
      BY <1>18, <2>1, <2>2, <3>1 DEF TimerArm, Timer, CALLIBRATE_PERIOD, APIC_TIMER_PERIOD
  <2> QED
    BY <1>18, <2>3 DEF TimerArm
<1>19. CASE DumpMemmap
  BY <1>19 DEF DumpMemmap
<1>20. CASE SkipEntry
  <2>1. alloc' = [alloc EXCEPT !.next = alloc.next + 1]
    BY <1>20 DEF SkipEntry
  <2>2. alloc' \in Alloc /\ alloc'.zones = alloc.zones
    BY <2>1, SMTT(30) DEF Alloc
  <2> QED
    BY <1>20, <2>2 DEF SkipEntry
<1>21. CASE ZoneAdd
  <2>1. PICK e : e = input[alloc.next]
    OBVIOUS
  <2>2. PICK r : r = Region(e)
    OBVIOUS
  <2>3. PICK z : z = ZoneAt(r.base, r.pages)
    OBVIOUS
  <2>4. z \in Zone
    <3>1. input \in Seq(Entry)
      BY <1>21, BootAssumption DEF ZoneAdd, InputOK, Entry
    <3>2. alloc.next \in 1 .. Len(input)
      BY <1>21, <3>1 DEF ZoneAdd, Alloc
    <3>3. e \in Entry
      BY <2>1, <3>1, <3>2
    <3>4. r.base \in Nat /\ r.pages \in Nat
      BY <2>2, <3>3, RegionShape
    <3> QED
      BY <2>3, <3>4, ZoneShape
  <2>5. CASE alloc' = [next |-> alloc.next + 1, zones |-> Append(alloc.zones, z),
                       pgcnt |-> alloc.pgcnt + z.pages_count]
             /\ pc' = pc /\ Len(alloc.zones) < MAX_ZONE_COUNT
    <3>1. z.pages_count \in Nat
      BY <2>4 DEF Zone
    <3>2. PICK zs \in Seq(Zone) : zs = alloc.zones
      BY DEF Alloc
    <3>3. Append(zs, z) \in Seq(Zone) /\ Len(Append(zs, z)) = Len(zs) + 1 /\ Len(zs) \in Nat
      BY <2>4
    <3>4. Len(Append(zs, z)) <= MAX_ZONE_COUNT
      BY <2>5, <3>2, <3>3, ZonesAssumption
    <3>5. alloc' \in Alloc /\ alloc'.zones = Append(zs, z)
      BY <2>5, <3>1, <3>2, <3>3, SMTT(30) DEF Alloc
    <3> QED
      BY <1>21, <2>5, <3>4, <3>5 DEF ZoneAdd
  <2>6. CASE pc' = "panic" /\ alloc' = alloc
    BY <1>21, <2>6 DEF ZoneAdd
  <2> QED
    BY <1>21, <2>1, <2>2, <2>3, <2>5, <2>6 DEF ZoneAdd
<1>22. CASE FramesDone
  BY <1>22 DEF FramesDone
<1>23. CASE SchedStart
  BY <1>23 DEF SchedStart
<1>24. CASE BusTick
  <2>1. tmr' = [tmr EXCEPT !.elapsed = tmr.elapsed + 1] /\ tmr.elapsed + 1 \in 0 .. MaxElapsed
    BY <1>24, BootAssumption DEF BusTick, Timer
  <2>2. tmr' \in Timer
    BY <2>1 DEF Timer
  <2> QED
    BY <1>24, <2>2 DEF BusTick
<1>25. CASE PitFire
  BY <1>25 DEF PitFire, Timer
<1>26. CASE UNCHANGED vars
  BY <1>26 DEF vars
<1> QED
  BY <1>1, <1>2, <1>3, <1>4, <1>5, <1>6, <1>7, <1>8, <1>9, <1>10, <1>11, <1>12, <1>13,
     <1>14, <1>15, <1>16, <1>17, <1>18, <1>19, <1>20, <1>21, <1>22, <1>23, <1>24, <1>25, <1>26
  DEF Next, Kmain, Stopped

\* Boot begins with every variable in its type.
LEMMA InitType == Init => TypeOK /\ InputOK
<1> SUFFICES ASSUME Init PROVE TypeOK /\ InputOK
  OBVIOUS
<1>1. idt \in Idt
  <2>1. Len(Vectors) = 10
    BY DEF Vectors
  <2>2. [v \in 0 .. 40 |-> {}] \in Gates /\ 1 \in 1 .. Len(Vectors) + 1
    BY <2>1 DEF Gates
  <2> QED
    BY <2>2 DEF Init, Idt
<1>2. alloc \in Alloc /\ Len(alloc.zones) <= MAX_ZONE_COUNT
  <2>1. <<>> \in Seq(Zone) /\ Len(<<>>) = 0
    OBVIOUS
  <2> QED
    BY <2>1, ZonesAssumption DEF Init, Alloc
<1>3. tmr \in Timer
  BY BootAssumption DEF Init, Timer
<1>4. mb \in [Wanted \cup {"iter"} -> Nat]
  BY DEF Init, NULL
<1>5. early.curr \in Nat /\ cpu.star \in Nat /\ cpu.tr \in Nat
  BY DEF Init, NoTables
<1>6. sdt \in Nat /\ madt \in [entry : Nat, ioapic : Nat]
  BY DEF Init, NULL
<1>7. InputOK
  BY DEF Init, InputOK
<1> QED
  BY <1>1, <1>2, <1>3, <1>4, <1>5, <1>6, <1>7 DEF Init, TypeOK

\* Types and inputs together.
LEMMA Typed == Spec => [](TypeOK /\ InputOK)
<1>1. TypeOK /\ InputOK /\ [Next]_vars => (TypeOK /\ InputOK)'
  BY TypeStep, InputStep
<1> QED
  BY <1>1, InitType, PTL DEF Spec

\* Every variable of kmain keeps its type, whatever the boot loader and the
\* firmware hand over: in particular no zone has a negative size.
THEOREM BootTypes == Spec => []TypeOK
  BY Typed, PTL

-----------------------------------------------------------------------------
(* early_setup_paging. *)

\* Page k is reached through the early tables.
Mapped(k) ==
    LET d == k \div PDES IN
    /\ d \in DOMAIN early.pdpt /\ early.pdpt[d] = d
    /\ <<d, k % PDES>> \in DOMAIN early.pgdirs /\ early.pgdirs[<<d, k % PDES>>] = k

\* Every page below the next one is mapped, and the root is set at the end.
EarlyOK ==
    pc = "early" =>
        /\ \A k \in Nat : k < early.curr => Mapped(k)
        /\ early.curr > 0 => early.pml4 = Pml4Entry(early.curr)
        /\ input \in KernelPages

\* The directory is entered for the address behind the page.  In the last
\* page of a directory that is the next one, but then the page before has
\* entered this one.
LEMMA EarlyStep ==
    ASSUME TypeOK, EarlyOK, EarlyMap, NEW k \in Nat, k < early'.curr
    PROVE  Mapped(k)'
<1>1. PICK D \in Nat \ {0, 1} : D = PDES
  BY BootAssumption
<1>2. PICK c \in Nat : c = early.curr /\ early'.curr = c + 1
  BY DEF EarlyMap, TypeOK
<1>3. pc = "early" /\ early' = [curr |-> c + 1, pml4 |-> Pml4Entry(c + 1),
                                pdpt |-> Put(early.pdpt, (c + 1) \div D, c \div D),
                                pgdirs |-> Put(early.pgdirs, <<c \div D, c % D>>, c)]
  BY <1>1, <1>2 DEF EarlyMap
<1>4. \A j \in Nat : j < c => Mapped(j)
  BY <1>2, <1>3 DEF EarlyOK
<1>5. PICK q \in Nat : q = c \div D /\ D * q <= c /\ c < D * q + D /\ c % D = c - D * q
  BY Euclid
<1>6. PICK n \in Nat : n = (c + 1) \div D /\ D * n <= c + 1 /\ c + 1 < D * n + D
  <2>1. c + 1 \in Nat
    OBVIOUS
  <2> QED
    BY <2>1, Euclid
<1>7. PICK d \in Nat : d = k \div D /\ D * d <= k /\ k < D * d + D /\ k % D = k - D * d
  BY Euclid
<1>8. D * q \in Nat /\ D * n \in Nat /\ D * d \in Nat
  OBVIOUS
<1>9. d \in DOMAIN early'.pdpt /\ early'.pdpt[d] = d
  <2>1. early'.pdpt = Put(early.pdpt, n, q)
    BY <1>3, <1>5, <1>6
  <2>2. CASE d = n
    <3>1. d <= q
      <4> SUFFICES ASSUME q < d PROVE FALSE
        OBVIOUS
      <4>1. D * q + D <= D * d
        BY Products
      <4> QED
        BY <1>2, <1>5, <1>7, <1>8, <4>1
    <3>2. q <= n
      <4> SUFFICES ASSUME n < q PROVE FALSE
        OBVIOUS
      <4>1. D * n + D <= D * q
        BY Products
      <4> QED
        BY <1>5, <1>6, <1>8, <4>1
    <3>3. d = q
      BY <2>2, <3>1, <3>2
    <3> QED
      BY <2>1, <2>2, <3>3 DEF Put
  <2>3. CASE d # n
    <3>1. \E j \in Nat : j < c /\ j \div D = d
      <4>1. CASE k < c
        BY <1>7, <4>1
      <4>2. CASE k = c
        <5>1. d = q
          BY <1>5, <1>7, <4>2
        <5>2. c + 1 = D * q + D
          <6>1. CASE c + 1 < D * q + D
            <7>1. (c + 1) \div D = q
              <8>1. PICK x \in Nat : x = c + 1 /\ D * q <= x /\ x < D * q + D
                BY <1>5, <1>8, <6>1
              <8>2. x \div D = q
                BY <8>1, Quotients
              <8> QED
                BY <8>1, <8>2
            <7> QED
              BY <1>6, <2>3, <5>1, <7>1
          <6> QED
            BY <1>5, <1>8, <6>1
        <5>3. PICK j \in Nat : j = c - 1 /\ D * q <= j /\ j < D * q + D
          BY <1>8, <5>2
        <5>4. j \div D = q
          BY <5>3, Quotients
        <5> QED
          BY <5>1, <5>3, <5>4
      <4> QED
        BY <1>2, <4>1, <4>2
    <3>2. d \in DOMAIN early.pdpt /\ early.pdpt[d] = d
      BY <1>1, <1>4, <3>1 DEF Mapped
    <3> QED
      BY <2>1, <2>3, <3>2 DEF Put
  <2> QED
    BY <2>2, <2>3
<1>10. <<d, k % D>> \in DOMAIN early'.pgdirs /\ early'.pgdirs[<<d, k % D>>] = k
  <2>1. early'.pgdirs = Put(early.pgdirs, <<q, c % D>>, c)
    BY <1>3, <1>5
  <2>2. CASE k = c
    BY <1>5, <1>7, <2>1, <2>2 DEF Put
  <2>3. CASE k # c
    <3>1. <<d, k % D>> # <<q, c % D>>
      <4> SUFFICES ASSUME d = q, k % D = c % D PROVE FALSE
        OBVIOUS
      <4>1. k - D * d = c - D * d
        BY <1>5, <1>7
      <4> QED
        BY <1>8, <2>3, <4>1
    <3>2. k < c
      BY <1>2, <2>3
    <3>3. <<d, k % D>> \in DOMAIN early.pgdirs /\ early.pgdirs[<<d, k % D>>] = k
      BY <1>1, <1>4, <1>7, <3>2 DEF Mapped
    <3> QED
      BY <2>1, <3>1, <3>3 DEF Put
  <2> QED
    BY <2>2, <2>3
<1> QED
  BY <1>1, <1>7, <1>9, <1>10 DEF Mapped

\* Nothing else writes the early tables while early_setup_paging runs.
LEMMA EarlyOthers ==
    [Next]_vars => EarlyMap \/ UNCHANGED <<pc, early, input>> \/ pc' # "early"
<1> SUFFICES ASSUME [Next]_vars, ~EarlyMap, pc' = "early" PROVE UNCHANGED <<pc, early, input>>
  OBVIOUS
<1> USE DEF Goto, panic
<1>1. CASE ArchInit \/ IdtEntry \/ Lidt \/ ParseTag \/ ParseEnd \/ FbInit \/ ConsInit
  BY <1>1 DEF ArchInit, IdtEntry, Lidt, ParseTag, ParseEnd, FbInit, ConsInit
<1>2. CASE AcpiInit \/ LookupNext \/ LookupFound \/ LookupNone \/ MadtStart \/ MadtEntry \/ ApicEnable
  BY <1>2 DEF AcpiInit, LookupNext, LookupFound, LookupNone, MadtStart, MadtEntry, ApicEnable
<1>3. CASE TimerStart \/ TimerPolled \/ TimerArm \/ BusTick \/ PitFire
  BY <1>3 DEF TimerStart, TimerPolled, TimerArm, BusTick, PitFire
<1>4. CASE DumpMemmap \/ SkipEntry \/ ZoneAdd \/ FramesDone \/ SchedStart
  BY <1>4 DEF DumpMemmap, SkipEntry, ZoneAdd, FramesDone, SchedStart
<1>5. CASE UNCHANGED vars
  BY <1>5 DEF vars
<1> QED
  BY <1>1, <1>2, <1>3, <1>4, <1>5 DEF Next, Kmain, Stopped

\* Once early_setup_paging has ended, walking the tables translates every page of
\* the kernel to itself, for directories of any size above one, if and only if
\* the kernel does not fill the last of its directories: also when it ends in the
\* last page of another one, whose own entry is written by the page before.
THEOREM BootKernelReachable == Spec => []KernelReachable
<1>1. Init => EarlyOK
  <2> SUFFICES ASSUME Init
               PROVE  early.curr = 0 /\ input \in KernelPages
    BY DEF EarlyOK
  <2> QED
    BY DEF Init, NoTables
<1>2. TypeOK /\ EarlyOK /\ [Next]_vars => EarlyOK'
  <2> SUFFICES ASSUME TypeOK, EarlyOK, [Next]_vars PROVE EarlyOK'
    OBVIOUS
  <2>1. CASE EarlyMap
    <3>1. early'.pml4 = Pml4Entry(early'.curr) /\ input' = input /\ pc = "early"
      BY <2>1 DEF EarlyMap
    <3>2. Pml4Entry(early'.curr) = Pml4Entry(early.curr)'
      BY <3>1 DEF Pml4Entry
    <3> QED
      BY <2>1, <3>1, <3>2, EarlyStep DEF EarlyOK
  <2>2. CASE UNCHANGED <<pc, early, input>>
    BY <2>2 DEF EarlyOK, Mapped, Pml4Entry
  <2>3. CASE pc' # "early"
    BY <2>3 DEF EarlyOK
  <2> QED
    BY <2>1, <2>2, <2>3, EarlyOthers
<1>3. TypeOK /\ EarlyOK => KernelReachable
  <2> SUFFICES ASSUME TypeOK, EarlyOK, pc = "early", early.curr = input
               PROVE  (\A k \in 0 .. input - 1 : Reachable(k))
                          <=> input < KERNEL_SECTIONS_SIZE_IN_GB * PDES
    BY DEF KernelReachable
  <2>1. PICK D \in Nat \ {0}, n \in Nat \ {0} :
            D = KERNEL_SECTIONS_SIZE_IN_GB * PDES /\ n = input /\ n <= D
    <3>1. PICK g \in Nat \ {0}, p \in Nat \ {0} : g = KERNEL_SECTIONS_SIZE_IN_GB /\ p = PDES
      BY BootAssumption
    <3>2. g * p \in Nat \ {0}
      BY SMT
    <3>3. input \in 1 .. g * p
      BY <3>1, BootAssumption DEF EarlyOK
    <3> QED
      BY <3>1, <3>2, <3>3
  <2>2. early.pml4 = {n \div D}
    BY <2>1 DEF EarlyOK, Pml4Entry
  <2>3. n < D <=> n \div D = 0
    <3>1. n < D => n \div D = 0
      BY <2>1
    <3>2. n = D => n \div D = 1
      BY <2>1
    <3> QED
      BY <2>1, <3>1, <3>2
  <2>4. ASSUME n < D, NEW k \in 0 .. input - 1 PROVE Reachable(k)
    <3>1. Mapped(k)
      BY <2>1 DEF EarlyOK
    <3> QED
      BY <2>2, <2>3, <2>4, <3>1 DEF Mapped, Reachable
  <2>5. ASSUME \A k \in 0 .. input - 1 : Reachable(k) PROVE n < D
    <3>1. 0 \in 0 .. input - 1
      BY <2>1
    <3>2. 0 \in early.pml4
      BY <2>5, <3>1 DEF Reachable
    <3> QED
      BY <2>2, <2>3, <3>2
  <2> QED
    BY <2>1, <2>4, <2>5
<1> QED
  BY <1>1, <1>2, <1>3, BootTypes, PTL DEF Spec

-----------------------------------------------------------------------------
(* acpi_lookup. *)

\* While acpi_lookup searches, no table before the current one is a MADT.
LookupOK == pc = "lookup" => \A i \in 1 .. sdt - 1 : ~IsMadt(i)

\* Nothing else moves acpi_lookup's index.
LEMMA LookupOthers ==
    [Next]_vars => \/ AcpiInit \/ LookupNext \/ LookupFound
                   \/ UNCHANGED <<pc, sdt, input>>
                   \/ pc' \notin {"lookup", "found"}
<1> SUFFICES ASSUME [Next]_vars, ~AcpiInit, ~LookupNext, ~LookupFound, pc' \in {"lookup", "found"}
             PROVE  UNCHANGED <<pc, sdt, input>>
  OBVIOUS
<1> USE DEF Goto, panic
<1>1. CASE EarlyMap \/ ArchInit \/ IdtEntry \/ Lidt \/ ParseTag \/ ParseEnd \/ FbInit \/ ConsInit
  BY <1>1 DEF EarlyMap, ArchInit, IdtEntry, Lidt, ParseTag, ParseEnd, FbInit, ConsInit
<1>2. CASE LookupNone \/ MadtStart \/ MadtEntry \/ ApicEnable
  BY <1>2 DEF LookupNone, MadtStart, MadtEntry, ApicEnable
<1>3. CASE TimerStart \/ TimerPolled \/ TimerArm \/ BusTick \/ PitFire
  BY <1>3 DEF TimerStart, TimerPolled, TimerArm, BusTick, PitFire
<1>4. CASE DumpMemmap \/ SkipEntry \/ ZoneAdd \/ FramesDone \/ SchedStart
  BY <1>4 DEF DumpMemmap, SkipEntry, ZoneAdd, FramesDone, SchedStart
<1>5. CASE UNCHANGED vars
  BY <1>5 DEF vars
<1> QED
  BY <1>1, <1>2, <1>3, <1>4, <1>5 DEF Next, Kmain, Stopped

\* The MADT that apic_init walks is the first one the RSDT or XSDT lists, and
\* its checksum is right, for tables of any length.
THEOREM BootLookupFirst == Spec => []LookupFirst
<1> DEFINE Inv == LookupOK /\ LookupFirst
<1>1. Init => Inv
  BY DEF Init, LookupOK, LookupFirst
<1>2. TypeOK /\ Inv /\ [Next]_vars => Inv'
  <2> SUFFICES ASSUME TypeOK, LookupOK, LookupFirst, [Next]_vars PROVE Inv'
    OBVIOUS
  <2>1. CASE AcpiInit
    <3>1. pc' # "found" /\ (pc' = "lookup" => sdt' = 1)
      BY <2>1 DEF AcpiInit, Goto, panic
    <3> QED
      BY <3>1 DEF LookupOK, LookupFirst
  <2>2. CASE LookupNext
    <3>1. pc' = "lookup" /\ pc = "lookup" /\ input' = input /\ ~IsMadt(sdt) /\ sdt' = sdt + 1
      BY <2>2 DEF LookupNext
    <3>2. \A i \in 1 .. sdt' - 1 : i = sdt \/ i \in 1 .. sdt - 1
      BY <3>1 DEF TypeOK
    <3>3. \A i \in 1 .. sdt' - 1 : ~IsMadt(i)
      BY <3>1, <3>2 DEF LookupOK
    <3>4. \A i : ~IsMadt(i) => ~IsMadt(i)'
      BY <3>1 DEF IsMadt
    <3>5. \A i \in 1 .. sdt' - 1 : ~IsMadt(i)'
      BY <3>3, <3>4
    <3> QED
      BY <3>1, <3>5 DEF LookupOK, LookupFirst
  <2>3. CASE LookupFound
    BY <2>3 DEF LookupFound, LookupOK, LookupFirst, IsMadt, Goto, panic
  <2>4. CASE UNCHANGED <<pc, sdt, input>>
    BY <2>4 DEF LookupOK, LookupFirst, IsMadt
  <2>5. CASE pc' \notin {"lookup", "found"}
    BY <2>5 DEF LookupOK, LookupFirst
  <2> QED
    BY <2>1, <2>2, <2>3, <2>4, <2>5, LookupOthers
<1> QED
  BY <1>1, <1>2, BootTypes, PTL DEF Spec

-----------------------------------------------------------------------------
(* What has been set up by the time interrupts are enabled. *)

\* The selectors that sysret and ltr use name the descriptors they need.
GdtOK ==
    /\ cpu.gdt[cpu.star + 1] = "udata" /\ cpu.gdt[cpu.star + 2] = "ucode"
    /\ cpu.gdt[cpu.tr] = "tss"

\* Every gate written so far is whole.
GatesOK == \A i \in 1 .. Len(Vectors) : i < idt.vec => idt.gates[Vectors[i]] = {0, 1, 2}

\* What each phase of kmain leaves behind for the later ones.
ReadyOK ==
    /\ irq_on => pc = "running"
    /\ pc \notin {"early", "panic"} => GdtOK
    /\ GatesOK
    /\ pc \notin {"early", "idt", "panic"} => idt.lidt /\ idt.vec > Len(Vectors)
    /\ pc \in {"timer", "poll", "arm", "dump", "frames", "sched", "running"} => madt.ioapic # NULL
    /\ pc \in {"dump", "frames", "sched", "running"} => tmr.lvt = "periodic"
    /\ pc = "running" => alloc.pgcnt > 0

\* irq_init fills in the gates from the first to the last, so the dword that
\* IDT_ENTRY clears belongs to a gate that has not been written yet.
LEMMA GateStep ==
    ASSUME TypeOK, GatesOK, IdtEntry
    PROVE  GatesOK'
<1>1. Len(Vectors) = 10
  BY DEF Vectors
<1>2. PICK n \in 1 .. 10 : n = idt.vec /\ idt'.vec = n + 1
  BY <1>1, SMTT(30) DEF IdtEntry, TypeOK, Idt
<1>3. PICK g \in Gates : g = idt.gates
  BY DEF TypeOK, Idt
<1>4. PICK v \in 0 .. 39 : v = Vectors[n]
  BY DEF Vectors
<1>5. idt'.gates = [g EXCEPT ![v] = {0, 1, 2}, ![v + 1] = g[v + 1] \ {0}]
  BY <1>2, <1>3, <1>4 DEF IdtEntry, IDT_ENTRY
<1> SUFFICES ASSUME NEW i \in 1 .. 10, i < n + 1 PROVE idt'.gates[Vectors[i]] = {0, 1, 2}
  BY <1>1, <1>2 DEF GatesOK
<1>6. PICK u \in 0 .. 39 : u = Vectors[i]
  BY DEF Vectors
<1>7. CASE i = n
  BY <1>3, <1>4, <1>5, <1>6, <1>7 DEF Gates
<1>8. CASE i < n
  <2>1. u < v
    BY <1>4, <1>6, <1>8 DEF Vectors
  <2>2. g[u] = {0, 1, 2}
    BY <1>1, <1>2, <1>3, <1>6, <1>8 DEF GatesOK
  <2> QED
    BY <1>3, <1>5, <1>6, <2>1, <2>2 DEF Gates
<1> QED
  BY <1>7, <1>8

\* Each phase keeps what the earlier ones left behind.
LEMMA ReadyStep == TypeOK /\ ReadyOK /\ [Next]_vars => ReadyOK'
<1> SUFFICES ASSUME TypeOK, ReadyOK, [Next]_vars PROVE ReadyOK'
  OBVIOUS
<1>a. (UNCHANGED cpu => GdtOK' = GdtOK) /\ (UNCHANGED idt => GatesOK' = GatesOK)
  BY DEF GdtOK, GatesOK
<1> USE DEF ReadyOK, Goto, panic
<1>1. CASE EarlyMap
  BY <1>1, <1>a DEF EarlyMap
<1>2. CASE ArchInit
  <2>1. GdtOK' \/ pc' = "panic"
    BY <1>2 DEF ArchInit, GdtOK, UDATA
  <2> QED
    BY <1>2, <1>a, <2>1 DEF ArchInit
<1>3. CASE IdtEntry
  <2>1. GatesOK'
    BY <1>3, GateStep
  <2> QED
    BY <1>3, <1>a, <2>1 DEF IdtEntry
<1>4. CASE Lidt
  <2>1. GatesOK'
    BY <1>4 DEF Lidt, GatesOK
  <2> QED
    BY <1>4, <1>a, <2>1 DEF Lidt
<1>5. CASE ParseTag
  BY <1>5, <1>a DEF ParseTag
<1>6. CASE ParseEnd
  BY <1>6, <1>a DEF ParseEnd
<1>7. CASE FbInit
  BY <1>7, <1>a DEF FbInit
<1>8. CASE ConsInit
  BY <1>8, <1>a DEF ConsInit
<1>9. CASE AcpiInit
  BY <1>9, <1>a DEF AcpiInit
<1>10. CASE LookupNext
  BY <1>10, <1>a DEF LookupNext
<1>11. CASE LookupFound
  BY <1>11, <1>a DEF LookupFound
<1>12. CASE LookupNone
  BY <1>12, <1>a DEF LookupNone
<1>13. CASE MadtStart
  BY <1>13, <1>a DEF MadtStart
<1>14. CASE MadtEntry
  <2>1. pc = "madt" /\ UNCHANGED <<pc, cpu, idt, tmr, alloc, irq_on>>
    BY <1>14 DEF MadtEntry
  <2> QED
    BY <1>a, <2>1
<1>15. CASE ApicEnable
  BY <1>15, <1>a DEF ApicEnable
<1>16. CASE TimerStart
  BY <1>16, <1>a DEF TimerStart
<1>17. CASE TimerPolled
  BY <1>17, <1>a DEF TimerPolled
<1>18. CASE TimerArm
  <2>1. tmr'.lvt = "periodic"
    BY <1>18 DEF TimerArm
  <2>2. pc = "arm" /\ pc' = "dump" /\ UNCHANGED <<cpu, idt, madt, alloc, irq_on>>
    BY <1>18 DEF TimerArm
  <2> QED
    BY <1>a, <2>1, <2>2
<1>19. CASE DumpMemmap
  BY <1>19, <1>a DEF DumpMemmap
<1>20. CASE SkipEntry
  BY <1>20, <1>a DEF SkipEntry
<1>21. CASE ZoneAdd
  <2>1. pc = "frames" /\ pc' \in {"frames", "panic"} /\ UNCHANGED <<cpu, idt, madt, tmr, irq_on>>
    BY <1>21 DEF ZoneAdd
  <2> QED
    BY <1>a, <2>1
<1>22. CASE FramesDone
  BY <1>22, <1>a DEF FramesDone
<1>23. CASE SchedStart
  <2>1. alloc.pgcnt \in Nat
    BY DEF TypeOK, Alloc
  <2> QED
    BY <1>23, <1>a, <2>1 DEF SchedStart
<1>24. CASE BusTick
  <2>1. tmr' = [tmr EXCEPT !.elapsed = tmr.elapsed + 1]
        /\ UNCHANGED <<pc, cpu, idt, madt, alloc, irq_on>>
    BY <1>24 DEF BusTick
  <2>2. tmr'.lvt = tmr.lvt
    BY <2>1 DEF TypeOK, Timer
  <2> QED
    BY <1>a, <2>1, <2>2
<1>25. CASE PitFire
  <2>1. UNCHANGED <<pc, cpu, idt, madt, alloc, irq_on>>
    BY <1>25 DEF PitFire
  <2>2. tmr'.lvt = tmr.lvt
    BY <1>25 DEF PitFire, TypeOK, Timer
  <2> QED
    BY <1>a, <2>1, <2>2
<1>26. CASE UNCHANGED vars
  BY <1>26, <1>a DEF vars
<1> QED
  BY <1>1, <1>2, <1>3, <1>4, <1>5, <1>6, <1>7, <1>8, <1>9, <1>10, <1>11, <1>12, <1>13,
     <1>14, <1>15, <1>16, <1>17, <1>18, <1>19, <1>20, <1>21, <1>22, <1>23, <1>24, <1>25, <1>26
  DEF Next, Kmain, Stopped

\* When sched_start enables interrupts every gate of irq_init is whole in
\* spite of the dword IDT_ENTRY clears, the descriptors are where sysret and
\* ltr look for them, an I/O APIC was found, the timer is periodic and there are
\* frames: on every path of kmain that gets there.
THEOREM BootIrqReady == Spec => []IrqReady
<1>1. Init => ReadyOK
  <2> SUFFICES ASSUME Init PROVE ReadyOK
    OBVIOUS
  <2>1. GatesOK
    BY DEF Init, GatesOK, Vectors
  <2> QED
    BY <2>1 DEF Init, ReadyOK
<1>2. TypeOK /\ ReadyOK => IrqReady
  <2> SUFFICES ASSUME TypeOK, ReadyOK, irq_on PROVE IrqReady
    BY DEF IrqReady
  <2>1. pc = "running"
    BY DEF ReadyOK
  <2>2. DOMAIN Vectors = 1 .. Len(Vectors) /\ Len(Vectors) = 10
    BY DEF Vectors
  <2>3. idt.lidt /\ idt.vec > Len(Vectors) /\ idt.vec \in Nat
    BY <2>1, <2>2 DEF ReadyOK, TypeOK, Idt
  <2>4. \A k \in DOMAIN Vectors : idt.gates[Vectors[k]] = {0, 1, 2}
    <3> SUFFICES ASSUME NEW k \in 1 .. 10 PROVE idt.gates[Vectors[k]] = {0, 1, 2}
      BY <2>2
    <3>1. k < idt.vec
      BY <2>2, <2>3
    <3> QED
      BY <2>2, <3>1 DEF ReadyOK, GatesOK
  <2> QED
    BY <2>1, <2>3, <2>4 DEF IrqReady, ReadyOK, GdtOK
<1> QED
  BY <1>1, <1>2, ReadyStep, BootTypes, PTL DEF Spec

-----------------------------------------------------------------------------
(* mb_parse_boot_info. *)

\* The offsets of the tags.
TagAt == Offsets(input, MbHeader, MB_TAG_ALIGNMENT)

\* Off is the offset of the last tag of type t before the k-th, NULL if there
\* is none.
IsLast(t, k, off) ==
    \/ off = NULL /\ \A i \in 1 .. Len(input) : i < k => input[i].type # t
    \/ \E i \in 1 .. Len(input) :
          /\ i < k /\ input[i].type = t /\ off = TagAt[i]
          /\ \A j \in 1 .. Len(input) : i < j /\ j < k => input[j].type # t

\* The parser stands at tag k and has taken note of the ones before it.
ParsedUpTo(k) ==
    /\ k \in 1 .. Len(input) + 1 /\ mb.iter = TagAt[k]
    /\ \A t \in Wanted : IsLast(t, k, mb[t])

\* Before, during and after the walk.
ParseInv ==
    /\ pc \in {"early", "idt"} => \A t \in Wanted : mb[t] = NULL
    /\ pc = "parse" => \E k \in Nat : ParsedUpTo(k)
    /\ pc = "fb" => \A t \in Wanted : IsLast(t, Len(input) + 1, mb[t])

\* The parser begins at the first tag with nothing found.
LEMMA ParseBegin ==
    ASSUME TypeOK, ParseInv, Lidt
    PROVE  ParsedUpTo(1)'
<1>1. input' \in Infos /\ pc = "idt" /\ mb' = [mb EXCEPT !.iter = MbHeader]
  BY DEF Lidt
<1>2. input' \in Seq(Record)
  BY <1>1, BootAssumption DEF Record
<1>3. Offsets(input', MbHeader, MB_TAG_ALIGNMENT)[1] = MbHeader
  <2>1. MbHeader \in Nat /\ MB_TAG_ALIGNMENT \in Nat \ {0}
    BY DEF MbHeader, MB_TAG_ALIGNMENT
  <2> QED
    BY <1>2, <2>1, OffsetsDef
<1>4. mb'["iter"] = MbHeader /\ \A t \in Wanted : mb'[t] = NULL
  BY <1>1 DEF TypeOK, Wanted, ParseInv
<1>5. mb'.iter = TagAt'[1]
  BY <1>3, <1>4 DEF TagAt
<1>6. 1 \in 1 .. Len(input') + 1
  BY <1>2
<1>7. ASSUME NEW t \in Wanted PROVE IsLast(t, 1, mb[t])'
  <2>1. \A i \in 1 .. Len(input') : ~(i < 1)
    BY <1>2
  <2> QED
    BY <1>4, <2>1 DEF IsLast
<1> QED
  BY <1>5, <1>6, <1>7 DEF ParsedUpTo

\* Two tags do not begin at the same offset: where the parser stands is known
\* from iter.
LEMMA OneTag ==
    ASSUME input \in Infos, NEW j \in Nat, ParsedUpTo(j), NEW k \in TagsAtIter
    PROVE  j = k /\ k \in 1 .. Len(input) + 1
<1>1. input \in Seq(Record) /\ \A i \in DOMAIN input : input[i].size >= 1
  <2>1. input \in Seq(Record) /\ \A i \in DOMAIN input : input[i].size >= 8
    BY BootAssumption DEF Record
  <2>2. \A i \in DOMAIN input : input[i] \in Record
    BY <2>1
  <2>3. \A i \in DOMAIN input : input[i].size \in Nat
    BY <2>2 DEF Record
  <2> QED
    BY <2>1, <2>3
<1>2. MbHeader \in Nat /\ MB_TAG_ALIGNMENT \in Nat \ {0}
  BY DEF MbHeader, MB_TAG_ALIGNMENT
<1>3. /\ k \in 1 .. Len(input) + 1 /\ TagAt[k] = mb.iter
      /\ j \in 1 .. Len(input) + 1 /\ TagAt[j] = mb.iter
  BY DEF TagsAtIter, RecordAt, TagAt, ParsedUpTo
<1>4. TagAt \in [1 .. Len(input) + 1 -> Nat]
  BY <1>1, <1>2, OffsetsDef DEF TagAt
<1>5. \A a, b \in 1 .. Len(input) + 1 : a < b => TagAt[a] < TagAt[b]
  BY <1>1, <1>2, OffsetsApart DEF TagAt
<1>6. ~(j < k) /\ ~(k < j)
  BY <1>3, <1>4, <1>5
<1> QED
  BY <1>3, <1>6

\* One round of the loop.
LEMMA ParseRound ==
    ASSUME TypeOK, input \in Infos, NEW k \in Nat, ParsedUpTo(k), ParseTag
    PROVE  ParsedUpTo(k + 1)'
<1>1. PICK i \in TagsAtIter \ {Len(input) + 1} :
         mb' = [f \in Wanted \cup {"iter"} |->
                   IF f = "iter" THEN NextTag(mb.iter, input[i].size)
                   ELSE IF f = input[i].type THEN mb.iter ELSE mb[f]]
  BY DEF ParseTag
<1>2. i = k /\ k \in 1 .. Len(input) + 1 /\ k # Len(input) + 1
  BY <1>1, OneTag
<1>3. input' = input /\ input \in Seq(Record) /\ TagAt' = TagAt /\ Len(input) \in Nat
  BY BootAssumption DEF ParseTag, Record, TagAt
<1>4. k \in 1 .. Len(input) /\ k + 1 \in 1 .. Len(input) + 1
  BY <1>2, <1>3
<1>5. mb.iter = TagAt[k]
  BY DEF ParsedUpTo
<1>6. mb'.iter = TagAt[k + 1]
  <2>1. MbHeader \in Nat /\ MB_TAG_ALIGNMENT \in Nat \ {0}
    BY DEF MbHeader, MB_TAG_ALIGNMENT
  <2>2. TagAt[k + 1] = ROUNDUP(TagAt[k] + input[k].size, MB_TAG_ALIGNMENT)
    <3>1. \A n \in 1 .. Len(input) :
             TagAt[n + 1] = ROUNDUP(TagAt[n] + input[n].size, MB_TAG_ALIGNMENT)
      BY <1>3, <2>1, OffsetsDef, ZenonT(30) DEF TagAt
    <3> QED
      BY <1>4, <3>1
  <2>3. mb'.iter = NextTag(mb.iter, input[k].size)
    BY <1>1, <1>2
  <2> QED
    BY <1>5, <2>2, <2>3, Zenon DEF NextTag
<1>7. ASSUME NEW t \in Wanted PROVE IsLast(t, k + 1, mb[t])'
  <2>0. t # "iter"
    BY DEF Wanted
  <2>1. CASE input[k].type = t
    <3>1. mb'[t] = TagAt'[k]
      BY <1>1, <1>2, <1>3, <1>5, <2>0, <2>1
    <3>2. \A j \in 1 .. Len(input) : ~(k < j /\ j < k + 1)
      BY <1>3
    <3>3. k < k + 1
      OBVIOUS
    <3> QED
      BY <1>3, <1>4, <2>1, <3>1, <3>2, <3>3 DEF IsLast
  <2>2. CASE input[k].type # t
    <3>1. mb'[t] = mb[t]
      BY <1>1, <1>2, <2>0, <2>2
    <3>2. IsLast(t, k, mb[t])
      BY DEF ParsedUpTo
    <3>3. \A j \in 1 .. Len(input) : j < k + 1 => j < k \/ j = k
      BY <1>3
    <3>4. CASE mb[t] = NULL /\ \A j \in 1 .. Len(input) : j < k => input[j].type # t
      BY <1>3, <2>2, <3>1, <3>3, <3>4 DEF IsLast
    <3>5. ASSUME NEW n \in 1 .. Len(input), n < k, input[n].type = t, mb[t] = TagAt[n],
                 \A j \in 1 .. Len(input) : n < j /\ j < k => input[j].type # t
          PROVE  IsLast(t, k + 1, mb[t])'
      <4>1. n < k + 1
        BY <3>5
      <4>2. \A j \in 1 .. Len(input) : n < j /\ j < k + 1 => input[j].type # t
        BY <2>2, <3>3, <3>5
      <4> QED
        BY <1>3, <3>1, <3>5, <4>1, <4>2 DEF IsLast
    <3> QED
      BY <3>2, <3>4, <3>5 DEF IsLast
  <2> QED
    BY <2>1, <2>2
<1> QED
  BY <1>3, <1>4, <1>6, <1>7 DEF ParsedUpTo

\* Nothing else moves the parser or writes its pointers while it runs.
LEMMA ParseOthers ==
    [Next]_vars => \/ Lidt \/ ParseTag \/ ParseEnd
                   \/ UNCHANGED mb /\ pc' \in {"early", "idt"} /\ pc \in {"early", "idt"}
                   \/ UNCHANGED <<pc, mb, input>>
                   \/ pc' \notin {"early", "idt", "parse", "fb"}
<1> SUFFICES ASSUME [Next]_vars, ~Lidt, ~ParseTag, ~ParseEnd,
                    pc' \in {"early", "idt", "parse", "fb"}
             PROVE  \/ UNCHANGED mb /\ pc' \in {"early", "idt"} /\ pc \in {"early", "idt"}
                    \/ UNCHANGED <<pc, mb, input>>
  OBVIOUS
<1> USE DEF Goto, panic
<1>1. CASE EarlyMap \/ ArchInit \/ IdtEntry \/ FbInit \/ ConsInit
  BY <1>1 DEF EarlyMap, ArchInit, IdtEntry, FbInit, ConsInit
<1>2. CASE AcpiInit \/ LookupNext \/ LookupFound \/ LookupNone \/ MadtStart \/ MadtEntry \/ ApicEnable
  BY <1>2 DEF AcpiInit, LookupNext, LookupFound, LookupNone, MadtStart, MadtEntry, ApicEnable
<1>3. CASE TimerStart \/ TimerPolled \/ TimerArm \/ BusTick \/ PitFire
  BY <1>3 DEF TimerStart, TimerPolled, TimerArm, BusTick, PitFire
<1>4. CASE DumpMemmap \/ SkipEntry \/ ZoneAdd \/ FramesDone \/ SchedStart
  BY <1>4 DEF DumpMemmap, SkipEntry, ZoneAdd, FramesDone, SchedStart
<1>5. CASE UNCHANGED vars
  BY <1>5 DEF vars
<1> QED
  BY <1>1, <1>2, <1>3, <1>4, <1>5 DEF Next, Kmain, Stopped

\* The walk is exact from one step to the next.
LEMMA ParseStep == TypeOK /\ InputOK /\ ParseInv /\ [Next]_vars => ParseInv'
<1> SUFFICES ASSUME TypeOK, InputOK, ParseInv, [Next]_vars PROVE ParseInv'
  OBVIOUS
<1>1. CASE Lidt
  <2>1. ParsedUpTo(1)' /\ pc' = "parse"
    BY <1>1, ParseBegin DEF Lidt, Goto
  <2> QED
    BY <2>1 DEF ParseInv
<1>2. CASE ParseTag
  <2>1. pc = "parse" /\ pc' = "parse" /\ input \in Infos
    BY <1>2 DEF ParseTag, InputOK
  <2>2. PICK k \in Nat : ParsedUpTo(k)
    BY <2>1 DEF ParseInv
  <2>3. ParsedUpTo(k + 1)'
    BY <1>2, <2>1, <2>2, ParseRound
  <2> QED
    BY <2>1, <2>3 DEF ParseInv
<1>3. CASE ParseEnd
  <2>1. pc = "parse" /\ pc' = "fb" /\ input \in Infos /\ UNCHANGED <<mb, input>>
    BY <1>3 DEF ParseEnd, InputOK, Goto
  <2>2. PICK k \in Nat : ParsedUpTo(k)
    BY <2>1 DEF ParseInv
  <2>3. k = Len(input) + 1
    BY <1>3, <2>1, <2>2, OneTag DEF ParseEnd
  <2>4. \A t \in Wanted : IsLast(t, Len(input) + 1, mb[t])
    BY <2>2, <2>3 DEF ParsedUpTo
  <2> QED
    BY <2>1, <2>4 DEF ParseInv, IsLast, TagAt
<1>4. CASE UNCHANGED mb /\ pc' \in {"early", "idt"} /\ pc \in {"early", "idt"}
  BY <1>4 DEF ParseInv
<1>5. CASE UNCHANGED <<pc, mb, input>>
  BY <1>5 DEF ParseInv, ParsedUpTo, IsLast, TagAt
<1>6. CASE pc' \notin {"early", "idt", "parse", "fb"}
  BY <1>6 DEF ParseInv
<1> QED
  BY <1>1, <1>2, <1>3, <1>4, <1>5, <1>6, ParseOthers

\* mb_parse_boot_info always looks at the start of a tag, and leaves in each
\* pointer the last tag of its type, for any number of tags of any sizes.
THEOREM BootParserExact == Spec => []ParserExact
<1>1. Init => ParseInv
  BY DEF Init, ParseInv, Wanted
<1>2. TypeOK /\ InputOK /\ ParseInv => ParserExact
  <2> SUFFICES ASSUME TypeOK, InputOK, ParseInv PROVE ParserExact
    OBVIOUS
  <2>1. ASSUME pc = "parse" PROVE TagsAtIter # {}
    <3>1. PICK k \in Nat : ParsedUpTo(k)
      BY <2>1 DEF ParseInv
    <3>2. k \in TagsAtIter
      BY <3>1 DEF ParsedUpTo, TagsAtIter, RecordAt, TagAt
    <3> QED
      BY <3>2
  <2>2. ASSUME pc = "fb", NEW t \in Wanted PROVE mb[t] = LastOfType(t)
    <3>1. input \in Seq(Record)
      BY <2>2, BootAssumption DEF InputOK, Record
    <3>2. DOMAIN input = 1 .. Len(input) /\ Len(input) \in Nat
      BY <3>1
    <3>3. \A i \in DOMAIN input : i < Len(input) + 1 /\ i \in Nat
      BY <3>2
    <3>4. IsLast(t, Len(input) + 1, mb[t])
      BY <2>2 DEF ParseInv
    <3> DEFINE ks == {k \in DOMAIN input : input[k].type = t}
    <3>5. CASE mb[t] = NULL /\ \A i \in 1 .. Len(input) : i < Len(input) + 1 => input[i].type # t
      <4>1. ks = {}
        BY <3>2, <3>3, <3>5
      <4> QED
        BY <3>5, <4>1 DEF LastOfType
    <3>6. ASSUME NEW i \in 1 .. Len(input), input[i].type = t, mb[t] = TagAt[i],
                 \A j \in 1 .. Len(input) : i < j /\ j < Len(input) + 1 => input[j].type # t
          PROVE  mb[t] = LastOfType(t)
      <4>1. i \in ks /\ \A j \in ks : j <= i
        BY <3>2, <3>3, <3>6
      <4>2. PICK c : c = CHOOSE k \in ks : \A j \in ks : j <= k
        OBVIOUS
      <4>3. c \in ks /\ \A j \in ks : j <= c
        BY <4>1, <4>2
      <4>4. c = i
        BY <3>3, <4>1, <4>3
      <4>5. LastOfType(t) = TagAt[c]
        BY <4>1, <4>2, Zenon DEF LastOfType, TagAt
      <4> QED
        BY <3>6, <4>4, <4>5
    <3> QED
      BY <3>4, <3>5, <3>6 DEF IsLast
  <2> QED
    BY <2>1, <2>2 DEF ParserExact
<1> QED
  BY <1>1, <1>2, ParseStep, Typed, PTL DEF Spec

-----------------------------------------------------------------------------
(* frame_alloc_init. *)

\* No two usable entries of the memory map overlap, in whatever order they come.
RegionsApart ==
    \A m \in MemMaps : \A i, j \in DOMAIN m :
        i # j /\ Usable(m[i]) /\ Usable(m[j]) =>
            m[i].base + m[i].length <= m[j].base \/ m[j].base + m[j].length <= m[i].base

\* The zone lies between the blocks where the entry begins and ends.
FromEntry(z, e) == Floor(e.base) <= z.start /\ z.end <= Floor(e.base + e.length)

\* One of the zones ends before the other begins.
Apart(y, z) == y.end <= z.start \/ z.end <= y.start

\* The zones are good and disjoint, and each comes from an entry already seen.
ZonesOK ==
    /\ pc \notin {"frames", "sched", "running", "panic"} => alloc.zones = <<>>
    /\ \A i \in DOMAIN alloc.zones : GoodZone(alloc.zones[i])
    /\ \A i, j \in DOMAIN alloc.zones : i # j => Apart(alloc.zones[i], alloc.zones[j])
    /\ pc = "frames" => \A i \in DOMAIN alloc.zones : \E n \in DOMAIN input :
           n < alloc.next /\ Usable(input[n]) /\ FromEntry(alloc.zones[i], input[n])

\* Rounding up to a page and then to a block keeps the order.
LEMMA FloorOrder ==
    ASSUME NEW a \in Nat, NEW b \in Nat, a <= b
    PROVE  Floor(a) \in Nat /\ Floor(b) \in Nat /\ Floor(a) <= Floor(b)
<1>1. PICK P \in Nat \ {0} : P = PAGE_SIZE
  BY BlockDef
<1>2. PICK B \in Nat \ {0} : B = Block
  BY BlockDef
<1>3. \A x \in Nat, n \in Nat \ {0} : ROUNDUP(x, n) \in Nat
  <2> SUFFICES ASSUME NEW x \in Nat, NEW n \in Nat \ {0} PROVE ROUNDUP(x, n) \in Nat
    OBVIOUS
  <2>1. PICK k \in Nat : ROUNDUP(x, n) = n * k
    BY RoundUp
  <2> QED
    BY <2>1
<1>4. PICK u \in Nat : u = ROUNDUP(a, P)
  BY <1>3
<1>5. PICK v \in Nat : v = ROUNDUP(b, P)
  BY <1>3
<1>6. u <= v
  BY <1>4, <1>5, RoundUpOrder
<1>7. ROUNDUP(u, B) <= ROUNDUP(v, B) /\ ROUNDUP(u, B) \in Nat /\ ROUNDUP(v, B) \in Nat
  BY <1>3, <1>6, RoundUpOrder
<1>8. Floor(a) = ROUNDUP(u, B) /\ Floor(b) = ROUNDUP(v, B)
  BY <1>1, <1>2, <1>4, <1>5, Zenon DEF Floor
<1> QED
  BY <1>7, <1>8

\* What zone_add makes of an entry that is not skipped.
LEMMA ZoneFrom ==
    ASSUME NEW e \in Entry, ~Skipped(e), NEW r, r = Region(e), NEW z, z = ZoneAt(r.base, r.pages)
    PROVE  GoodZone(z) /\ FromEntry(z, e) /\ Usable(e)
<1>1. r.base \in Nat /\ r.pages \in Nat
  BY RegionShape
<1>2. Usable(e) /\ ~(r.pages < W)
  BY DEF Skipped, W
<1>3. r.pages >= 1
  BY <1>1, <1>2, BlockDef
<1>4. r.base >= reserved_end
  BY <1>3, RegionShape
<1>5. GoodZone(z)
  BY <1>1, <1>4, ZoneGood
<1>6. e.base + e.length \in Nat /\ e.base + e.length <= e.base + e.length
  BY DEF Entry
<1>7. FromEntry(z, e)
  BY <1>3, <1>6, ZoneBetween DEF FromEntry
<1> QED
  BY <1>2, <1>5, <1>7

\* Zones of entries that do not overlap do not overlap either, although each
\* may reach past its own entry: both ends are rounded up in the same way.
LEMMA ZonesOfApart ==
    ASSUME NEW d \in Entry, NEW e \in Entry, NEW y, NEW z, GoodZone(y), GoodZone(z),
           FromEntry(y, d), FromEntry(z, e), d.base + d.length <= e.base
    PROVE  y.end <= z.start
<1>1. d.base + d.length \in Nat /\ e.base \in Nat
  BY DEF Entry
<1>2. PICK f, g \in Nat : f = Floor(d.base + d.length) /\ g = Floor(e.base) /\ f <= g
  BY <1>1, FloorOrder
<1>3. y.end <= f /\ g <= z.start
  BY <1>2 DEF FromEntry
<1>4. y.end \in Nat /\ z.start \in Nat
  BY DEF GoodZone, Zone
<1> QED
  BY <1>2, <1>3, <1>4

\* Adding a zone.
LEMMA ZoneAddStep ==
    ASSUME RegionsApart, TypeOK, InputOK, ZonesOK, ZoneAdd, pc' = "frames"
    PROVE  ZonesOK'
<1>1. input \in Seq(Entry) /\ input \in MemMaps /\ input' = input /\ pc = "frames"
  BY BootAssumption DEF ZoneAdd, InputOK, Entry
<1>2. PICK k \in 1 .. Len(input) : k = alloc.next
  BY <1>1 DEF ZoneAdd, TypeOK, Alloc
<1>3. PICK e \in Entry : e = input[k]
  BY <1>1
<1>4. PICK r : r = Region(e)
  OBVIOUS
<1>5. PICK z : z = ZoneAt(r.base, r.pages)
  OBVIOUS
<1>6. GoodZone(z) /\ FromEntry(z, e) /\ Usable(e)
  <2>1. ~Skipped(e)
    BY <1>2, <1>3 DEF ZoneAdd
  <2> QED
    BY <1>4, <1>5, <2>1, ZoneFrom
<1>7. PICK zs \in Seq(Zone) : zs = alloc.zones
  BY DEF TypeOK, Alloc
<1>8. alloc'.next = k + 1 /\ alloc'.zones = Append(zs, z)
  BY <1>1, <1>2, <1>3, <1>4, <1>5, <1>7 DEF ZoneAdd, panic
<1>9. PICK n \in Nat : n = Len(zs)
  OBVIOUS
<1>10. z \in Zone
  BY <1>6 DEF GoodZone
<1>11. PICK ys \in Seq(Zone) : ys = Append(zs, z)
  <2>1. Append(zs, z) \in Seq(Zone)
    BY <1>10
  <2> QED
    BY <2>1, Zenon
<1>12. /\ DOMAIN ys = 1 .. n + 1 /\ DOMAIN zs = 1 .. n
       /\ ys[n + 1] = z /\ \A i \in 1 .. n : ys[i] = zs[i]
  BY <1>9, <1>10, <1>11
<1>13. \A i \in 1 .. n : GoodZone(zs[i])
  BY <1>7, <1>12 DEF ZonesOK
<1>14. \A i \in 1 .. n : \E m \in DOMAIN input :
          m < k /\ Usable(input[m]) /\ FromEntry(zs[i], input[m])
  BY <1>1, <1>2, <1>7, <1>12 DEF ZonesOK
<1>15. ASSUME NEW i \in 1 .. n PROVE Apart(zs[i], z) /\ Apart(z, zs[i])
  <2>1. PICK m \in DOMAIN input : m < k /\ Usable(input[m]) /\ FromEntry(zs[i], input[m])
    BY <1>14
  <2>2. PICK d \in Entry : d = input[m]
    BY <1>1
  <2>3. m # k /\ k \in DOMAIN input
    BY <1>1, <2>1
  <2>4. d.base + d.length <= e.base \/ e.base + e.length <= d.base
    BY <1>1, <1>3, <1>6, <2>1, <2>2, <2>3 DEF RegionsApart
  <2>5. GoodZone(zs[i]) /\ FromEntry(zs[i], d)
    BY <1>13, <2>1, <2>2
  <2> QED
    BY <1>6, <2>4, <2>5, ZonesOfApart DEF Apart
<1>16. \A i \in 1 .. n + 1 : i \in 1 .. n \/ i = n + 1
  OBVIOUS
<1>17. \A i \in 1 .. n + 1 : GoodZone(ys[i])
  BY <1>6, <1>12, <1>13, <1>16
<1>18. \A i, j \in 1 .. n : i # j => Apart(zs[i], zs[j])
  BY <1>7, <1>12 DEF ZonesOK
<1>19. \A i, j \in 1 .. n + 1 : i # j => Apart(ys[i], ys[j])
  BY <1>12, <1>15, <1>16, <1>18
<1>20. ASSUME NEW i \in 1 .. n + 1
       PROVE  \E m \in DOMAIN input : m < k + 1 /\ Usable(input[m]) /\ FromEntry(ys[i], input[m])
  <2>1. CASE i = n + 1
    <3>1. k < k + 1 /\ k \in DOMAIN input
      BY <1>1
    <3> QED
      BY <1>3, <1>6, <1>12, <2>1, <3>1
  <2>2. CASE i \in 1 .. n
    <3>1. PICK m \in DOMAIN input : m < k /\ Usable(input[m]) /\ FromEntry(zs[i], input[m])
      BY <1>14, <2>2
    <3>2. m < k + 1
      BY <1>1, <3>1
    <3> QED
      BY <1>12, <2>2, <3>1, <3>2
  <2> QED
    BY <1>16, <2>1, <2>2
<1> QED
  BY <1>1, <1>8, <1>11, <1>12, <1>17, <1>19, <1>20 DEF ZonesOK

\* Nothing else writes the table of zones.
LEMMA ZonesOthers ==
    [Next]_vars =>
        \/ ZoneAdd \/ SkipEntry
        \/ UNCHANGED <<pc, input, alloc>>
        \/ UNCHANGED alloc /\ pc \notin {"frames", "sched", "running", "panic"}
        \/ UNCHANGED alloc /\ pc' \in {"sched", "running", "panic"}
<1> SUFFICES ASSUME [Next]_vars, ~ZoneAdd, ~SkipEntry
             PROVE  \/ UNCHANGED <<pc, input, alloc>>
                    \/ UNCHANGED alloc /\ pc \notin {"frames", "sched", "running", "panic"}
                    \/ UNCHANGED alloc /\ pc' \in {"sched", "running", "panic"}
  OBVIOUS
<1> USE DEF Goto, panic
<1>1. CASE EarlyMap \/ ArchInit \/ IdtEntry \/ Lidt \/ ParseTag \/ ParseEnd \/ FbInit \/ ConsInit
  BY <1>1 DEF EarlyMap, ArchInit, IdtEntry, Lidt, ParseTag, ParseEnd, FbInit, ConsInit
<1>2. CASE AcpiInit \/ LookupNext \/ LookupFound \/ LookupNone \/ MadtStart \/ MadtEntry \/ ApicEnable
  BY <1>2 DEF AcpiInit, LookupNext, LookupFound, LookupNone, MadtStart, MadtEntry, ApicEnable
<1>3. CASE TimerStart \/ TimerPolled \/ TimerArm \/ BusTick \/ PitFire
  BY <1>3 DEF TimerStart, TimerPolled, TimerArm, BusTick, PitFire
<1>4. CASE DumpMemmap \/ FramesDone \/ SchedStart
  BY <1>4 DEF DumpMemmap, FramesDone, SchedStart
<1>5. CASE UNCHANGED vars
  BY <1>5 DEF vars
<1> QED
  BY <1>1, <1>2, <1>3, <1>4, <1>5 DEF Next, Kmain, Stopped

\* frame_alloc_init keeps the zones good and disjoint.
LEMMA ZonesStep ==
    ASSUME RegionsApart
    PROVE  TypeOK /\ InputOK /\ ZonesOK /\ [Next]_vars => ZonesOK'
<1> SUFFICES ASSUME TypeOK, InputOK, ZonesOK, [Next]_vars PROVE ZonesOK'
  OBVIOUS
<1>1. CASE ZoneAdd
  <2>1. CASE pc' = "frames"
    BY <1>1, <2>1, ZoneAddStep
  <2>2. CASE pc' # "frames"
    <3>1. pc' = "panic" /\ alloc' = alloc
      BY <1>1, <2>2 DEF ZoneAdd, panic
    <3> QED
      BY <3>1 DEF ZonesOK
  <2> QED
    BY <2>1, <2>2
<1>2. CASE SkipEntry
  <2>1. pc = "frames" /\ UNCHANGED <<pc, input>> /\ alloc' = [alloc EXCEPT !.next = @ + 1]
    BY <1>2 DEF SkipEntry
  <2>2. alloc'.zones = alloc.zones /\ alloc'.next = alloc.next + 1 /\ alloc.next \in Nat
    BY <2>1 DEF TypeOK, Alloc
  <2>3. input \in Seq(Entry)
    BY <2>1, BootAssumption DEF InputOK, Entry
  <2>4. \A n \in DOMAIN input : n < alloc.next => n < alloc'.next
    BY <2>2, <2>3
  <2> QED
    BY <2>1, <2>2, <2>4 DEF ZonesOK
<1>3. CASE UNCHANGED <<pc, input, alloc>>
  BY <1>3 DEF ZonesOK
<1>4. CASE UNCHANGED alloc /\ pc \notin {"frames", "sched", "running", "panic"}
  BY <1>4 DEF ZonesOK
<1>5. CASE UNCHANGED alloc /\ pc' \in {"sched", "running", "panic"}
  BY <1>5 DEF ZonesOK
<1> QED
  BY <1>1, <1>2, <1>3, <1>4, <1>5, ZonesOthers

\* frames_free finds the zone of every page again.
LEMMA ZoneFound ==
    ASSUME TypeOK, ZonesOK, NEW i \in DOMAIN alloc.zones, NEW z, z = alloc.zones[i],
           NEW p \in 0 .. z.pages_count - 1
    PROVE  ZoneOf(alloc.zones, z.start + p * PAGE_SIZE) = i
<1>1. PICK zs \in Seq(Zone) : zs = alloc.zones
  BY DEF TypeOK, Alloc
<1>2. PICK P \in Nat \ {0} : P = PAGE_SIZE
  BY BlockDef
<1>3. z \in Zone /\ P * z.pages_count = z.end - z.start
  BY <1>2 DEF ZonesOK, GoodZone
<1>4. PICK s, f, c \in Nat : s = z.start /\ f = z.end /\ c = z.pages_count
  BY <1>3 DEF Zone
<1>5. PICK addr \in Nat : addr = s + p * P
  BY <1>4
<1>6. s <= addr /\ addr < f
  <2>1. PICK q \in Nat : q = P * p /\ q = p * P
    BY <1>4
  <2>2. p < c /\ p \in Nat
    BY <1>4
  <2>3. q + P <= P * c
    BY <1>4, <2>1, <2>2, Products
  <2>4. P * c = f - s
    BY <1>3, <1>4
  <2> QED
    BY <1>5, <2>1, <2>3, <2>4
<1> DEFINE spans == {j \in DOMAIN zs : zs[j].start <= addr /\ addr < zs[j].end}
<1>7. i \in spans
  BY <1>1, <1>4, <1>6
<1>8. ASSUME NEW j \in spans PROVE j = i
  <2> SUFFICES ASSUME j # i PROVE FALSE
    OBVIOUS
  <2>1. zs[j] \in Zone
    BY <1>1
  <2>2. PICK t, g \in Nat : t = zs[j].start /\ g = zs[j].end
    BY <2>1 DEF Zone
  <2>3. t <= addr /\ addr < g
    BY <2>2
  <2>4. f <= t \/ g <= s
    BY <1>1, <1>4, <2>2 DEF ZonesOK, Apart
  <2> QED
    BY <1>6, <2>3, <2>4
<1>9. spans = {i}
  BY <1>7, <1>8
<1>10. i \in Nat
  BY <1>1
<1>11. ZoneOf(zs, addr) = CHOOSE k \in spans : \A j \in spans : k <= j
  BY <1>7, Zenon DEF ZoneOf
<1>12. PICK c1 : c1 = CHOOSE k \in spans : \A j \in spans : k <= j
  OBVIOUS
<1>13. i <= i
  BY <1>10
<1>14. c1 \in spans
  BY <1>7, <1>8, <1>12, <1>13
<1>15. c1 = i
  BY <1>8, <1>14
<1> QED
  BY <1>1, <1>2, <1>4, <1>5, <1>11, <1>12, <1>15, Zenon

\* Zones begin above the kernel and the multiboot information and behind their
\* own bitmaps, are made of whole blocks, and frames_free finds the zone of
\* every page again: for every memory map whose usable regions do not
\* overlap, in any order, and every page size and largest order.
THEOREM BootZonesApart ==
    ASSUME RegionsApart
    PROVE  Spec => []ZonesApart
<1>1. Init => ZonesOK
  BY DEF Init, ZonesOK
<1>2. TypeOK /\ ZonesOK => ZonesApart
  <2> SUFFICES ASSUME TypeOK, ZonesOK, NEW i \in DOMAIN alloc.zones, NEW z, z = alloc.zones[i]
               PROVE  /\ z.bitmap >= reserved_end
                      /\ z.start % Block = 0 /\ z.end % Block = 0 /\ z.start <= z.end
                      /\ \A o \in 0 .. MAX_ORDER - 1 : BitmapEnd(z, o) <= z.start
                      /\ \A p \in 0 .. z.pages_count - 1 :
                            ZoneOf(alloc.zones, z.start + p * PAGE_SIZE) = i
    BY Zenon DEF ZonesApart
  <2>1. GoodZone(z)
    BY DEF ZonesOK
  <2>2. \A p \in 0 .. z.pages_count - 1 : ZoneOf(alloc.zones, z.start + p * PAGE_SIZE) = i
    BY ZoneFound
  <2> QED
    BY <2>1, <2>2 DEF GoodZone
<1>3. TypeOK /\ InputOK /\ ZonesOK /\ [Next]_vars => ZonesOK'
  BY ZonesStep
<1> QED
  BY <1>1, <1>2, <1>3, Typed, PTL DEF Spec
=============================================================================
