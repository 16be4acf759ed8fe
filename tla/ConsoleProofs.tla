--------------------------- MODULE ConsoleProofs ----------------------------
(***************************************************************************)
(* printk's numerals, the cursor and the text on the screen, for every     *)
(* screen, every font and every message.                                   *)
(***************************************************************************)
EXTENDS Console, CommonProofs

-----------------------------------------------------------------------------
(* Numerals. *)

Bases == {10, 16}

\* The quotients of bprintu64's loop.
LEMMA QuotientDef ==
    ASSUME NEW a \in Nat, NEW base \in Bases
    PROVE  /\ Quotient(a, base) \in [Nat -> Nat]
           /\ Quotient(a, base)[0] = a
           /\ \A n \in Nat : Quotient(a, base)[n + 1] = Quotient(a, base)[n] \div base
<1> DEFINE step == [n \in Nat |-> [v \in Nat |-> v \div base]]
           q == Quotient(a, base)
<1>1. step \in [Nat -> [Nat -> Nat]]
  BY DEF Bases
<1>2. PICK g : IsSequence(g, Nat, a, step)
  <2> HIDE DEF step
  <2> QED BY <1>1, Recursion
<1>3. g \in [Nat -> Nat] /\ g[0] = a /\ \A n \in Nat : g[n + 1] = g[n] \div base
  BY <1>2 DEF IsSequence
<1>4. g = [i \in Nat |-> IF i = 0 THEN a ELSE g[i - 1] \div base]
  <2>1. ASSUME NEW i \in Nat PROVE g[i] = IF i = 0 THEN a ELSE g[i - 1] \div base
    <3>1. CASE i = 0
      BY <1>3, <3>1
    <3>2. CASE i # 0
      <4>1. i - 1 \in Nat /\ i - 1 + 1 = i
        BY <3>2
      <4> QED
        BY <1>3, <3>2, <4>1
    <3> QED
      BY <3>1, <3>2
  <2> QED
    BY <1>3, <2>1
<1>5. q = [i \in Nat |-> IF i = 0 THEN a ELSE q[i - 1] \div base]
  BY <1>4, Zenon DEF Quotient
<1>6. q[0] = a /\ \A n \in Nat : q[n + 1] = q[n] \div base
  <2>1. \A n \in Nat : q[n] = IF n = 0 THEN a ELSE q[n - 1] \div base
    <3> HIDE DEF q
    <3> QED BY <1>5
  <2> HIDE DEF q
  <2> QED
    BY <2>1
<1>7. \A n \in Nat : q[n] \in Nat
  <2> DEFINE Good == {n \in Nat : q[n] \in Nat}
  <2> HIDE DEF q
  <2>1. 0 \in Good
    BY <1>6
  <2>2. ASSUME NEW n \in Nat, n \in Good PROVE n + 1 \in Good
    BY <1>6, <2>2 DEF Bases
  <2>3. Nat \subseteq Good
    <3> HIDE DEF Good
    <3> QED BY <2>1, <2>2, InductionSet
  <2> QED
    BY <2>3
<1> HIDE DEF q
<1>8. q \in [Nat -> Nat]
  BY <1>5, <1>7
<1> QED
  BY <1>6, <1>8 DEF q

\* The loop ends: every round makes a positive quotient smaller.
LEMMA NumDigitsDef ==
    ASSUME NEW a \in Nat, NEW base \in Bases
    PROVE  /\ NumDigits(a, base) \in Nat /\ NumDigits(a, base) >= 1
           /\ Quotient(a, base)[NumDigits(a, base)] = 0
           /\ \A i \in 1 .. NumDigits(a, base) - 1 : Quotient(a, base)[i] # 0
<1> DEFINE q == Quotient(a, base)
<1>1. q \in [Nat -> Nat] /\ q[0] = a /\ \A n \in Nat : q[n + 1] = q[n] \div base
  BY QuotientDef
<1> HIDE DEF q
<1> DEFINE Good == {n \in Nat : q[n] = 0 \/ q[n] + n <= a}
<1>2. 0 \in Good
  BY <1>1
<1>3. ASSUME NEW n \in Nat, n \in Good PROVE n + 1 \in Good
  <2>1. q[n] \in Nat /\ q[n + 1] = q[n] \div base
    BY <1>1
  <2> QED
    BY <1>3, <2>1 DEF Bases
<1>4. Nat \subseteq Good
  <2> HIDE DEF Good
  <2> QED BY <1>2, <1>3, InductionSet
<1>5. a + 1 \in Nat /\ q[a + 1] = 0
  BY <1>1, <1>4
<1> DEFINE Zeros == {n \in Nat : 1 <= n /\ q[n] = 0}
<1>6. PICK n \in Zeros : \A m \in Zeros : n <= m
  <2>1. Zeros \in SUBSET Nat /\ a + 1 \in Zeros
    BY <1>5
  <2> HIDE DEF Zeros
  <2> QED BY <2>1, LeastNat
<1>7. n \in 1 .. a + 1 /\ q[n] = 0 /\ \A i \in 1 .. n - 1 : q[i] # 0
  BY <1>1, <1>5, <1>6
<1>8. NumDigits(a, base) = CHOOSE m \in 1 .. a + 1 : q[m] = 0 /\ \A i \in 1 .. m - 1 : q[i] # 0
  BY DEF NumDigits, q
<1>9. /\ NumDigits(a, base) \in 1 .. a + 1 /\ q[NumDigits(a, base)] = 0
      /\ \A i \in 1 .. NumDigits(a, base) - 1 : q[i] # 0
  BY <1>7, <1>8
<1> QED
  BY <1>9 DEF q

\* What bprintu64 leaves in buf: digit i is the remainder of round len - i.
LEMMA NumeralDef ==
    ASSUME NEW a \in Nat, NEW base \in Bases
    PROVE  /\ bprintu64(a, base) \in Seq(Digits)
           /\ Len(bprintu64(a, base)) = NumDigits(a, base)
           /\ \A i \in 1 .. NumDigits(a, base) :
                 bprintu64(a, base)[i] =
                     digits[(Quotient(a, base)[NumDigits(a, base) - i] % base) + 1]
<1> DEFINE n == NumDigits(a, base)  q == Quotient(a, base)  low == LowestFirst(a, base)
<1>1. n \in Nat /\ n >= 1 /\ q \in [Nat -> Nat]
  BY QuotientDef, NumDigitsDef
<1>2. low = [i \in 1 .. n |-> digits[(q[i - 1] % base) + 1]]
  BY DEF LowestFirst
<1> HIDE DEF n, q, low
<1>3. \A i \in 1 .. n : (q[i - 1] % base) + 1 \in 1 .. 16
  <2> SUFFICES ASSUME NEW i \in 1 .. n PROVE (q[i - 1] % base) + 1 \in 1 .. 16
    OBVIOUS
  <2>1. q[i - 1] \in Nat
    BY <1>1
  <2> QED
    BY <2>1 DEF Bases
<1>4. low \in Seq(Digits) /\ Len(low) = n
  <2>1. \A i \in 1 .. n : digits[(q[i - 1] % base) + 1] \in Digits
    BY <1>3 DEF Digits
  <2> QED
    BY <1>1, <1>2, <2>1
<1>5. Reverse(low) = [i \in 1 .. n |-> low[n - i + 1]]
  BY <1>4 DEF Reverse
<1>6. \A i \in 1 .. n : low[n - i + 1] = digits[(q[n - i] % base) + 1] /\ low[n - i + 1] \in Digits
  <2> SUFFICES ASSUME NEW i \in 1 .. n
               PROVE  low[n - i + 1] = digits[(q[n - i] % base) + 1] /\ low[n - i + 1] \in Digits
    OBVIOUS
  <2>1. n - i + 1 \in 1 .. n /\ n - i + 1 - 1 = n - i
    BY <1>1
  <2>2. low[n - i + 1] = digits[(q[n - i] % base) + 1]
    <3> DEFINE k == n - i + 1
    <3>1. k \in 1 .. n /\ k - 1 = n - i
      BY <1>1, <2>1
    <3> HIDE DEF k
    <3>2. low[k] = digits[(q[k - 1] % base) + 1]
      BY <1>2, <3>1
    <3> QED
      BY <3>1, <3>2 DEF k
  <2> QED
    BY <1>4, <2>1, <2>2
<1>7. Reverse(low) \in Seq(Digits) /\ Len(Reverse(low)) = n
  BY <1>1, <1>5, <1>6
<1> QED
  BY <1>5, <1>6, <1>7 DEF bprintu64, n, q, low

\* Each digit stands for its own number.
LEMMA DigitValue ==
    ASSUME NEW d \in 0 .. 15
    PROVE  (CHOOSE e \in 0 .. 15 : digits[e + 1] = digits[d + 1]) = d
<1>1. \A e \in 0 .. 15 : digits[e + 1] = digits[d + 1] => e = d
  BY DEF digits
<1> QED
  BY <1>1

\* Read again as a numeral, what bprintu64 writes is the number.
THEOREM NumeralOfNumber ==
    ASSUME NEW a \in Nat, NEW base \in Bases
    PROVE  /\ NumeralValue(bprintu64(a, base), base) = a
           /\ Len(bprintu64(a, base)) > 1 => bprintu64(a, base)[1] # "0"
<1> DEFINE n == NumDigits(a, base)  q == Quotient(a, base)  ds == bprintu64(a, base)
           Digit(i) == CHOOSE d \in 0 .. 15 : digits[d + 1] = ds[i]
<1>1. /\ q \in [Nat -> Nat] /\ q[0] = a /\ n \in Nat /\ n >= 1 /\ q[n] = 0 /\ Len(ds) = n
      /\ \A i \in Nat : q[i + 1] = q[i] \div base
      /\ \A i \in 1 .. n - 1 : q[i] # 0
      /\ \A i \in 1 .. n : ds[i] = digits[(q[n - i] % base) + 1]
  BY QuotientDef, NumDigitsDef, NumeralDef
<1> HIDE DEF n, q
<1>0. n \in Nat /\ q \in [Nat -> Nat]
  BY <1>1
<1>2. \A i \in 1 .. n : q[n - i] \in Nat /\ q[n - i] % base \in 0 .. 15
  <2> SUFFICES ASSUME NEW i \in 1 .. n PROVE q[n - i] \in Nat /\ q[n - i] % base \in 0 .. 15
    OBVIOUS
  <2>1. n - i \in Nat
    BY <1>0
  <2>2. q[n - i] \in Nat
    BY <1>0, <2>1
  <2> QED
    BY <2>2 DEF Bases
<1>3. \A i \in 1 .. n : Digit(i) = q[n - i] % base
  <2> SUFFICES ASSUME NEW i \in 1 .. n PROVE Digit(i) = q[n - i] % base
    OBVIOUS
  <2> DEFINE d == q[n - i] % base
  <2>1. d \in 0 .. 15 /\ ds[i] = digits[d + 1]
    BY <1>1, <1>2
  <2> HIDE DEF d, ds
  <2>2. (CHOOSE e \in 0 .. 15 : digits[e + 1] = digits[d + 1]) = d
    BY <2>1, DigitValue
  <2> QED
    BY <2>1, <2>2 DEF d
<1> HIDE DEF Digit
<1>4. \A i \in 1 .. n : q[n - i] = q[n - (i - 1)] * base + Digit(i)
  <2> SUFFICES ASSUME NEW i \in 1 .. n PROVE q[n - i] = q[n - (i - 1)] * base + Digit(i)
    OBVIOUS
  <2>1. n - i \in Nat /\ n - (i - 1) = n - i + 1
    BY <1>0
  <2>2. q[n - (i - 1)] = q[n - i] \div base
    BY <1>1, <2>1
  <2>3. Digit(i) = q[n - i] % base /\ q[n - i] \in Nat
    BY <1>2, <1>3
  <2> QED
    BY <2>2, <2>3 DEF Bases
<1> DEFINE g == [i \in 0 .. n |-> q[n - i]]
<1>5. g = [i \in 0 .. n |-> IF i = 0 THEN 0 ELSE g[i - 1] * base + Digit(i)]
  <2>1. ASSUME NEW i \in 0 .. n PROVE q[n - i] = IF i = 0 THEN 0 ELSE g[i - 1] * base + Digit(i)
    <3>1. CASE i = 0
      BY <1>1, <3>1
    <3>2. CASE i # 0
      <4>1. i \in 1 .. n /\ i - 1 \in 0 .. n
        BY <1>0, <3>2
      <4>2. g[i - 1] = q[n - (i - 1)]
        BY <4>1
      <4> QED
        BY <1>4, <3>2, <4>1, <4>2
    <3> QED
      BY <3>1, <3>2
  <2> QED
    BY <2>1
<1> DEFINE value == CHOOSE f : f = [i \in 0 .. n |-> IF i = 0 THEN 0 ELSE f[i - 1] * base + Digit(i)]
<1>6. value = [i \in 0 .. n |-> IF i = 0 THEN 0 ELSE value[i - 1] * base + Digit(i)]
  BY <1>5, Zenon
<1> HIDE DEF g
<1>7. NumeralValue(ds, base) = value[n]
  <2>1. NumeralValue(ds, base) = value[Len(ds)]
    BY <1>1 DEF NumeralValue, Digit
  <2> QED
    BY <1>1, <2>1
<1> HIDE DEF value
<1> DEFINE Same == {i \in Nat : i <= n => value[i] = q[n - i]}
<1>8. 0 \in Same
  BY <1>1, <1>6
<1>9. ASSUME NEW i \in Nat, i \in Same PROVE i + 1 \in Same
  <2> SUFFICES ASSUME i + 1 <= n PROVE value[i + 1] = q[n - (i + 1)]
    OBVIOUS
  <2>1. i + 1 \in 1 .. n /\ i + 1 \in 0 .. n /\ i + 1 # 0 /\ i + 1 - 1 = i /\ i <= n
    BY <1>1
  <2>2. value[i + 1] = value[i] * base + Digit(i + 1)
    BY <1>6, <2>1
  <2>3. q[n - (i + 1)] = q[n - i] * base + Digit(i + 1)
    BY <1>4, <2>1
  <2> QED
    BY <1>9, <2>1, <2>2, <2>3
<1>10. Nat \subseteq Same
  <2> HIDE DEF Same
  <2> QED BY <1>8, <1>9, InductionSet
<1>11. value[n] = a
  <2>1. n <= n /\ n - n = 0
    BY <1>0
  <2>2. value[n] = q[n - n]
    BY <1>0, <1>10, <2>1
  <2> QED
    BY <1>1, <2>1, <2>2
<1>12. ASSUME Len(ds) > 1 PROVE ds[1] # "0"
  <2>1. n - 1 \in Nat /\ n - 1 >= 1 /\ n - 1 + 1 = n /\ 1 \in 1 .. n
    BY <1>1, <1>12
  <2>2. q[n - 1] \in Nat /\ q[n - 1] # 0 /\ q[n - 1] \div base = 0
    BY <1>1, <2>1
  <2>3. q[n - 1] % base \in 1 .. 15
    BY <2>2 DEF Bases
  <2>4. ds[1] = digits[(q[n - 1] % base) + 1]
    BY <1>1, <2>1
  <2> HIDE DEF ds
  <2>5. \A d \in 1 .. 15 : digits[d + 1] # "0"
    BY DEF digits
  <2> QED
    BY <2>3, <2>4, <2>5
<1> QED
  BY <1>7, <1>11, <1>12

-----------------------------------------------------------------------------
(* The calls of vprintk_color. *)

Stage == {"quiet", "format", "drawn", "advanced", "overrun"}

Writer ==
    [pc : Stage, fmt : Seq(Item), idle : BOOLEAN, buf : Seq(Glyphs), size : Int,
     out : Seq(Text), num : {<<>>} \cup (Numeric \X Int)]

\* A number has the type of its conversion.
Typed(kind, val) ==
    /\ kind \in {"u", "x"} => val \in 0 .. Pow2[INT_BITS] - 1
    /\ kind = "d" => val \in -Pow2[INT_BITS - 1] .. Pow2[INT_BITS - 1] - 1
    /\ kind = "p" => val \in Nat

\* buf holds the last number converted; size says how much of it is printed.
GoodWriter ==
    {r \in Writer :
        /\ r.pc \in {"drawn", "advanced"} => r.out # <<>> /\ Head(r.out) \in Glyphs
        /\ r.pc = "overrun" <=> Len(r.buf) > PRINTK_BUF_SIZE
        /\ r.num = <<>> => r.buf = <<>> /\ r.size <= 0
        /\ r.num # <<>> =>
              /\ Typed(r.num[1], r.num[2])
              /\ r.buf = Converted(r.num[1], r.num[2])
              /\ r.size \in {0, Len(r.buf)}}

WriterOK == writer \in [Writers -> GoodWriter]

LEMMA TypedNumbers ==
    ASSUME NEW kind \in Numeric, NEW val, Typed(kind, val)
    PROVE  val \in Int /\ (kind \in {"u", "x", "p"} => val \in Nat)
<1>1. Pow2[INT_BITS] \in Nat /\ Pow2[INT_BITS - 1] \in Nat
  <2>1. INT_BITS \in Nat \ {0}
    BY ConsoleAssumption
  <2>2. INT_BITS \in Nat /\ INT_BITS - 1 \in Nat
    BY <2>1
  <2> QED
    BY <2>2, Pow2Def
<1> QED
  BY <1>1 DEF Typed, Numeric

\* What the format string offers.
LEMMA Items ==
    ASSUME NEW i \in Item
    PROVE  /\ i.ch # "%" => i.ch \in Text
           /\ i.ch \in Numeric => Typed(i.ch, i.arg)
           /\ i.ch \in Textual => i.arg \in Seq(Text)
<1>1. CASE i \in [ch : (Text \cup {"%"}) \ (Numeric \cup Textual), arg : {0}]
  BY <1>1 DEF Numeric, Textual
<1>2. CASE i \in [ch : {"u", "x"}, arg : 0 .. Pow2[INT_BITS] - 1]
  BY <1>2, ConsoleAssumption DEF Numeric, Textual, Text, Typed
<1>3. CASE i \in [ch : {"d"}, arg : -Pow2[INT_BITS - 1] .. Pow2[INT_BITS - 1] - 1]
  BY <1>3, ConsoleAssumption DEF Numeric, Textual, Text, Typed
<1>4. CASE i \in [ch : {"p"}, arg : Nat]
  BY <1>4, ConsoleAssumption DEF Numeric, Textual, Text, Typed
<1>5. CASE i \in [ch : Textual, arg : Seq(Text)]
  BY <1>5, ConsoleAssumption DEF Numeric, Textual, Text
<1> QED
  BY <1>1, <1>2, <1>3, <1>4, <1>5 DEF Item

\* The font has the digits.
LEMMA DigitsAreGlyphs ==
    ASSUME NEW s \in Seq(Digits)
    PROVE  s \in Seq(Glyphs)
  BY ConsoleAssumption

\* A conversion writes characters of the font.
LEMMA ConvertedType ==
    ASSUME NEW kind \in Numeric, NEW val \in Int, kind \in {"u", "x", "p"} => val \in Nat
    PROVE  Converted(kind, val) \in Seq(Glyphs) /\ Len(Converted(kind, val)) > 0
<1>1. \A a \in Nat, base \in Bases : /\ bprintu64(a, base) \in Seq(Glyphs)
                                     /\ Len(bprintu64(a, base)) > 0
  <2> SUFFICES ASSUME NEW a \in Nat, NEW base \in Bases
               PROVE  bprintu64(a, base) \in Seq(Glyphs) /\ Len(bprintu64(a, base)) > 0
    OBVIOUS
  <2>1. bprintu64(a, base) \in Seq(Digits) /\ Len(bprintu64(a, base)) = NumDigits(a, base)
    BY NumeralDef
  <2>2. NumDigits(a, base) \in Nat /\ NumDigits(a, base) >= 1
    BY NumDigitsDef
  <2> QED
    BY <2>1, <2>2, DigitsAreGlyphs
<1>2. 10 \in Bases /\ 16 \in Bases
  BY DEF Bases
<1>3. CASE kind = "u"
  BY <1>1, <1>2, <1>3 DEF Converted
<1>4. CASE kind = "x"
  BY <1>1, <1>2, <1>4 DEF Converted
<1>5. CASE kind = "d"
  <2>1. Converted(kind, val) = bprints64(val, 10)
    BY <1>5 DEF Converted
  <2>2. CASE val < 0
    <3> DEFINE t == bprintu64(-val, 10)
    <3>1. t \in Seq(Glyphs) /\ Len(t) > 0
      <4>1. -val \in Nat
        BY <2>2
      <4> QED
        BY <1>1, <1>2, <4>1
    <3>2. <<"-">> \in Seq(Glyphs)
      BY ConsoleAssumption
    <3>3. bprints64(val, 10) = <<"-">> \o t
      BY <2>2 DEF bprints64
    <3> HIDE DEF t
    <3>4. <<"-">> \o t \in Seq(Glyphs) /\ Len(<<"-">> \o t) = 1 + Len(t) /\ Len(t) \in Nat
      BY <3>1, <3>2
    <3> QED
      BY <2>1, <3>3, <3>4, SMTT(30)
  <2>3. CASE ~ (val < 0)
    <3>1. val \in Nat /\ bprints64(val, 10) = bprintu64(val, 10)
      BY <2>3 DEF bprints64
    <3> QED
      BY <1>1, <1>2, <2>1, <3>1
  <2> QED
    BY <2>2, <2>3
<1>6. CASE kind = "p"
  <2>1. Converted(kind, val) = bprintptr(val)
    BY <1>6 DEF Converted
  <2>2. CASE val = 0
    <3>1. bprintptr(val) = <<"(", "n", "i", "l", ")">>
      BY <2>2 DEF bprintptr
    <3>2. {"(", "n", "i", "l", ")"} \subseteq Glyphs
      BY ConsoleAssumption DEF Textual
    <3> QED
      BY <2>1, <3>1, <3>2
  <2>3. CASE val # 0
    <3>1. bprintu64(val, 16) \in Seq(Glyphs)
      BY <1>1, <1>2, <1>6
    <3>2. bprintptr(val) = <<"0", "x">> \o bprintu64(val, 16)
      BY <2>3 DEF bprintptr
    <3>3. "0" \in Digits
      BY DEF Digits, digits
    <3>4. <<"0", "x">> \in Seq(Glyphs) /\ Len(<<"0", "x">>) = 2
      BY <3>3, ConsoleAssumption DEF Numeric
    <3>5. /\ <<"0", "x">> \o bprintu64(val, 16) \in Seq(Glyphs)
          /\ Len(<<"0", "x">> \o bprintu64(val, 16)) = 2 + Len(bprintu64(val, 16))
      BY <3>1, <3>4
    <3>6. Len(bprintu64(val, 16)) \in Nat
      BY <3>1
    <3> QED
      BY <2>1, <3>2, <3>5, <3>6
  <2> QED
    BY <2>2, <2>3
<1> QED
  BY <1>3, <1>4, <1>5, <1>6 DEF Numeric

\* A call that goes on to the next character of the format string.
LEMMA NextItem ==
    ASSUME NEW r \in GoodWriter, r.pc = "format", Tail(r.fmt) \in Seq(Item),
           NEW i \in BOOLEAN, NEW z \in {0, r.size}, NEW o \in Seq(Text)
    PROVE  Consumed(r, i, z, o) \in GoodWriter
  BY DEF Consumed, GoodWriter, Writer, Stage

\* Only the call that moves changes, and it stays good.
LEMMA WriterStep ==
    ASSUME WriterOK, NEW w \in Writers, vprintk_color(w) \/ Step(w)
    PROVE  WriterOK'
<1> DEFINE r == writer[w]
<1>1. /\ r \in GoodWriter /\ r \in Writer /\ r.fmt \in Seq(Item) /\ r.out \in Seq(Text)
      /\ r.buf \in Seq(Glyphs) /\ r.size \in Int
  BY DEF WriterOK, GoodWriter, Writer
<1> SUFFICES \E u \in GoodWriter : writer' = [writer EXCEPT ![w] = u]
  BY DEF WriterOK
<1>0. <<>> \in Seq(Text) /\ <<>> \in Seq(Item)
  OBVIOUS
<1>2. \A pc \in {"quiet", "format"}, m \in Seq(Item) : Call(pc, m) \in GoodWriter
  BY ConsoleAssumption DEF Call, GoodWriter, Writer, Stage
<1>3. CASE vprintk_color(w)
  <2>1. PICK m \in Messages : writer' = [writer EXCEPT ![w] = Call("format", m)]
    BY <1>3 DEF vprintk_color
  <2>2. m \in Seq(Item)
    BY ConsoleAssumption
  <2> QED
    BY <1>2, <2>1, <2>2
<1>4. ASSUME Formatting(w)
      PROVE  /\ r.pc = "format" /\ Tail(r.fmt) \in Seq(Item)
             /\ Kind(w) # "%" => Kind(w) \in Text
             /\ Kind(w) \in Numeric => Typed(Kind(w), Arg(w))
             /\ Kind(w) \in Textual => Arg(w) \in Seq(Text)
  <2>1. r.fmt # <<>> /\ r.pc = "format"
    BY <1>4 DEF Formatting, At
  <2>2. Head(r.fmt) \in Item /\ Tail(r.fmt) \in Seq(Item)
    BY <1>1, <2>1
  <2> QED
    BY <2>1, <2>2, Items DEF Kind, Arg
<1>5. CASE FormatPlain(w)
  <2>1. Formatting(w)
    BY <1>5 DEF FormatPlain
  <2>2. CASE Kind(w) = "%"
    <3>1. writer' = [writer EXCEPT ![w] = Consumed(r, FALSE, r.size, <<>>)]
      BY <1>5, <2>2 DEF FormatPlain
    <3>2. Consumed(r, FALSE, r.size, <<>>) \in GoodWriter
      BY <1>0, <1>1, <1>4, <2>1, NextItem
    <3> QED
      BY <3>1, <3>2
  <2>3. CASE Kind(w) # "%"
    <3>1. writer' = [writer EXCEPT ![w] = Consumed(r, TRUE, r.size, <<Kind(w)>>)]
      BY <1>5, <2>3 DEF FormatPlain
    <3>2. <<Kind(w)>> \in Seq(Text)
      BY <1>4, <2>1, <2>3
    <3>3. Consumed(r, TRUE, r.size, <<Kind(w)>>) \in GoodWriter
      BY <1>1, <1>4, <2>1, <3>2, NextItem
    <3> QED
      BY <3>1, <3>3
  <2> QED
    BY <2>2, <2>3
<1>6. CASE FormatNumber(w)
  <2> DEFINE b == Converted(Kind(w), Arg(w))  n == <<Kind(w), Arg(w)>>  f == Tail(r.fmt)
             p == IF Len(b) <= PRINTK_BUF_SIZE THEN "format" ELSE "overrun"
  <2>1. Formatting(w) /\ Kind(w) \in Numeric
    BY <1>6 DEF FormatNumber
  <2>2. writer' = [writer EXCEPT ![w] = [pc |-> p, fmt |-> f, idle |-> TRUE, buf |-> b,
                                         size |-> Len(b), out |-> b, num |-> n]]
    BY <1>6 DEF FormatNumber
  <2>3. b \in Seq(Glyphs) /\ Len(b) > 0
    BY <1>4, <2>1, TypedNumbers, ConvertedType
  <2>4. b \in Seq(Text) /\ Len(b) \in Int /\ (p = "overrun" <=> Len(b) > PRINTK_BUF_SIZE) /\ p \in Stage
    <3> HIDE DEF b
    <3> QED BY <2>3, ConsoleAssumption DEF Text, Stage
  <2>5. n \in Numeric \X Int /\ n # <<>> /\ Typed(n[1], n[2]) /\ f \in Seq(Item)
    BY <1>4, <2>1, TypedNumbers
  <2>6. b = Converted(n[1], n[2])
    OBVIOUS
  <2>a. p \notin {"drawn", "advanced"}
    OBVIOUS
  <2> HIDE DEF b, n, f, p
  <2>7. [pc |-> p, fmt |-> f, idle |-> TRUE, buf |-> b, size |-> Len(b), out |-> b, num |-> n]
            \in GoodWriter
    BY <2>3, <2>4, <2>5, <2>6, <2>a DEF GoodWriter, Writer
  <2> QED
    BY <2>2, <2>7
<1>7. CASE FormatString(w)
  <2>1. Formatting(w) /\ Kind(w) \in Textual
    BY <1>7 DEF FormatString, Textual
  <2>2. writer' = [writer EXCEPT ![w] = Consumed(r, TRUE, 0, Arg(w))]
    BY <1>7 DEF FormatString
  <2>3. Consumed(r, TRUE, 0, Arg(w)) \in GoodWriter
    BY <1>1, <1>4, <2>1, NextItem
  <2> QED
    BY <2>2, <2>3
<1>8. CASE FormatError(w)
  <2>1. Formatting(w) /\ Kind(w) \in Textual
    BY <1>8 DEF FormatError, Textual
  <2>2. PICK rest \in IF r.size = -1 THEN Garbage ELSE {SubSeq(r.buf, 1, r.size)} :
           writer' = [writer EXCEPT ![w] = Consumed(r, TRUE, r.size, Arg(w) \o rest)]
    BY <1>8 DEF FormatError
  <2>3. rest \in Seq(Text)
    <3>1. CASE r.size = -1
      <4>1. PICK n \in 0 .. MaxGarbage : rest \in [1 .. n -> {"?"}]
        BY <2>2, <3>1 DEF Garbage
      <4>2. "?" \in Text /\ n \in Nat
        BY ConsoleAssumption DEF Text
      <4>3. rest \in [1 .. n -> Text]
        BY <4>1, <4>2
      <4> QED
        BY <4>2, <4>3
    <3>2. CASE r.size # -1
      <4>1. rest = SubSeq(r.buf, 1, r.size)
        BY <2>2, <3>2
      <4>2. r.size <= Len(r.buf) /\ r.buf \in Seq(Text)
        BY <1>1 DEF GoodWriter, Text
      <4>3. CASE r.size >= 1
        <5> HIDE DEF r
        <5> QED BY <1>1, <4>1, <4>2, <4>3
      <4>4. CASE r.size <= 0
        <5>1. SubSeq(r.buf, 1, r.size) = <<>>
          <6> HIDE DEF r
          <6> QED BY <1>1, <4>4
        <5> QED
          BY <1>0, <4>1, <5>1
      <4> QED
        BY <1>1, <4>3, <4>4
    <3> QED
      BY <3>1, <3>2
  <2>4. Arg(w) \o rest \in Seq(Text)
    BY <1>4, <2>1, <2>3
  <2>5. Consumed(r, TRUE, r.size, Arg(w) \o rest) \in GoodWriter
    BY <1>1, <1>4, <2>1, <2>4, NextItem
  <2> QED
    BY <2>2, <2>5
<1>9. CASE FormatUnknown(w)
  <2>1. Formatting(w)
    BY <1>9 DEF FormatUnknown
  <2>2. writer' = [writer EXCEPT ![w] = Consumed(r, TRUE, 0, <<>>)]
    BY <1>9 DEF FormatUnknown
  <2>3. Consumed(r, TRUE, 0, <<>>) \in GoodWriter
    BY <1>0, <1>1, <1>4, <2>1, NextItem
  <2> QED
    BY <2>2, <2>3
<1>10. CASE PutControl(w)
  <2>1. r.pc = "format" /\ r.out # <<>> /\ Tail(r.out) \in Seq(Text)
    BY <1>1, <1>10 DEF PutControl, Printing, At
  <2>2. writer' = [writer EXCEPT ![w] = [r EXCEPT !.out = Tail(r.out)]]
    BY <1>10 DEF PutControl
  <2>3. [r EXCEPT !.out = Tail(r.out)] \in GoodWriter
    <3> HIDE DEF r
    <3> QED BY <1>1, <2>1 DEF GoodWriter, Writer
  <2> QED
    BY <2>2, <2>3
<1>11. CASE PutGlyph(w)
  <2>1. r.pc = "format" /\ r.out # <<>> /\ Head(r.out) \notin {"nl", "cr"}
    BY <1>11 DEF PutGlyph, Printing, At
  <2>2. writer' = [writer EXCEPT ![w] = [r EXCEPT !.pc = "drawn"]]
    BY <1>11 DEF PutGlyph
  <2>3. Head(r.out) \in Glyphs
    BY <1>1, <2>1 DEF Text
  <2>4. [r EXCEPT !.pc = "drawn"] \in GoodWriter
    <3> HIDE DEF r
    <3> QED BY <1>1, <2>1, <2>3 DEF GoodWriter, Writer, Stage
  <2> QED
    BY <2>2, <2>4
<1>12. CASE PutAdvance(w)
  <2>1. r.pc = "drawn" /\ writer' = [writer EXCEPT ![w] = [r EXCEPT !.pc = "advanced"]]
    BY <1>12 DEF PutAdvance, At
  <2>2. [r EXCEPT !.pc = "advanced"] \in GoodWriter
    <3> HIDE DEF r
    <3> QED BY <1>1, <2>1 DEF GoodWriter, Writer, Stage
  <2> QED
    BY <2>1, <2>2
<1>13. CASE PutWrap(w)
  <2>1. r.pc = "advanced" /\ r.out # <<>> /\ Tail(r.out) \in Seq(Text)
    BY <1>1, <1>13 DEF PutWrap, At, GoodWriter
  <2>2. writer' = [writer EXCEPT ![w] = [r EXCEPT !.pc = "format", !.out = Tail(r.out)]]
    BY <1>13 DEF PutWrap, WriterOK
  <2>3. [r EXCEPT !.pc = "format", !.out = Tail(r.out)] \in GoodWriter
    <3> HIDE DEF r
    <3> QED BY <1>1, <2>1 DEF GoodWriter, Writer, Stage
  <2> QED
    BY <2>2, <2>3
<1>14. CASE PrintDone(w)
  BY <1>0, <1>2, <1>14 DEF PrintDone, Quiet
<1> QED
  BY <1>3, <1>5, <1>6, <1>7, <1>8, <1>9, <1>10, <1>11, <1>12, <1>13, <1>14 DEF Step

-----------------------------------------------------------------------------
(* Pixels and text. *)

\* The rows of text fit on the screen; less than one row of pixels remains.
LEMMA Rows ==
    /\ ConsHeight \in Nat /\ ConsHeight >= 1
    /\ FONT_HEIGHT * ConsHeight <= FbHeight /\ FbHeight < FONT_HEIGHT * ConsHeight + FONT_HEIGHT
<1> DEFINE f == FONT_HEIGHT  b == FbHeight  c == ConsHeight
<1>1. f \in Nat /\ f >= 2 /\ b \in Nat /\ b >= f
  BY ConsoleAssumption
<1>2. c = b \div f
  BY DEF ConsHeight
<1> HIDE DEF f, b, c
<1>3. c \in Int /\ f * c <= b /\ b < f * c + f
  BY <1>1, <1>2
<1>4. c >= 1
  <2> SUFFICES ASSUME c <= 0 PROVE FALSE
    BY <1>3
  <2>1. f * c <= 0
    BY <1>1, <1>3
  <2> QED BY <1>1, <1>3, <2>1
<1> QED
  BY <1>3, <1>4 DEF f, b, c

\* A pixel line belongs to one row of text.
LEMMA LineOf ==
    ASSUME NEW r \in 0 .. ConsHeight - 1, NEW h \in 0 .. FONT_HEIGHT - 1
    PROVE  /\ FONT_HEIGHT * r + h \in Lines
           /\ r < ConsHeight - 1 => /\ FONT_HEIGHT * r + h < FbHeight - FONT_HEIGHT
                                    /\ FONT_HEIGHT * r + h + FONT_HEIGHT = FONT_HEIGHT * (r + 1) + h
           /\ \A s \in 0 .. ConsHeight - 1 :
                 FONT_HEIGHT * r + h \in FONT_HEIGHT * s .. FONT_HEIGHT * s + FONT_HEIGHT - 1 => r = s
<1> DEFINE f == FONT_HEIGHT  b == FbHeight  c == ConsHeight
<1>1. f \in Nat /\ f >= 2 /\ b \in Nat /\ b >= f
  BY ConsoleAssumption
<1>2. c \in Nat /\ c >= 1 /\ f * c <= b
  BY Rows
<1>3. r \in 0 .. c - 1 /\ h \in 0 .. f - 1
  OBVIOUS
<1> HIDE DEF f, b, c
<1>4. f * r >= 0 /\ f * (r + 1) = f * r + f
  BY <1>1, <1>3
<1>5. \A m \in Nat, n \in Nat : m <= n => f * m <= f * n
  BY <1>1
<1>6. r \in Nat /\ r + 1 \in Nat /\ r + 1 <= c
  BY <1>2, <1>3
<1>7. f * (r + 1) <= f * c
  BY <1>2, <1>5, <1>6
<1>8. f * r \in Int /\ f * c \in Int
  BY <1>1, <1>2, <1>3
<1>9. f * r + h \in 0 .. b - 1
  BY <1>1, <1>2, <1>3, <1>4, <1>7, <1>8
<1>10. ASSUME r < c - 1 PROVE f * r + h < b - f /\ f * r + h + f = f * (r + 1) + h
  <2>1. f * (r + 2) <= f * c
    BY <1>2, <1>3, <1>5, <1>10
  <2>2. f * (r + 2) = f * r + f + f
    BY <1>1, <1>3
  <2> QED
    BY <1>1, <1>2, <1>3, <1>4, <1>8, <2>1, <2>2
<1>11. ASSUME NEW s \in 0 .. c - 1, f * r + h \in f * s .. f * s + f - 1 PROVE r = s
  <2>1. s \in Nat /\ s + 1 \in Nat /\ f * s \in Int /\ f * (s + 1) = f * s + f
    BY <1>1, <1>2
  <2>2. r + 1 <= s => f * (r + 1) <= f * s
    BY <1>5, <1>6, <2>1
  <2>3. s + 1 <= r => f * (s + 1) <= f * r
    BY <1>5, <1>6, <2>1
  <2> QED
    BY <1>1, <1>3, <1>4, <1>8, <1>11, <2>1, <2>2, <2>3
<1> QED
  BY <1>9, <1>10, <1>11 DEF f, b, c, Lines

Columns == 0 .. ConsWidth - 1
TextRows == 0 .. ConsHeight - 1
Cell == (Glyphs \cup {"none", "leftover"}) \X Nat
Pixels == [Lines -> [Columns -> Cell]]
Screen == [px : Pixels, row : TextRows, col : 0 .. ConsWidth]

\* The text that pixels show.
TextOf(px) == [r \in TextRows |-> [x \in Columns |-> CharAt(px, r, x)]]

\* fb_draw_glyph stays inside the cell, and the cell shows the character.
LEMMA DrawText ==
    ASSUME NEW px \in Pixels, NEW ch \in Glyphs, NEW x0 \in Columns, NEW r0 \in TextRows
    PROVE  /\ fb_draw_glyph(px, ch, x0, FONT_HEIGHT * r0) \in Pixels
           /\ TextOf(fb_draw_glyph(px, ch, x0, FONT_HEIGHT * r0)) = [TextOf(px) EXCEPT ![r0][x0] = ch]
<1> DEFINE y == FONT_HEIGHT * r0
           new == fb_draw_glyph(px, ch, x0, y)
           own == y .. y + FONT_HEIGHT - 1
           H == 0 .. FONT_HEIGHT - 1
<1>0. FONT_HEIGHT \in Nat /\ FONT_HEIGHT >= 2 /\ y \in Nat /\ 0 \in H
  <2>1. FONT_HEIGHT \in Nat /\ FONT_HEIGHT >= 2 /\ r0 \in Nat
    BY ConsoleAssumption, Rows DEF TextRows
  <2> QED
    BY <2>1
<1>1. new = [l \in Lines |-> IF l \in own THEN [px[l] EXCEPT ![x0] = <<ch, l - y>>] ELSE px[l]]
  BY DEF fb_draw_glyph
<1>2. new \in Pixels
  <2>1. ASSUME NEW l \in Lines, l \in own PROVE [px[l] EXCEPT ![x0] = <<ch, l - y>>] \in [Columns -> Cell]
    <3>1. l - y \in Nat
      BY <1>0, <2>1
    <3>2. <<ch, l - y>> \in Cell
      BY <3>1 DEF Cell
    <3>3. px[l] \in [Columns -> Cell]
      BY DEF Pixels
    <3> QED
      BY <3>2, <3>3
  <2> HIDE DEF new
  <2> QED
    BY <1>1, <2>1 DEF Pixels
<1>3. ASSUME NEW r \in TextRows, NEW x \in Columns, NEW h \in H
      PROVE  new[FONT_HEIGHT * r + h][x] = IF r = r0 /\ x = x0 THEN <<ch, h>> ELSE px[FONT_HEIGHT * r + h][x]
  <2> DEFINE l == FONT_HEIGHT * r + h
  <2>1. l \in Lines /\ (l \in own => r = r0)
    BY LineOf DEF TextRows
  <2>2. r = r0 => l \in own /\ l - y = h
    BY <1>0
  <2>3. px[l] \in [Columns -> Cell]
    BY <2>1 DEF Pixels
  <2> HIDE DEF new, l, own
  <2>4. new[l] = IF r = r0 THEN [px[l] EXCEPT ![x0] = <<ch, h>>] ELSE px[l]
    BY <1>1, <2>1, <2>2
  <2> QED
    BY <2>3, <2>4 DEF l
<1> HIDE DEF new
<1>4. ASSUME NEW r \in TextRows, NEW x \in Columns
      PROVE  CharAt(new, r, x) = IF r = r0 /\ x = x0 THEN ch ELSE CharAt(px, r, x)
  <2>1. FONT_HEIGHT * r + 0 = FONT_HEIGHT * r
    <3>1. FONT_HEIGHT * r \in Int
      BY <1>0, Rows DEF TextRows
    <3> QED BY <3>1
  <2>2. CASE r = r0 /\ x = x0
    <3>1. \A h \in H : new[FONT_HEIGHT * r + h][x] = <<ch, h>>
      BY <1>3, <2>2
    <3>2. new[FONT_HEIGHT * r][x] = <<ch, 0>>
      BY <1>0, <2>1, <3>1
    <3> QED
      BY <2>2, <3>1, <3>2 DEF CharAt
  <2>3. CASE ~ (r = r0 /\ x = x0)
    <3>1. \A h \in H : new[FONT_HEIGHT * r + h][x] = px[FONT_HEIGHT * r + h][x]
      BY <1>3, <2>3
    <3>2. new[FONT_HEIGHT * r][x] = px[FONT_HEIGHT * r][x]
      BY <1>0, <2>1, <3>1
    <3> QED
      BY <2>3, <3>1, <3>2 DEF CharAt
  <2> QED
    BY <2>2, <2>3
<1>5. TextOf(new) = [TextOf(px) EXCEPT ![r0][x0] = ch]
  <2> DEFINE t == [TextOf(px) EXCEPT ![r0][x0] = ch]
  <2>1. t = [r \in TextRows |-> IF r = r0 THEN [TextOf(px)[r] EXCEPT ![x0] = ch] ELSE TextOf(px)[r]]
    BY DEF TextOf
  <2>2. ASSUME NEW r \in TextRows
        PROVE  [x \in Columns |-> CharAt(new, r, x)] =
                   IF r = r0 THEN [TextOf(px)[r] EXCEPT ![x0] = ch] ELSE TextOf(px)[r]
    <3>1. TextOf(px)[r] = [x \in Columns |-> CharAt(px, r, x)]
      BY DEF TextOf
    <3> QED
      BY <1>4, <3>1
  <2> QED
    BY <2>1, <2>2 DEF TextOf
<1> QED
  BY <1>2, <1>5 DEF new

\* fb_scroll_up moves the rows up by one and clears the last one, although the
\* pixel lines below the last row move up with them.
LEMMA ScrollText ==
    ASSUME NEW px \in Pixels
    PROVE  /\ fb_scroll_up(px, FONT_HEIGHT) \in Pixels
           /\ TextOf(fb_scroll_up(px, FONT_HEIGHT)) =
                  [r \in TextRows |-> IF r < ConsHeight - 1 THEN TextOf(px)[r + 1] ELSE [x \in Columns |-> "none"]]
<1> DEFINE new == fb_scroll_up(px, FONT_HEIGHT)
           H == 0 .. FONT_HEIGHT - 1
<1>0. /\ FONT_HEIGHT \in Nat /\ FONT_HEIGHT >= 2 /\ 0 \in H /\ FONT_HEIGHT - 1 \in H /\ FbHeight \in Nat
      /\ ConsHeight \in Nat /\ ConsHeight >= 1
  BY ConsoleAssumption, Rows
<1>1. new = [l \in Lines |-> IF l < FbHeight - FONT_HEIGHT THEN px[l + FONT_HEIGHT] ELSE [x \in Columns |-> Blank]]
  BY DEF fb_scroll_up, Columns
<1>2. new \in Pixels
  <2>1. Blank \in Cell
    BY DEF Blank, Cell
  <2>2. ASSUME NEW l \in Lines, l < FbHeight - FONT_HEIGHT PROVE px[l + FONT_HEIGHT] \in [Columns -> Cell]
    <3>1. l + FONT_HEIGHT \in Lines
      BY <1>0, <2>2 DEF Lines
    <3> QED
      BY <3>1 DEF Pixels
  <2> HIDE DEF new
  <2> QED
    BY <1>1, <2>1, <2>2 DEF Pixels
<1> HIDE DEF new
<1>3. ASSUME NEW r \in TextRows, r < ConsHeight - 1, NEW x \in Columns
      PROVE  CharAt(new, r, x) = CharAt(px, r + 1, x)
  <2>1. \A h \in H : new[FONT_HEIGHT * r + h] = px[FONT_HEIGHT * (r + 1) + h]
    <3> SUFFICES ASSUME NEW h \in H PROVE new[FONT_HEIGHT * r + h] = px[FONT_HEIGHT * (r + 1) + h]
      OBVIOUS
    <3> DEFINE l == FONT_HEIGHT * r + h  m == FONT_HEIGHT * (r + 1) + h
    <3>1. l \in Lines /\ l < FbHeight - FONT_HEIGHT /\ l + FONT_HEIGHT = m
      BY <1>3, LineOf DEF TextRows
    <3> HIDE DEF l, m
    <3> QED
      BY <1>1, <3>1 DEF l, m
  <2>2. /\ FONT_HEIGHT * r + 0 = FONT_HEIGHT * r
        /\ FONT_HEIGHT * (r + 1) + 0 = FONT_HEIGHT * (r + 1)
    <3>1. FONT_HEIGHT * r \in Int /\ FONT_HEIGHT * (r + 1) \in Int
      BY <1>0 DEF TextRows
    <3> QED BY <3>1
  <2>3. new[FONT_HEIGHT * r] = px[FONT_HEIGHT * (r + 1)]
    BY <1>0, <2>1, <2>2
  <2> QED
    BY <2>1, <2>3 DEF CharAt
<1>4. ASSUME NEW r \in TextRows, ~ (r < ConsHeight - 1), NEW x \in Columns
      PROVE  CharAt(new, r, x) = "none"
  <2> DEFINE l == FONT_HEIGHT * r + (FONT_HEIGHT - 1)
  <2>1. r = ConsHeight - 1
    BY <1>0, <1>4 DEF TextRows
  <2>2. l \in Lines
    BY <1>0, LineOf DEF TextRows
  <2>3. ~ (l < FbHeight - FONT_HEIGHT)
    <3> DEFINE f == FONT_HEIGHT  c == ConsHeight  b == FbHeight
    <3>1. f \in Nat /\ c \in Nat /\ b \in Nat /\ b < f * c + f
      BY <1>0, Rows
    <3>2. l = f * (c - 1) + (f - 1)
      BY <2>1
    <3> HIDE DEF f, c, b, l
    <3>3. f * (c - 1) = f * c - f /\ f * c \in Int
      BY <3>1
    <3>4. ~ (l < b - f)
      BY <3>1, <3>2, <3>3
    <3> QED
      BY <3>4 DEF f, b
  <2> HIDE DEF l
  <2>4. new[l][x] = Blank
    BY <1>1, <2>2, <2>3
  <2>5. \A c : <<c, FONT_HEIGHT - 1>> # Blank
    BY <1>0 DEF Blank
  <2> QED
    BY <1>0, <2>4, <2>5 DEF CharAt, l
<1>5. ASSUME NEW r \in TextRows
      PROVE  [x \in Columns |-> CharAt(new, r, x)] =
                 IF r < ConsHeight - 1 THEN TextOf(px)[r + 1] ELSE [x \in Columns |-> "none"]
  <2>1. CASE r < ConsHeight - 1
    <3>1. r + 1 \in TextRows
      BY <1>0, <2>1 DEF TextRows
    <3>2. TextOf(px)[r + 1] = [x \in Columns |-> CharAt(px, r + 1, x)]
      BY <3>1 DEF TextOf
    <3> QED
      BY <1>3, <2>1, <3>2
  <2>2. CASE ~ (r < ConsHeight - 1)
    BY <1>4, <2>2
  <2> QED
    BY <2>1, <2>2
<1> QED
  BY <1>2, <1>5 DEF new, TextOf

\* A new line: the cursor goes down, or the text goes up.
LEMMA NewlineText ==
    ASSUME NEW s \in Screen
    PROVE  LET n == cons_newline_and_return(s) IN
           /\ n \in Screen /\ n.col = 0
           /\ \/ s.row < ConsHeight - 1 /\ n.row = s.row + 1 /\ TextOf(n.px) = TextOf(s.px)
              \/ /\ s.row = ConsHeight - 1 /\ n.row = s.row
                 /\ TextOf(n.px) = [r \in TextRows |-> IF r < ConsHeight - 1 THEN TextOf(s.px)[r + 1]
                                                       ELSE [x \in Columns |-> "none"]]
<1> DEFINE n == cons_newline_and_return(s)
<1>1. /\ ConsHeight \in Nat /\ ConsHeight >= 1 /\ ConsWidth \in Nat
      /\ s.px \in Pixels /\ s.row \in TextRows /\ s.row \in 0 .. ConsHeight - 1
  BY ConsoleAssumption, Rows DEF Screen, TextRows
<1>2. CASE s.row + 1 = ConsHeight
  <2>1. n = [px |-> fb_scroll_up(s.px, FONT_HEIGHT), row |-> s.row, col |-> 0]
    BY <1>2 DEF cons_newline_and_return
  <2>2. s.row = ConsHeight - 1
    BY <1>1, <1>2
  <2>3. n \in Screen
    BY <1>1, <2>1, ScrollText DEF Screen
  <2> QED
    BY <1>1, <2>1, <2>2, <2>3, ScrollText
<1>3. CASE s.row + 1 # ConsHeight
  <2>1. n = [px |-> s.px, row |-> s.row + 1, col |-> 0]
    BY <1>3 DEF cons_newline_and_return
  <2>2. s.row < ConsHeight - 1 /\ s.row + 1 \in TextRows
    BY <1>1, <1>3 DEF TextRows
  <2>3. n \in Screen
    BY <1>1, <2>1, <2>2 DEF Screen
  <2> QED
    BY <2>1, <2>2, <2>3
<1> QED
  BY <1>2, <1>3

-----------------------------------------------------------------------------
(* The steps of the writers. *)

Drawn == {w \in Writers : writer[w].pc = "drawn"}
Moved == {w \in Writers : writer[w].pc = "advanced"}

\* Formatting touches neither the screen nor the stage of a character.
LEMMA FormatQuiet ==
    ASSUME WriterOK, NEW w \in Writers,
           \/ vprintk_color(w) \/ FormatPlain(w) \/ FormatNumber(w) \/ FormatString(w)
           \/ FormatError(w) \/ FormatUnknown(w) \/ PrintDone(w)
    PROVE  screen' = screen /\ Drawn' = Drawn /\ Moved' = Moved
<1> DEFINE Calm == {"quiet", "format", "overrun"}
<1>1. writer \in [Writers -> GoodWriter]
  BY DEF WriterOK
<1> SUFFICES /\ screen' = screen /\ writer[w].pc \in Calm
             /\ \E u : writer' = [writer EXCEPT ![w] = u] /\ u.pc \in Calm
  BY <1>1 DEF Drawn, Moved
<1>2. /\ \A i, z, o : Consumed(writer[w], i, z, o).pc \in Calm
      /\ \A pc \in Calm : \A m : Call(pc, m).pc \in Calm
  BY DEF Consumed, Call
<1>3. CASE vprintk_color(w)
  BY <1>2, <1>3 DEF vprintk_color, At
<1>4. CASE FormatPlain(w)
  BY <1>2, <1>4 DEF FormatPlain, Formatting, At
<1>5. CASE FormatNumber(w)
  <2> DEFINE b == Converted(Kind(w), Arg(w))
             u == [pc |-> IF Len(b) <= PRINTK_BUF_SIZE THEN "format" ELSE "overrun",
                   fmt |-> Tail(writer[w].fmt), idle |-> TRUE, buf |-> b,
                   size |-> Len(b), out |-> b, num |-> <<Kind(w), Arg(w)>>]
  <2>1. writer' = [writer EXCEPT ![w] = u]
    BY <1>5 DEF FormatNumber
  <2>2. screen' = screen /\ writer[w].pc \in Calm
    BY <1>5 DEF FormatNumber, Formatting, At
  <2>3. u.pc \in Calm
    OBVIOUS
  <2> QED
    BY <2>1, <2>2, <2>3
<1>6. CASE FormatString(w)
  BY <1>2, <1>6 DEF FormatString, Formatting, At
<1>7. CASE FormatError(w)
  <2>1. PICK rest : writer' = [writer EXCEPT ![w] =
                                  Consumed(writer[w], TRUE, writer[w].size, Arg(w) \o rest)]
    BY <1>7 DEF FormatError
  <2>2. screen' = screen /\ writer[w].pc \in Calm
    BY <1>7 DEF FormatError, Formatting, At
  <2> QED
    BY <1>2, <2>1, <2>2
<1>8. CASE FormatUnknown(w)
  BY <1>2, <1>8 DEF FormatUnknown, Formatting, At
<1>9. CASE PrintDone(w)
  BY <1>2, <1>9 DEF PrintDone, At, Quiet
<1> QED
  BY <1>3, <1>4, <1>5, <1>6, <1>7, <1>8, <1>9

\* A writer inside a character is alone there when the timer does not strike
\* inside a character.
LEMMA Alone ==
    ASSUME WriterOK, ~SwitchInside, NEW w \in Writers, NEW pc, At(w, pc)
    PROVE  /\ pc = "format" => Drawn = {} /\ Moved = {}
           /\ pc = "drawn" => Drawn = {w} /\ Moved = {}
           /\ pc = "advanced" => Drawn = {} /\ Moved = {w}
<1>1. writer[w].pc = pc /\ \A v \in Writers \ {w} : writer[v].pc \notin {"drawn", "advanced"}
  BY DEF At, InCharacter
<1> QED
  BY <1>1 DEF Drawn, Moved

\* The stages of a character.
LEMMA PutStages ==
    ASSUME WriterOK, ~SwitchInside, NEW w \in Writers
    PROVE  /\ PutControl(w) => Drawn = {} /\ Moved = {} /\ Drawn' = {} /\ Moved' = {}
           /\ PutGlyph(w) => /\ Drawn = {} /\ Moved = {} /\ Drawn' = {w} /\ Moved' = {}
                             /\ Head(writer[w].out) \in Glyphs
           /\ PutAdvance(w) => Drawn = {w} /\ Moved = {} /\ Drawn' = {} /\ Moved' = {w}
           /\ PutWrap(w) => Drawn = {} /\ Moved = {w} /\ Drawn' = {} /\ Moved' = {}
<1>1. writer \in [Writers -> GoodWriter] /\ writer[w] \in Writer
  BY DEF WriterOK, GoodWriter
<1>2. ASSUME PutControl(w) PROVE Drawn = {} /\ Moved = {} /\ Drawn' = {} /\ Moved' = {}
  <2>1. At(w, "format") /\ writer' = [writer EXCEPT ![w] = [writer[w] EXCEPT !.out = Tail(writer[w].out)]]
    BY <1>2 DEF PutControl, Printing
  <2>2. [writer[w] EXCEPT !.out = Tail(writer[w].out)].pc = "format"
    BY <1>1, <2>1 DEF Writer, At
  <2> QED
    BY <1>1, <2>1, <2>2, Alone DEF Drawn, Moved
<1>3. ASSUME PutGlyph(w)
      PROVE  Drawn = {} /\ Moved = {} /\ Drawn' = {w} /\ Moved' = {} /\ Head(writer[w].out) \in Glyphs
  <2>1. At(w, "format") /\ writer' = [writer EXCEPT ![w] = [writer[w] EXCEPT !.pc = "drawn"]]
    BY <1>3 DEF PutGlyph, Printing
  <2>2. [writer[w] EXCEPT !.pc = "drawn"].pc = "drawn"
    BY <1>1 DEF Writer
  <2>3. writer[w].out \in Seq(Text) /\ writer[w].out # <<>> /\ Head(writer[w].out) \notin {"nl", "cr"}
    BY <1>1, <1>3 DEF PutGlyph, Printing, Writer
  <2>4. Head(writer[w].out) \in Glyphs
    BY <2>3 DEF Text
  <2> QED
    BY <1>1, <2>1, <2>2, <2>4, Alone DEF Drawn, Moved
<1>4. ASSUME PutAdvance(w) PROVE Drawn = {w} /\ Moved = {} /\ Drawn' = {} /\ Moved' = {w}
  <2>1. At(w, "drawn") /\ writer' = [writer EXCEPT ![w] = [writer[w] EXCEPT !.pc = "advanced"]]
    BY <1>4 DEF PutAdvance
  <2>2. [writer[w] EXCEPT !.pc = "advanced"].pc = "advanced"
    BY <1>1 DEF Writer
  <2> QED
    BY <1>1, <2>1, <2>2, Alone DEF Drawn, Moved
<1>5. ASSUME PutWrap(w) PROVE Drawn = {} /\ Moved = {w} /\ Drawn' = {} /\ Moved' = {}
  <2>1. At(w, "advanced")
    BY <1>5 DEF PutWrap
  <2>2. writer' = [writer EXCEPT ![w] = [writer[w] EXCEPT !.pc = "format", !.out = Tail(writer[w].out)]]
    BY <1>5, <1>1 DEF PutWrap
  <2>3. [writer[w] EXCEPT !.pc = "format", !.out = Tail(writer[w].out)].pc = "format"
    BY <1>1 DEF Writer
  <2> QED
    BY <1>1, <2>1, <2>2, <2>3, Alone DEF Drawn, Moved
<1> QED
  BY <1>2, <1>3, <1>4, <1>5

\* The cursor is past the last column only until the end of the line is noticed.
ScreenOK == screen \in Screen /\ (Moved = {} => screen.col < ConsWidth)

\* CursorInside's invariant.
LEMMA ScreenStep ==
    ASSUME WriterOK, ScreenOK, ~SwitchInside, NEW w \in Writers, vprintk_color(w) \/ Step(w)
    PROVE  ScreenOK'
<1>0. /\ ConsWidth \in Nat /\ ConsWidth >= 1 /\ screen \in Screen /\ screen.px \in Pixels
      /\ screen.row \in TextRows /\ screen.col \in 0 .. ConsWidth
  BY ConsoleAssumption DEF ScreenOK, Screen
<1>1. CASE \/ vprintk_color(w) \/ FormatPlain(w) \/ FormatNumber(w) \/ FormatString(w)
           \/ FormatError(w) \/ FormatUnknown(w) \/ PrintDone(w)
  BY <1>1, FormatQuiet DEF ScreenOK
<1>2. CASE PutControl(w)
  <2>1. screen.col < ConsWidth
    BY <1>2, PutStages DEF ScreenOK
  <2>2. CASE Head(writer[w].out) = "nl"
    <3>1. screen' = cons_newline_and_return(screen)
      BY <1>2, <2>2 DEF PutControl
    <3>2. screen' \in Screen /\ screen'.col = 0
      BY <1>0, <3>1, NewlineText
    <3> QED
      BY <1>0, <3>2 DEF ScreenOK
  <2>3. CASE Head(writer[w].out) # "nl"
    <3>1. screen' = [screen EXCEPT !.row = 0]
      BY <1>2, <2>3 DEF PutControl
    <3>2. 0 \in TextRows
      BY Rows DEF TextRows
    <3>3. screen' \in Screen /\ screen'.col = screen.col
      BY <1>0, <3>1, <3>2 DEF Screen
    <3> QED
      BY <2>1, <3>3 DEF ScreenOK
  <2> QED
    BY <2>2, <2>3
<1>3. CASE PutGlyph(w)
  <2> DEFINE ch == Head(writer[w].out)
  <2>1. screen.col < ConsWidth /\ ch \in Glyphs
    BY <1>3, PutStages DEF ScreenOK
  <2>2. screen' = [screen EXCEPT !.px = fb_draw_glyph(screen.px, ch, screen.col, FONT_HEIGHT * screen.row)]
    BY <1>3 DEF PutGlyph, draw_char
  <2>3. screen.col \in Columns
    BY <1>0, <2>1 DEF Columns
  <2> HIDE DEF ch
  <2>4. fb_draw_glyph(screen.px, ch, screen.col, FONT_HEIGHT * screen.row) \in Pixels
    BY <1>0, <2>1, <2>3, DrawText
  <2>5. screen' \in Screen /\ screen'.col = screen.col
    BY <1>0, <2>2, <2>4 DEF Screen
  <2> QED
    BY <2>1, <2>5 DEF ScreenOK
<1>4. CASE PutAdvance(w)
  <2>1. screen.col < ConsWidth /\ Moved' = {w}
    BY <1>4, PutStages DEF ScreenOK
  <2>2. screen' = [screen EXCEPT !.col = screen.col + 1]
    BY <1>4 DEF PutAdvance, Advanced
  <2>3. screen.col + 1 \in 0 .. ConsWidth
    BY <1>0, <2>1
  <2>4. screen' \in Screen
    BY <1>0, <2>2, <2>3 DEF Screen
  <2> QED
    BY <2>1, <2>4 DEF ScreenOK
<1>5. CASE PutWrap(w)
  <2>1. screen' = Wrapped(screen)
    BY <1>5 DEF PutWrap
  <2>2. CASE screen.col = ConsWidth
    <3>1. screen' \in Screen /\ screen'.col = 0
      BY <1>0, <2>1, <2>2, NewlineText DEF Wrapped
    <3> QED
      BY <1>0, <3>1 DEF ScreenOK
  <2>3. CASE screen.col # ConsWidth
    <3>1. screen' = screen /\ screen.col < ConsWidth
      BY <1>0, <2>1, <2>3 DEF Wrapped
    <3> QED
      BY <1>0, <3>1 DEF ScreenOK
  <2> QED
    BY <2>2, <2>3
<1> QED
  BY <1>1, <1>2, <1>3, <1>4, <1>5 DEF Step

\* The initial state.
LEMMA InitOK ==
    ASSUME Init
    PROVE  WriterOK /\ ScreenOK
<1>1. WriterOK
  <2>1. <<>> \in Seq(Text) /\ <<>> \in Seq(Item) /\ <<>> \in Seq(Glyphs)
    OBVIOUS
  <2>2. Quiet \in GoodWriter
    BY <2>1, ConsoleAssumption DEF Quiet, Call, GoodWriter, Writer, Stage
  <2> QED
    BY <2>2 DEF Init, WriterOK
<1>2. ScreenOK
  <2>1. Leftover \in Cell
    BY DEF Leftover, Cell
  <2>2. 0 \in TextRows /\ ConsWidth \in Nat /\ ConsWidth > 0 /\ 0 \in 0 .. ConsWidth
    BY ConsoleAssumption, Rows DEF TextRows
  <2>3. screen \in Screen /\ screen.col = 0
    BY <2>1, <2>2 DEF Init, Screen, Pixels, Columns
  <2> QED
    BY <2>2, <2>3 DEF ScreenOK
<1> QED
  BY <1>1, <1>2

\* A step that changes nothing keeps both invariants.
LEMMA StutterOK ==
    ASSUME UNCHANGED vars
    PROVE  (WriterOK => WriterOK') /\ (ScreenOK => ScreenOK') /\ Drawn' = Drawn /\ Moved' = Moved
  BY DEF vars, WriterOK, ScreenOK, Drawn, Moved

\* The calls stay well formed whatever the timer does.
LEMMA WriterInv == Spec => []WriterOK
<1>1. Init => WriterOK
  BY InitOK
<1>2. WriterOK /\ [Next]_vars => WriterOK'
  BY WriterStep, StutterOK DEF Next, Silence
<1> QED
  BY <1>1, <1>2, PTL DEF Spec

\* The inductive invariant of the screen.
LEMMA ScreenInv ==
    ASSUME ~SwitchInside
    PROVE  Spec => [](WriterOK /\ ScreenOK)
<1>1. Init => WriterOK /\ ScreenOK
  BY InitOK
<1>2. WriterOK /\ ScreenOK /\ [Next]_vars => (WriterOK /\ ScreenOK)'
  BY WriterStep, ScreenStep, StutterOK DEF Next, Silence
<1> QED
  BY <1>1, <1>2, PTL DEF Spec

\* When the timer does not strike inside a character, every character is drawn
\* with the cursor on the screen: draw_char and putc never leave the
\* framebuffer.
THEOREM ConsoleCursorInside ==
    ASSUME ~SwitchInside
    PROVE  Spec => []CursorInside
<1>1. WriterOK /\ ScreenOK => CursorInside
  <2> SUFFICES ASSUME ScreenOK, \A w \in Writers : ~InCharacter(w)
               PROVE  screen.row \in 0 .. ConsHeight - 1 /\ screen.col \in 0 .. ConsWidth - 1
    BY DEF CursorInside
  <2>1. Moved = {}
    BY DEF Moved, InCharacter
  <2>2. screen.row \in 0 .. ConsHeight - 1 /\ screen.col \in 0 .. ConsWidth /\ screen.col < ConsWidth
    BY <2>1 DEF ScreenOK, Screen, TextRows
  <2> QED
    BY <2>2, ConsoleAssumption
<1> QED
  BY <1>1, ScreenInv, PTL

\* The digits of a number behind its sign or its prefix.
LEMMA Behind ==
    ASSUME NEW pre \in Seq(Glyphs), NEW ds \in Seq(Glyphs), Len(ds) > 0
    PROVE  SubSeq(pre \o ds, Len(pre) + 1, Len(pre \o ds)) = ds
<1>1. Len(pre) \in Nat /\ Len(ds) \in Nat /\ Len(pre \o ds) = Len(pre) + Len(ds) /\ pre \o ds \in Seq(Glyphs)
  OBVIOUS
<1> DEFINE sub == SubSeq(pre \o ds, Len(pre) + 1, Len(pre \o ds))
<1>2. sub \in Seq(Glyphs) /\ Len(sub) = Len(ds)
  BY <1>1
<1>3. \A i \in 1 .. Len(ds) : sub[i] = ds[i]
  <2> SUFFICES ASSUME NEW i \in 1 .. Len(ds) PROVE sub[i] = ds[i]
    OBVIOUS
  <2>1. sub[i] = (pre \o ds)[Len(pre) + 1 + i - 1]
    BY <1>1
  <2>2. Len(pre) + 1 + i - 1 = Len(pre) + i
    BY <1>1
  <2>3. (pre \o ds)[Len(pre) + i] = ds[i]
    BY <1>1
  <2> QED
    BY <2>1, <2>2, <2>3
<1> QED
  BY <1>2, <1>3

\* What a conversion puts before the digits, and the digits.
LEMMA Parts ==
    ASSUME NEW kind \in Numeric, NEW val \in Int, kind \in {"u", "x", "p"} => val \in Nat,
           ~ (kind = "p" /\ val = 0)
    PROVE  LET base == IF kind \in {"u", "d"} THEN 10 ELSE 16
               skip == CASE kind = "p" -> 2 [] kind = "d" /\ val < 0 -> 1 [] OTHER -> 0
               mag == IF val < 0 THEN -val ELSE val
           IN  /\ base \in Bases /\ mag \in Nat
               /\ SubSeq(Converted(kind, val), skip + 1, Len(Converted(kind, val))) = bprintu64(mag, base)
<1>1. \A a \in Nat, base \in Bases : /\ bprintu64(a, base) \in Seq(Glyphs)
                                     /\ Len(bprintu64(a, base)) > 0
  <2> SUFFICES ASSUME NEW a \in Nat, NEW base \in Bases
               PROVE  bprintu64(a, base) \in Seq(Glyphs) /\ Len(bprintu64(a, base)) > 0
    OBVIOUS
  <2>1. bprintu64(a, base) \in Seq(Digits) /\ Len(bprintu64(a, base)) = NumDigits(a, base)
    BY NumeralDef
  <2>2. NumDigits(a, base) \in Nat /\ NumDigits(a, base) >= 1
    BY NumDigitsDef
  <2> QED
    BY <2>1, <2>2, DigitsAreGlyphs
<1>2. 10 \in Bases /\ 16 \in Bases
  BY DEF Bases
<1>3. \A a \in Nat, base \in Bases :
         SubSeq(bprintu64(a, base), 0 + 1, Len(bprintu64(a, base))) = bprintu64(a, base)
  <2> SUFFICES ASSUME NEW t \in Seq(Glyphs) PROVE SubSeq(t, 0 + 1, Len(t)) = t
    BY <1>1
  <2> QED
    OBVIOUS
<1>4. CASE kind = "u"
  <2>1. val \in Nat /\ ~ (val < 0)
    BY <1>4
  <2> QED
    BY <1>2, <1>3, <1>4, <2>1 DEF Converted
<1>5. CASE kind = "x"
  <2>1. val \in Nat /\ ~ (val < 0)
    BY <1>5
  <2> QED
    BY <1>2, <1>3, <1>5, <2>1 DEF Converted
<1>6. CASE kind = "d" /\ ~ (val < 0)
  <2>1. val \in Nat /\ Converted(kind, val) = bprintu64(val, 10)
    BY <1>6 DEF Converted, bprints64
  <2> QED
    BY <1>2, <1>3, <1>6, <2>1
<1>7. CASE kind = "d" /\ val < 0
  <2> DEFINE t == bprintu64(-val, 10)
  <2>1. Converted(kind, val) = <<"-">> \o t
    BY <1>7 DEF Converted, bprints64
  <2>2. -val \in Nat
    BY <1>7
  <2>3. t \in Seq(Glyphs) /\ Len(t) > 0
    BY <1>1, <1>2, <2>2
  <2>4. <<"-">> \in Seq(Glyphs) /\ Len(<<"-">>) = 1
    BY ConsoleAssumption
  <2> HIDE DEF t
  <2>5. SubSeq(<<"-">> \o t, 1 + 1, Len(<<"-">> \o t)) = t
    BY <2>3, <2>4, Behind
  <2> QED
    BY <1>2, <1>7, <2>1, <2>2, <2>5 DEF t
<1>8. CASE kind = "p"
  <2> DEFINE t == bprintu64(val, 16)
  <2>1. Converted(kind, val) = <<"0", "x">> \o t /\ val \in Nat /\ ~ (val < 0)
    BY <1>8 DEF Converted, bprintptr
  <2>2. t \in Seq(Glyphs) /\ Len(t) > 0
    BY <1>1, <1>2, <2>1
  <2>3. "0" \in Digits
    BY DEF Digits, digits
  <2>4. <<"0", "x">> \in Seq(Glyphs) /\ Len(<<"0", "x">>) = 2
    BY <2>3, ConsoleAssumption DEF Numeric
  <2> HIDE DEF t
  <2>5. SubSeq(<<"0", "x">> \o t, 2 + 1, Len(<<"0", "x">> \o t)) = t
    BY <2>2, <2>4, Behind
  <2> QED
    BY <1>2, <1>8, <2>1, <2>5 DEF t
<1> QED
  BY <1>4, <1>5, <1>6, <1>7, <1>8 DEF Numeric

\* Whatever number is printed, and wherever the timer strikes: while size says
\* that a number is in buf, its digits are the number's, without leading zeros.
THEOREM ConsoleNumeralsExact == Spec => []NumeralsExact
<1>1. WriterOK => NumeralsExact
  <2> SUFFICES ASSUME WriterOK, NEW w \in Writers,
                      writer[w].num # <<>> /\ writer[w].size > 0 /\ writer[w].num # <<"p", 0>>
               PROVE  LET kind == writer[w].num[1]  val == writer[w].num[2]
                          base == IF kind \in {"u", "d"} THEN 10 ELSE 16
                          skip == CASE kind = "p" -> 2 [] kind = "d" /\ val < 0 -> 1 [] OTHER -> 0
                          ds == SubSeq(writer[w].buf, skip + 1, writer[w].size)
                      IN  /\ NumeralValue(ds, base) = IF val < 0 THEN -val ELSE val
                          /\ Len(ds) > 1 => ds[1] # "0"
    BY DEF NumeralsExact
  <2> DEFINE kind == writer[w].num[1]  val == writer[w].num[2]
  <2>1. writer[w] \in GoodWriter /\ writer[w].num \in Numeric \X Int
    BY DEF WriterOK, GoodWriter, Writer
  <2>2. kind \in Numeric /\ val \in Int /\ writer[w].num = <<kind, val>>
    BY <2>1
  <2>3. kind \in {"u", "x", "p"} => val \in Nat
    BY <2>1, <2>2, TypedNumbers DEF GoodWriter
  <2>4. ~ (kind = "p" /\ val = 0)
    BY <2>2
  <2>5. writer[w].buf = Converted(kind, val) /\ writer[w].size = Len(Converted(kind, val))
    BY <2>1 DEF GoodWriter
  <2> DEFINE base == IF kind \in {"u", "d"} THEN 10 ELSE 16
             skip == CASE kind = "p" -> 2 [] kind = "d" /\ val < 0 -> 1 [] OTHER -> 0
             mag == IF val < 0 THEN -val ELSE val
             ds == SubSeq(writer[w].buf, skip + 1, writer[w].size)
  <2>6. base \in Bases /\ mag \in Nat /\ ds = bprintu64(mag, base)
    <3> HIDE DEF kind, val
    <3> QED BY <2>2, <2>3, <2>4, <2>5, Parts
  <2>7. NumeralValue(ds, base) = mag /\ (Len(ds) > 1 => ds[1] # "0")
    <3> HIDE DEF base, mag, ds
    <3> QED BY <2>6, NumeralOfNumber
  <2> QED
    BY <2>7, Zenon
<1> QED
  BY <1>1, WriterInv, PTL

-----------------------------------------------------------------------------
(* The console implements the terminal. *)

\* Shown, by what the writers are doing.
LEMMA ShownDef ==
    /\ Drawn = {} /\ Moved = {} => Shown = screen
    /\ Drawn # {} => Shown = Wrapped(Advanced(screen))
    /\ Drawn = {} /\ Moved # {} => Shown = Wrapped(screen)
  BY DEF Shown, Drawn, Moved, InCharacter

\* The same of the next state.
LEMMA ShownDefPrime ==
    /\ Drawn' = {} /\ Moved' = {} => Shown' = screen'
    /\ Drawn' # {} => Shown' = Wrapped(Advanced(screen'))
    /\ Drawn' = {} /\ Moved' # {} => Shown' = Wrapped(screen')
  BY DEF Shown, Drawn, Moved, InCharacter, Wrapped, Advanced, cons_newline_and_return, fb_scroll_up

\* Before anything is printed no cell shows a character, whatever the boot
\* loader left on the screen.
LEMMA InitTerm ==
    ASSUME Init
    PROVE  Term!TInit
<1>1. /\ FONT_HEIGHT \in Nat /\ FONT_HEIGHT >= 2 /\ 1 \in 0 .. FONT_HEIGHT - 1
  BY ConsoleAssumption
<1>2. Drawn = {} /\ Moved = {}
  BY DEF Init, Drawn, Moved, Quiet, Call
<1>3. Shown = screen /\ screen.row = 0 /\ screen.col = 0
  BY <1>2, ShownDef DEF Init
<1>4. ASSUME NEW r \in TextRows, NEW x \in Columns PROVE CharAt(screen.px, r, x) = "none"
  <2>1. FONT_HEIGHT * r + 1 \in Lines
    BY <1>1, LineOf DEF TextRows
  <2>2. screen.px[FONT_HEIGHT * r + 1][x] = Leftover
    BY <2>1 DEF Init, Columns
  <2>3. \A c : <<c, 1>> # Leftover
    BY DEF Leftover
  <2> QED
    BY <1>1, <2>2, <2>3 DEF CharAt
<1>5. ShownText = [r \in TextRows |-> [x \in Columns |-> "none"]]
  BY <1>3, <1>4 DEF ShownText, TextRows, Columns
<1> QED
  BY <1>3, <1>5 DEF Term!TInit, TextRows, Columns

\* The terminal's text is that of the pixels shown.
LEMMA ShownTextDef ==
    ShownText = TextOf(Shown.px) /\ ShownText' = TextOf(Shown'.px)
  BY DEF ShownText, TextOf, TextRows, Columns, CharAt

\* A new line after s shows the terminal's next row.
LEMMA NextRowTerm ==
    ASSUME NEW s \in Screen, s.row = Shown.row, Shown' = cons_newline_and_return(s)
    PROVE  Term!NextRow(TextOf(s.px))
<1> DEFINE n == cons_newline_and_return(s)
<1>1. /\ n.col = 0
      /\ \/ s.row < ConsHeight - 1 /\ n.row = s.row + 1 /\ TextOf(n.px) = TextOf(s.px)
         \/ /\ s.row = ConsHeight - 1 /\ n.row = s.row
            /\ TextOf(n.px) = [r \in TextRows |-> IF r < ConsHeight - 1 THEN TextOf(s.px)[r + 1]
                                                  ELSE [x \in Columns |-> "none"]]
  BY NewlineText
<1>2. ShownText' = TextOf(n.px) /\ Shown'.col = n.col /\ Shown'.row = n.row
  BY ShownTextDef
<1> HIDE DEF n
<1> QED
  BY <1>1, <1>2 DEF Term!NextRow, TextRows, Columns

\* Every step of a writer is a step of the terminal or shows nothing new.
LEMMA StepTerm ==
    ASSUME WriterOK, ScreenOK, ~SwitchInside, NEW w \in Writers, vprintk_color(w) \/ Step(w)
    PROVE  Term!TNext \/ UNCHANGED <<ShownText, Shown.row, Shown.col>>
<1>0. /\ ConsWidth \in Nat /\ ConsWidth >= 1 /\ screen \in Screen /\ screen.px \in Pixels
      /\ screen.row \in TextRows /\ screen.col \in 0 .. ConsWidth
  BY ConsoleAssumption DEF ScreenOK, Screen
<1>1. ASSUME Shown' = Shown PROVE UNCHANGED <<ShownText, Shown.row, Shown.col>>
  BY <1>1, ShownTextDef
<1>2. CASE \/ vprintk_color(w) \/ FormatPlain(w) \/ FormatNumber(w) \/ FormatString(w)
           \/ FormatError(w) \/ FormatUnknown(w) \/ PrintDone(w)
  <2>1. screen' = screen /\ Drawn' = Drawn /\ Moved' = Moved
    BY <1>2, FormatQuiet
  <2> QED
    BY <1>1, <2>1, ShownDef, ShownDefPrime
<1>3. CASE PutControl(w)
  <2>1. Shown = screen /\ Shown' = screen'
    BY <1>3, PutStages, ShownDef, ShownDefPrime
  <2>2. CASE Head(writer[w].out) = "nl"
    <3>1. Shown' = cons_newline_and_return(screen)
      BY <1>3, <2>1, <2>2 DEF PutControl
    <3>2. Term!NextRow(TextOf(screen.px))
      BY <1>0, <2>1, <3>1, NextRowTerm
    <3>3. Term!NextRow(ShownText)
      BY <2>1, <3>2, ShownTextDef
    <3> QED
      BY <3>3 DEF Term!TNext, Term!Newline
  <2>3. CASE Head(writer[w].out) # "nl"
    <3>1. screen' = [screen EXCEPT !.row = 0]
      BY <1>3, <2>3 DEF PutControl
    <3>2. screen'.row = 0 /\ screen'.col = screen.col /\ screen'.px = screen.px
      BY <1>0, <3>1 DEF Screen
    <3>3. Term!Home
      BY <2>1, <3>2, ShownTextDef DEF Term!Home
    <3> QED
      BY <3>3 DEF Term!TNext
  <2> QED
    BY <2>2, <2>3
<1>4. CASE PutGlyph(w)
  <2> DEFINE ch == Head(writer[w].out)
             new == fb_draw_glyph(screen.px, ch, screen.col, FONT_HEIGHT * screen.row)
             adv == [px |-> new, row |-> screen.row, col |-> screen.col + 1]
             t == [TextOf(screen.px) EXCEPT ![screen.row][screen.col] = ch]
  <2>1. screen.col < ConsWidth /\ ch \in Glyphs /\ Shown = screen /\ Shown' = Wrapped(Advanced(screen'))
    BY <1>4, PutStages, ShownDef, ShownDefPrime DEF ScreenOK
  <2>2. screen.col \in Columns /\ screen.col \in Nat /\ screen.col + 1 \in 0 .. ConsWidth
    BY <1>0, <2>1 DEF Columns
  <2>3. new \in Pixels /\ TextOf(new) = t
    <3> DEFINE p == screen.px  x0 == screen.col  r0 == screen.row
    <3>1. p \in Pixels /\ ch \in Glyphs /\ x0 \in Columns /\ r0 \in TextRows
      BY <1>0, <2>1, <2>2
    <3> HIDE DEF ch, p, x0, r0
    <3>2. /\ fb_draw_glyph(p, ch, x0, FONT_HEIGHT * r0) \in Pixels
          /\ TextOf(fb_draw_glyph(p, ch, x0, FONT_HEIGHT * r0)) = [TextOf(p) EXCEPT ![r0][x0] = ch]
      BY <3>1, DrawText
    <3> QED
      BY <3>2 DEF p, x0, r0
  <2>4. screen' = [screen EXCEPT !.px = new]
    BY <1>4 DEF PutGlyph, draw_char
  <2> HIDE DEF ch, new, t
  <2>5. Advanced(screen') = adv /\ adv \in Screen
    <3>1. screen'.px = new /\ screen'.row = screen.row /\ screen'.col = screen.col /\ screen' \in Screen
      BY <1>0, <2>3, <2>4 DEF Screen
    <3>2. screen' = [px |-> new, row |-> screen.row, col |-> screen.col]
      BY <3>1 DEF Screen
    <3> QED
      BY <1>0, <2>2, <2>3, <3>2 DEF Advanced, Screen
  <2>6. ShownText = TextOf(screen.px)
    BY <2>1, ShownTextDef
  <2>7. t = [ShownText EXCEPT ![Shown.row][Shown.col] = ch]
    BY <2>1, <2>6 DEF t
  <2>8. CASE screen.col < ConsWidth - 1
    <3>1. Shown' = adv
      BY <1>0, <2>1, <2>2, <2>5, <2>8 DEF Wrapped
    <3>2. ShownText' = t /\ Shown'.col = Shown.col + 1 /\ Shown'.row = Shown.row
      BY <2>1, <2>3, <3>1, ShownTextDef
    <3>3. Term!Type(ch)
      BY <2>1, <2>7, <2>8, <3>2 DEF Term!Type
    <3> QED
      BY <2>1, <3>3 DEF Term!TNext
  <2>9. CASE ~ (screen.col < ConsWidth - 1)
    <3>1. screen.col = ConsWidth - 1 /\ adv.col = ConsWidth
      BY <1>0, <2>1, <2>2, <2>9
    <3>2. Shown' = cons_newline_and_return(adv)
      BY <2>1, <2>5, <3>1 DEF Wrapped
    <3>3. Term!NextRow(TextOf(adv.px))
      BY <2>1, <2>5, <3>2, NextRowTerm
    <3>4. Term!NextRow(t)
      BY <2>3, <3>3
    <3>5. Term!Type(ch)
      BY <2>1, <2>7, <3>1, <3>4 DEF Term!Type
    <3> QED
      BY <2>1, <3>5 DEF Term!TNext
  <2> QED
    BY <2>8, <2>9
<1>5. CASE PutAdvance(w)
  <2>1. Shown = Wrapped(Advanced(screen)) /\ Shown' = Wrapped(screen')
    BY <1>5, PutStages, ShownDef, ShownDefPrime
  <2> QED
    BY <1>1, <1>5, <2>1 DEF PutAdvance
<1>6. CASE PutWrap(w)
  <2>1. Shown = Wrapped(screen) /\ Shown' = screen'
    BY <1>6, PutStages, ShownDef, ShownDefPrime
  <2> QED
    BY <1>1, <1>6, <2>1 DEF PutWrap
<1> QED
  BY <1>2, <1>3, <1>4, <1>5, <1>6 DEF Step

\* When the timer does not strike inside a character, the pixels show what a
\* terminal would: the console with its scrolling framebuffer implements
\* Terminal, for every font, screen size and sequence of messages.
THEOREM ConsoleIsTerminal ==
    ASSUME ~SwitchInside
    PROVE  Spec => ScreenShowsText
<1>1. Init => Term!TInit
  BY InitTerm
<1>2. WriterOK /\ ScreenOK /\ [Next]_vars => [Term!TNext]_<<ShownText, Shown.row, Shown.col>>
  <2>1. ASSUME UNCHANGED vars PROVE UNCHANGED <<ShownText, Shown.row, Shown.col>>
    <3>1. screen' = screen /\ Drawn' = Drawn /\ Moved' = Moved
      BY <2>1, StutterOK DEF vars
    <3>2. Shown' = Shown
      BY <3>1, ShownDef, ShownDefPrime
    <3> QED
      BY <3>2, ShownTextDef
  <2> QED
    BY <2>1, StepTerm DEF Next, Silence
<1> QED
  BY <1>1, <1>2, ScreenInv, PTL DEF Spec, ScreenShowsText, Term!TSpec

-----------------------------------------------------------------------------
(* The size of buf, with the integers of the build: int and unsigned have 32 *)
(* bits.  A pointer fits as long as it has at most 9 digits.                 *)

TwoTo31 == 32768 * 65536
TwoTo32 == 65536 * 65536

LEMMA Powers == Pow2[31] = TwoTo31 /\ Pow2[32] = TwoTo32 /\ Pow2[36] = 16 * TwoTo32
<1>1. \A n \in Nat : Pow2[n] \in Nat /\ Pow2[n + 1] = 2 * Pow2[n]
  BY Pow2Def
<1>2. \A n \in Nat : Pow2[n + 4] = 16 * Pow2[n]
  <2> SUFFICES ASSUME NEW n \in Nat PROVE Pow2[n + 4] = 16 * Pow2[n]
    OBVIOUS
  <2>1. n + 1 \in Nat /\ n + 2 \in Nat /\ n + 3 \in Nat
    OBVIOUS
  <2>2. Pow2[n + 1] = 2 * Pow2[n]
    BY <1>1
  <2>3. Pow2[n + 2] = 2 * Pow2[n + 1]
    BY <1>1, <2>1
  <2>4. Pow2[n + 3] = 2 * Pow2[n + 2]
    BY <1>1, <2>1
  <2>5. Pow2[n + 4] = 2 * Pow2[n + 3]
    BY <1>1, <2>1
  <2> QED
    BY <1>1, <2>1, <2>2, <2>3, <2>4, <2>5
<1>3. Pow2[3] = 8
  <2>1. Pow2[0] = 1 /\ Pow2[1] = 2 * Pow2[0] /\ Pow2[2] = 2 * Pow2[1] /\ Pow2[3] = 2 * Pow2[2]
    BY <1>1, Pow2Def
  <2> QED
    BY <2>1
<1>4. Pow2[15] = 32768
  <2>1. Pow2[7] = 16 * Pow2[3] /\ Pow2[11] = 16 * Pow2[7] /\ Pow2[15] = 16 * Pow2[11]
    BY <1>2
  <2> QED
    BY <1>3, <2>1
<1>5. Pow2[31] = 32768 * 65536
  <2>1. Pow2[19] = 16 * Pow2[15] /\ Pow2[23] = 16 * Pow2[19]
    BY <1>2
  <2>2. Pow2[27] = 16 * Pow2[23] /\ Pow2[31] = 16 * Pow2[27]
    BY <1>2
  <2> QED
    BY <1>4, <2>1, <2>2
<1>6. Pow2[32] = 2 * Pow2[31] /\ Pow2[36] = 16 * Pow2[32]
  BY <1>1, <1>2
<1> QED
  BY <1>5, <1>6 DEF TwoTo31, TwoTo32

\* A loop that has come to 0 has written that many digits or fewer.
LEMMA FewDigits ==
    ASSUME NEW a \in Nat, NEW base \in Bases, NEW n \in Nat, n >= 1, Quotient(a, base)[n] = 0
    PROVE  Len(bprintu64(a, base)) <= n
<1> DEFINE m == NumDigits(a, base)  q == Quotient(a, base)
<1>1. m \in Nat /\ m >= 1 /\ (\A i \in 1 .. m - 1 : q[i] # 0) /\ Len(bprintu64(a, base)) = m
  BY NumDigitsDef, NumeralDef
<1>2. q[n] = 0
  OBVIOUS
<1> HIDE DEF m, q
<1>3. m <= n
  BY <1>1, <1>2
<1> QED
  BY <1>1, <1>3

\* One round of the loop takes a digit off.
LEMMA Round ==
    ASSUME NEW a \in Nat, NEW base \in Bases, NEW n \in Nat, NEW c \in Nat,
           Quotient(a, base)[n] < c * base
    PROVE  Quotient(a, base)[n + 1] < c
<1> DEFINE q == Quotient(a, base)
<1>1. q[n] \in Nat /\ q[n + 1] = q[n] \div base /\ q[n] < c * base
  BY QuotientDef
<1> HIDE DEF q
<1>2. q[n + 1] < c
  BY <1>1 DEF Bases
<1> QED
  BY <1>2 DEF q

\* 32 bits are at most 10 decimal digits.
LEMMA TenDigits ==
    ASSUME NEW a \in Nat, a < TwoTo32
    PROVE  Len(bprintu64(a, 10)) <= 10
<1> DEFINE q == Quotient(a, 10)
<1>0. a < 1000000000 * 10
  BY DEF TwoTo32
<1>1. 10 \in Bases
  BY DEF Bases
<1>a. q \in [Nat -> Nat] /\ q[0] = a
  BY <1>1, QuotientDef
<1>3. \A n \in Nat, c \in Nat : q[n] < c * 10 => q[n + 1] < c
  BY <1>1, Round
<1> HIDE DEF q
<1>2. q[0] < 1000000000 * 10 /\ q[10] \in Nat
  BY <1>0, <1>a
<1>4. q[1] < 100000000 * 10
  BY <1>2, <1>3
<1>5. q[2] < 10000000 * 10
  BY <1>3, <1>4
<1>6. q[3] < 1000000 * 10
  BY <1>3, <1>5
<1>7. q[4] < 100000 * 10
  BY <1>3, <1>6
<1>8. q[5] < 10000 * 10
  BY <1>3, <1>7
<1>9. q[6] < 1000 * 10
  BY <1>3, <1>8
<1>10. q[7] < 100 * 10
  BY <1>3, <1>9
<1>11. q[8] < 10 * 10
  BY <1>3, <1>10
<1>12. q[9] < 1 * 10
  BY <1>3, <1>11
<1>13. q[10] < 1
  BY <1>3, <1>12
<1>14. Quotient(a, 10)[10] = 0
  BY <1>2, <1>13 DEF q
<1> QED
  BY <1>1, <1>14, FewDigits

\* 36 bits are at most 9 hexadecimal digits.
LEMMA NineDigits ==
    ASSUME NEW a \in Nat, a < 16 * TwoTo32
    PROVE  Len(bprintu64(a, 16)) <= 9
<1> DEFINE q == Quotient(a, 16)
<1>0. a < (65536 * 65536) * 16
  BY DEF TwoTo32
<1>1. 16 \in Bases
  BY DEF Bases
<1>a. q \in [Nat -> Nat] /\ q[0] = a
  BY <1>1, QuotientDef
<1>3. \A n \in Nat, c \in Nat : q[n] < c * 16 => q[n + 1] < c
  BY <1>1, Round
<1> HIDE DEF q
<1>2. q[0] < (65536 * 65536) * 16 /\ q[9] \in Nat
  BY <1>0, <1>a
<1>4. q[1] < 268435456 * 16
  BY <1>2, <1>3
<1>5. q[2] < 16777216 * 16
  BY <1>3, <1>4
<1>6. q[3] < 1048576 * 16
  BY <1>3, <1>5
<1>7. q[4] < 65536 * 16
  BY <1>3, <1>6
<1>8. q[5] < 4096 * 16
  BY <1>3, <1>7
<1>9. q[6] < 256 * 16
  BY <1>3, <1>8
<1>10. q[7] < 16 * 16
  BY <1>3, <1>9
<1>11. q[8] < 1 * 16
  BY <1>3, <1>10
<1>12. q[9] < 1
  BY <1>3, <1>11
<1>13. Quotient(a, 16)[9] = 0
  BY <1>2, <1>12 DEF q
<1> QED
  BY <1>1, <1>13, FewDigits

\* A loop that did not come to 0 has written another digit.
LEMMA RoundMore ==
    ASSUME NEW a \in Nat, NEW base \in Bases, NEW n \in Nat, NEW c \in Nat,
           Quotient(a, base)[n] >= c * base
    PROVE  Quotient(a, base)[n + 1] >= c
<1> DEFINE q == Quotient(a, base)
<1>1. q[n] \in Nat /\ q[n + 1] = q[n] \div base /\ q[n] >= c * base
  BY QuotientDef
<1> HIDE DEF q
<1>2. q[n + 1] >= c
  BY <1>1 DEF Bases
<1> QED
  BY <1>2 DEF q

\* A longer number has at least 10 hexadecimal digits.
LEMMA MoreDigits ==
    ASSUME NEW a \in Nat, a >= 16 * TwoTo32
    PROVE  Len(bprintu64(a, 16)) >= 10
<1> DEFINE q == Quotient(a, 16)  m == NumDigits(a, 16)
<1>0. a >= (65536 * 65536) * 16
  BY DEF TwoTo32
<1>1. 16 \in Bases
  BY DEF Bases
<1>a. q \in [Nat -> Nat] /\ q[0] = a
  BY <1>1, QuotientDef
<1>b. m \in Nat /\ m >= 1 /\ q[m] = 0 /\ Len(bprintu64(a, 16)) = m
  BY <1>1, NumDigitsDef, NumeralDef
<1>3. \A n \in Nat, c \in Nat : q[n] >= c * 16 => q[n + 1] >= c
  BY <1>1, RoundMore
<1> HIDE DEF q, m
<1>2. q[0] >= (65536 * 65536) * 16
  BY <1>0, <1>a
<1>4. q[1] >= 268435456 * 16
  BY <1>2, <1>3
<1>5. q[2] >= 16777216 * 16
  BY <1>3, <1>4
<1>6. q[3] >= 1048576 * 16
  BY <1>3, <1>5
<1>7. q[4] >= 65536 * 16
  BY <1>3, <1>6
<1>8. q[5] >= 4096 * 16
  BY <1>3, <1>7
<1>9. q[6] >= 256 * 16
  BY <1>3, <1>8
<1>10. q[7] >= 16 * 16
  BY <1>3, <1>9
<1>11. q[8] >= 1 * 16
  BY <1>3, <1>10
<1>12. q[9] >= 1
  BY <1>3, <1>11
<1>13. /\ q[1] # 0 /\ q[2] # 0 /\ q[3] # 0 /\ q[4] # 0 /\ q[5] # 0 /\ q[6] # 0 /\ q[7] # 0
       /\ q[8] # 0 /\ q[9] # 0
  BY <1>4, <1>5, <1>6, <1>7, <1>8, <1>9, <1>10, <1>11, <1>12
<1>14. m \notin 1 .. 9
  <2>1. \A n \in 1 .. 9 : n \in {1, 2, 3, 4, 5, 6, 7, 8, 9}
    OBVIOUS
  <2> QED
    BY <1>b, <1>13, <2>1
<1> QED
  BY <1>b, <1>14

LEMMA Ranges ==
    /\ \A v \in 0 .. TwoTo32 - 1 : v \in Nat /\ v < TwoTo32 /\ v < 16 * TwoTo32
    /\ \A v \in -TwoTo31 .. TwoTo31 - 1 : v \in Int /\ v >= -TwoTo31 /\ v < TwoTo31
<1>1. PICK a \in Nat, b \in Nat : a = TwoTo31 /\ b = TwoTo32
  BY DEF TwoTo31, TwoTo32
<1>2. \A v \in 0 .. b - 1 : v \in Nat /\ v < b /\ v < 16 * b
  OBVIOUS
<1>3. \A v \in -a .. a - 1 : v \in Int /\ v >= -a /\ v < a
  OBVIOUS
<1> QED
  BY <1>1, <1>2, <1>3, Zenon

\* Only a pointer of more than 9 digits needs more than 11 characters.
LEMMA ConvertedLength ==
    ASSUME INT_BITS = 32, NEW kind \in Numeric, NEW val, Typed(kind, val)
    PROVE  Len(Converted(kind, val)) > 11 <=> kind = "p" /\ val >= 16 * TwoTo32
<1>1. /\ kind \in {"u", "x"} => val \in Nat /\ val < TwoTo32 /\ val < 16 * TwoTo32
      /\ kind = "d" => val \in Int /\ val >= -TwoTo31 /\ val < TwoTo31
      /\ kind = "p" => val \in Nat
  <2>1. Pow2[INT_BITS] = TwoTo32 /\ Pow2[INT_BITS - 1] = TwoTo31
    BY Powers
  <2>2. /\ kind \in {"u", "x"} => val \in 0 .. TwoTo32 - 1
        /\ kind = "d" => val \in -TwoTo31 .. TwoTo31 - 1
        /\ kind = "p" => val \in Nat
    BY <2>1, Zenon DEF Typed
  <2> QED
    BY <2>2, Ranges, Zenon
<1>2. \A a \in Nat, base \in Bases : bprintu64(a, base) \in Seq(Digits) /\ Len(bprintu64(a, base)) \in Nat
  BY NumeralDef
<1>3. 10 \in Bases /\ 16 \in Bases
  BY DEF Bases
<1>4. CASE kind = "u"
  <2>1. Len(bprintu64(val, 10)) <= 10 /\ Len(bprintu64(val, 10)) \in Nat
    BY <1>1, <1>2, <1>3, <1>4, TenDigits
  <2> QED
    BY <1>4, <2>1 DEF Converted
<1>5. CASE kind = "x"
  <2>1. Len(bprintu64(val, 16)) <= 9 /\ Len(bprintu64(val, 16)) \in Nat
    BY <1>1, <1>2, <1>3, <1>5, NineDigits
  <2> QED
    BY <1>5, <2>1 DEF Converted
<1>6. CASE kind = "d"
  <2>1. val \in Int /\ val >= -TwoTo31 /\ val < TwoTo31 /\ Converted(kind, val) = bprints64(val, 10)
    BY <1>1, <1>6 DEF Converted
  <2>2. CASE val < 0
    <3>1. -val \in Nat /\ -val < TwoTo32
      BY <2>1, <2>2 DEF TwoTo31, TwoTo32
    <3> DEFINE t == bprintu64(-val, 10)
    <3>2. t \in Seq(Digits) /\ Len(t) \in Nat /\ Len(t) <= 10
      BY <1>2, <1>3, <3>1, TenDigits
    <3>3. bprints64(val, 10) = <<"-">> \o t
      BY <2>2 DEF bprints64
    <3> HIDE DEF t
    <3>4. <<"-">> \in Seq(Digits \cup {"-"}) /\ t \in Seq(Digits \cup {"-"})
      BY <3>2
    <3>5. Len(<<"-">> \o t) = 1 + Len(t)
      BY <3>4
    <3>6. Len(Converted(kind, val)) = 1 + Len(t)
      BY <2>1, <3>3, <3>5
    <3> QED
      BY <1>6, <3>2, <3>6
  <2>3. CASE ~ (val < 0)
    <3>1. val \in Nat /\ val < TwoTo32 /\ bprints64(val, 10) = bprintu64(val, 10)
      BY <2>1, <2>3 DEF TwoTo31, TwoTo32, bprints64
    <3>2. Len(bprintu64(val, 10)) \in Nat /\ Len(bprintu64(val, 10)) <= 10
      BY <1>2, <1>3, <3>1, TenDigits
    <3> QED
      BY <1>6, <2>1, <3>1, <3>2
  <2> QED
    BY <2>2, <2>3
<1>7. CASE kind = "p"
  <2>1. val \in Nat /\ Converted(kind, val) = bprintptr(val)
    BY <1>1, <1>7 DEF Converted
  <2>2. CASE val = 0
    <3>1. Len(Converted(kind, val)) = 5
      BY <2>1, <2>2 DEF bprintptr
    <3> QED
      BY <2>2, <3>1 DEF TwoTo32
  <2>3. CASE val # 0
    <3> DEFINE t == bprintu64(val, 16)
    <3>1. t \in Seq(Digits) /\ Len(t) \in Nat
      BY <1>2, <1>3, <2>1
    <3>2. val < 16 * TwoTo32 => Len(t) <= 9
      BY <2>1, NineDigits
    <3>3. val >= 16 * TwoTo32 => Len(t) >= 10
      BY <2>1, MoreDigits
    <3>4. bprintptr(val) = <<"0", "x">> \o t
      BY <2>3 DEF bprintptr
    <3> HIDE DEF t
    <3>5. /\ <<"0", "x">> \in Seq(Digits \cup {"0", "x"}) /\ t \in Seq(Digits \cup {"0", "x"})
          /\ Len(<<"0", "x">>) = 2
      BY <3>1
    <3>6. Len(<<"0", "x">> \o t) = 2 + Len(t)
      BY <3>5
    <3>7. Len(Converted(kind, val)) = 2 + Len(t)
      BY <2>1, <3>4, <3>6
    <3> QED
      BY <1>7, <2>1, <3>1, <3>2, <3>3, <3>7 DEF TwoTo32
  <2> QED
    BY <2>2, <2>3
<1> QED
  BY <1>4, <1>5, <1>6, <1>7 DEF Numeric

\* With buf and int as in the code, for every format string, argument and
\* interleaving: integers never run over buf, and a pointer does exactly when it
\* has more than 9 digits, as every pointer into the kernel's half has.
THEOREM ConsoleOverrunByPointer ==
    ASSUME PRINTK_BUF_SIZE = 11, INT_BITS = 32
    PROVE  Spec => []OverrunByPointer
<1>1. WriterOK => OverrunByPointer
  <2> SUFFICES ASSUME WriterOK, NEW w \in Writers
               PROVE  writer[w].pc = "overrun" <=>
                          /\ writer[w].num # <<>> /\ writer[w].num[1] = "p"
                          /\ writer[w].num[2] >= Pow2[4 * (PRINTK_BUF_SIZE - 2)]
    BY DEF OverrunByPointer
  <2>1. /\ writer[w] \in GoodWriter /\ (writer[w].num = <<>> \/ writer[w].num \in Numeric \X Int)
        /\ writer[w].pc = "overrun" <=> Len(writer[w].buf) > 11
    BY DEF WriterOK, GoodWriter, Writer
  <2>2. 4 * (PRINTK_BUF_SIZE - 2) = 36
    OBVIOUS
  <2>3. Pow2[4 * (PRINTK_BUF_SIZE - 2)] = 16 * TwoTo32
    BY <2>2, Powers
  <2>4. CASE writer[w].num = <<>>
    <3>1. writer[w].buf = <<>>
      BY <2>1, <2>4 DEF GoodWriter
    <3> QED
      BY <2>1, <2>4, <3>1
  <2>5. CASE writer[w].num # <<>>
    <3> DEFINE kind == writer[w].num[1]  val == writer[w].num[2]
    <3>1. kind \in Numeric /\ Typed(kind, val) /\ writer[w].buf = Converted(kind, val)
      BY <2>1, <2>5 DEF GoodWriter
    <3> HIDE DEF kind, val
    <3>2. Len(writer[w].buf) > 11 <=> kind = "p" /\ val >= 16 * TwoTo32
      BY <3>1, ConvertedLength
    <3> QED
      BY <2>1, <2>3, <2>5, <3>2 DEF kind, val
  <2> QED
    BY <2>4, <2>5
<1> QED
  BY <1>1, WriterInv, PTL
=============================================================================
