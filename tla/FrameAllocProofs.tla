-------------------------- MODULE FrameAllocProofs --------------------------
(***************************************************************************)
(* The buddy allocator is right until two kernel paths are inside it at    *)
(* once or two pairs of blocks that exist at once share a bit, for every   *)
(* number of orders, every size of the zone, every layout of the bitmaps   *)
(* and every initial content of them.                                      *)
(***************************************************************************)
EXTENDS FrameHistory, CommonProofs, FiniteSetTheorems

\* Nobody but c is inside the allocator, before and after a step.
Alone(c) == \A d \in Callers : d # c => phase[d] = "idle" /\ phase'[d] = "idle"

-----------------------------------------------------------------------------
(* The inductive invariant. *)

Owning == {"split", "merge", "insert", "panic"}

\* The blocks of order o that callers have in hand.
Held(o) == {block[c] : c \in {d \in Callers : phase[d] \in Owning /\ order[d] = o}}

\* The blocks that exist: as a whole or as two halves.
Present(o) == free[o] \cup busy[o] \cup split[o] \cup Held(o)

\* The blocks that the bitmaps take for free: zone_dealloc sets the bit before it
\* inserts the block.
Counted(o) ==
    free[o] \cup {block[c] : c \in {d \in Callers : phase[d] = "insert" /\ order[d] = o}}

\* Blocks lie in the zone.
InZone ==
    /\ \A o \in Order : \A i \in free[o] \cup busy[o] \cup split[o] : i \in Index(o)
    /\ \A c \in Callers :
          phase[c] \in Owning => block[c] \in Index(order[c])

\* A block is only one of free, handed out, in two halves, and in hand.
OneRole ==
    \A o \in Order :
        /\ free[o] \cap (busy[o] \cup split[o] \cup Held(o)) = {}
        /\ busy[o] \cap (split[o] \cup Held(o)) = {}
        /\ split[o] \cap Held(o) = {}

\* The largest blocks exist, and another block exists exactly when the block it
\* is a half of is in two halves.
Tree ==
    /\ Index(MAX_ORDER) \subseteq Present(MAX_ORDER)
    /\ split[0] = {}
    /\ \A o \in 0 .. MAX_ORDER - 1 : \A i \in Index(o) :
          i \in Present(o) <=> Parent(i) \in split[o + 1]

\* The bit of two halves is set when one of them is free; both never are.
BitsOK ==
    \A o \in 0 .. MAX_ORDER - 1 : \A i \in Index(o) :
        Parent(i) \in split[o + 1] =>
            /\ ~ (i \in Counted(o) /\ Buddy(i) \in Counted(o))
            /\ BitAddr(o, i) \in bitmap <=> i \in Counted(o) \/ Buddy(i) \in Counted(o)

\* What a caller has read from a list is still there.
CallOK ==
    \A c \in Callers :
        /\ phase[c] \in {"fit", "large"} => block[c] \in free[order[c]]
        /\ phase[c] \in {"large", "split"} => want[c] <= order[c]

IInv == TypeOK /\ corrupted = FALSE /\ InZone /\ OneRole /\ Tree /\ BitsOK /\ CallOK

-----------------------------------------------------------------------------
(* Blocks, halves and bits. *)

\* The two halves of a block (zone_dealloc computes the buddy and the parent).
LEMMA Halves ==
    ASSUME NEW i \in Nat
    PROVE  /\ Parent(i) \in Nat /\ Buddy(i) \in Nat /\ Buddy(i) # i
           /\ Parent(Buddy(i)) = Parent(i) /\ Buddy(Buddy(i)) = i
           /\ \A j \in Nat : Parent(j) = Parent(i) => j = i \/ j = Buddy(i)
           /\ Parent(2 * i) = i /\ Parent(2 * i + 1) = i
           /\ Buddy(2 * i) = 2 * i + 1 /\ Buddy(2 * i + 1) = 2 * i
  BY DEF Parent, Buddy

\* Blocks of an order and of the next one.
LEMMA Indices ==
    ASSUME NEW o \in 0 .. MAX_ORDER - 1
    PROVE  /\ o \in Order /\ o + 1 \in Order
           /\ \A i \in Nat : i \in Index(o) <=> Parent(i) \in Index(o + 1)
           /\ \A i \in Index(o) : i \in Nat /\ Buddy(i) \in Index(o) /\ Parent(i) \in Index(o + 1)
           /\ \A i \in Index(o + 1) : i \in Nat /\ 2 * i \in Index(o) /\ 2 * i + 1 \in Index(o)
<1>1. o \in Order /\ o + 1 \in Order /\ MAX_ORDER \in Nat
  BY FrameAssumption DEF Order
<1>2. BlockCount[o] = 2 * BlockCount[o + 1] /\ BlockCount[o + 1] \in Nat
  BY <1>1, FrameAssumption
<1> QED
  BY <1>1, <1>2 DEF Index, Parent, Buddy

\* Orders and indices are numbers; a request has an order.
LEMMA Types ==
    /\ MAX_ORDER \in Nat /\ MAX_ORDER \in Order /\ 0 \in Order
    /\ \A o \in Order : o \in Nat /\ o <= MAX_ORDER /\ Index(o) \subseteq Nat
    /\ \A o \in Order : o # MAX_ORDER => o \in 0 .. MAX_ORDER - 1
    /\ \A o \in Order : o # 0 => o - 1 \in 0 .. MAX_ORDER - 1
    /\ \A n \in Requests : pages2order(n) \in Order
<1>1. \A o \in Order : BlockCount[o] \in Nat
  BY FrameAssumption
<1> QED
  BY <1>1, FrameAssumption DEF Order, Index

\* With bits apart, a bit belongs to the two halves of one block.
LEMMA BitOfPair ==
    ASSUME BitsApart,
           NEW o \in 0 .. MAX_ORDER - 1, NEW q \in 0 .. MAX_ORDER - 1,
           NEW i \in Index(o), NEW j \in Index(q),
           Parent(i) \in split[o + 1], Parent(j) \in split[q + 1]
    PROVE  BitAddr(o, i) = BitAddr(q, j) <=> o = q /\ (i = j \/ i = Buddy(j))
<1>1. i \in Nat /\ j \in Nat
  BY Indices
<1>2. o = q /\ (i = j \/ i = Buddy(j)) => BitAddr(o, i) = BitAddr(q, j)
  BY <1>1, Halves DEF BitAddr
<1>3. BitAddr(o, 2 * Parent(i)) = BitAddr(o, i) /\ BitAddr(q, 2 * Parent(j)) = BitAddr(q, j)
  BY <1>1, Halves DEF BitAddr
<1>4. BitAddr(o, i) = BitAddr(q, j) => o = q /\ Parent(i) = Parent(j)
  BY <1>3 DEF BitsApart
<1> QED
  BY <1>1, <1>2, <1>4, Halves

\* Whoever takes a step was inside before it or is inside after it.
LEMMA StepsAlone ==
    ASSUME TypeOK, Serial, Serial', NEW c \in Callers, Begin(c) \/ Continue(c)
    PROVE  Alone(c)
<1>1. phase[c] # "idle" \/ phase'[c] # "idle"
  BY DEF Begin, Continue, AllocFit, AllocLarger, Free, TakeFit, TakeFitNull, TakeLarger, SplitStep,
         SplitDone, MergeStep, MergeStop, MergeTop, Insert, Goto, TypeOK
<1>2. \A d \in Callers : d # c => phase'[d] = phase[d]
  BY DEF Begin, Continue, AllocFit, AllocLarger, Free, TakeFit, TakeFitNull, TakeLarger, SplitStep,
         SplitDone, MergeStep, MergeStop, MergeTop, Insert, Goto, Return, TypeOK
<1> QED
  BY <1>1, <1>2 DEF Serial, Alone

\* When c is alone, what is in hand is in its hand.
LEMMA Solo ==
    ASSUME NEW c \in Callers, Alone(c), NEW o
    PROVE  /\ Held(o) = IF phase[c] \in Owning /\ order[c] = o THEN {block[c]} ELSE {}
           /\ Held(o)' = IF phase'[c] \in Owning /\ order'[c] = o THEN {block'[c]} ELSE {}
           /\ Counted(o) = IF phase[c] = "insert" /\ order[c] = o
                           THEN free[o] \cup {block[c]} ELSE free[o]
           /\ Counted(o)' = IF phase'[c] = "insert" /\ order'[c] = o
                            THEN free'[o] \cup {block'[c]} ELSE free'[o]
  BY DEF Alone, Held, Counted, Owning

\* A zone has no more blocks of a larger order.
LEMMA Fewer ==
    ASSUME NEW o \in Order, NEW q \in Order, o <= q
    PROVE  BlockCount[q] <= BlockCount[o]
<1>1. \A a \in Order : BlockCount[a] \in Nat
  BY FrameAssumption
<1> DEFINE Good == {n \in Nat : o + n <= MAX_ORDER => BlockCount[o + n] <= BlockCount[o]}
<1>2. 0 \in Good
  BY <1>1, Types
<1>3. ASSUME NEW n \in Nat, n \in Good PROVE n + 1 \in Good
  <2> SUFFICES ASSUME o + (n + 1) <= MAX_ORDER PROVE BlockCount[o + (n + 1)] <= BlockCount[o]
    OBVIOUS
  <2>1. o + n \in Order /\ o + n + 1 \in Order /\ o + n < MAX_ORDER /\ o + (n + 1) = o + n + 1
    BY Types DEF Order
  <2>2. BlockCount[o + n] = 2 * BlockCount[o + n + 1]
    BY <2>1, FrameAssumption, Zenon
  <2>3. BlockCount[o + n] <= BlockCount[o]
    BY <1>3, <2>1, Types
  <2> QED
    BY <1>1, <2>1, <2>2, <2>3
<1>4. Nat \subseteq Good
  <2> HIDE DEF Good
  <2> QED BY <1>2, <1>3, InductionSet
<1>5. q - o \in Nat /\ o + (q - o) = q /\ q <= MAX_ORDER
  BY Types
<1> QED
  BY <1>4, <1>5

LEMMA FewerLarger == \A o \in Order : Index(o) \subseteq Index(0)
<1>1. \A o \in Order : BlockCount[o] \in Nat /\ BlockCount[o] <= BlockCount[0]
  BY Fewer, Types, FrameAssumption
<1> QED
  BY <1>1, Types DEF Index

\* The layout that zone_add makes overlaps, for every zone that has a block of
\* the largest order, as soon as there are five orders (the kernel has eleven):
\* bit OrderBits of order 0 is bit 0 of order 1.
THEOREM BitmapsOverlap ==
    ASSUME MAX_ORDER >= 4, BlockCount[MAX_ORDER] > 0, OrderBits = order_bitmap_size
    PROVE  ~ DisjointBitmaps
<1> DEFINE B == BlockCount[MAX_ORDER]
<1>1. B \in Nat /\ MAX_ORDER \in Nat /\ \A o \in Order : BlockCount[o] \in Nat
  BY FrameAssumption, Types
<1>2. OrderBits \in Nat /\ OrderBits < 8 * B
  <2>1. PICK b \in Nat : b = B \div 2 /\ 2 * b <= B
    BY <1>1
  <2>2. OrderBits = 8 * ((b + 8 - 1) \div 8)
    BY <2>1 DEF order_bitmap_size, DIV_ROUNDUP
  <2>3. OrderBits <= b + 7
    BY <2>2
  <2>4. B = 1 => OrderBits = 0
    BY <2>1, <2>2
  <2>5. OrderBits \in Nat
    BY FrameAssumption
  <2> QED
    BY <1>1, <2>1, <2>3, <2>4, <2>5
<1>3. BlockCount[0] >= 16 * B /\ BlockCount[1] >= 2
  <2>1. 0 \in Order /\ 1 \in Order /\ 2 \in Order /\ 3 \in Order /\ 4 \in Order
    BY <1>1 DEF Order
  <2>2. /\ BlockCount[0] = 2 * BlockCount[1] /\ BlockCount[1] = 2 * BlockCount[2]
        /\ BlockCount[2] = 2 * BlockCount[3] /\ BlockCount[3] = 2 * BlockCount[4]
    <3>1. 0 < MAX_ORDER /\ 1 < MAX_ORDER /\ 2 < MAX_ORDER /\ 3 < MAX_ORDER
      BY <1>1
    <3>2. 0 + 1 = 1 /\ 1 + 1 = 2 /\ 2 + 1 = 3 /\ 3 + 1 = 4
      OBVIOUS
    <3>3. \A o \in Order : o < MAX_ORDER => BlockCount[o] = 2 * BlockCount[o + 1]
      BY FrameAssumption, Zenon
    <3>4. BlockCount[0] = 2 * BlockCount[0 + 1] /\ BlockCount[1] = 2 * BlockCount[1 + 1]
      BY <2>1, <3>1, <3>3, Zenon
    <3>5. BlockCount[2] = 2 * BlockCount[2 + 1] /\ BlockCount[3] = 2 * BlockCount[3 + 1]
      BY <2>1, <3>1, <3>3, Zenon
    <3> QED
      BY <3>2, <3>4, <3>5
  <2>3. B <= BlockCount[4]
    BY <2>1, Fewer, Types
  <2> QED
    BY <1>1, <2>1, <2>2, <2>3
<1>4. 0 \in 0 .. MAX_ORDER - 1 /\ 1 \in 0 .. MAX_ORDER - 1
  BY <1>1
<1>5. 2 * OrderBits \in Index(0) /\ 0 \in Index(1)
  <2>1. BlockCount[0] \in Nat /\ BlockCount[1] \in Nat
    BY <1>1, Types DEF Order
  <2> HIDE DEF B
  <2>2. 2 * OrderBits <= BlockCount[0] - 1
    BY <1>1, <1>2, <1>3, <2>1
  <2> QED
    BY <1>2, <1>3, <2>1, <2>2 DEF Index
<1>6. BitAddr(0, 2 * OrderBits) = BitAddr(1, 0)
  BY <1>2, Halves DEF BitAddr, Parent
<1> QED
  BY <1>4, <1>5, <1>6 DEF DisjointBitmaps

-----------------------------------------------------------------------------
(* Types. *)

\* One step of one caller keeps every variable in its type.
LEMMA TypeStep ==
    ASSUME TypeOK, NEW c \in Callers, Begin(c) \/ Continue(c)
    PROVE  TypeOK'
<1> USE DEF TypeOK, Phase
<1>1. CASE AllocFit(c)
  <2>1. PICK n \in Requests : /\ \E i \in free[pages2order(n)] : block' = [block EXCEPT ![c] = i]
                              /\ order' = [order EXCEPT ![c] = pages2order(n)]
                              /\ want' = [want EXCEPT ![c] = pages2order(n)]
    BY <1>1 DEF AllocFit
  <2>2. pages2order(n) \in Order
    BY Types
  <2> QED
    BY <1>1, <2>1, <2>2 DEF AllocFit, Goto
<1>2. CASE AllocLarger(c)
  <2>1. PICK n \in Requests, o \in Order :
                              /\ \E i \in free[o] : block' = [block EXCEPT ![c] = i]
                              /\ order' = [order EXCEPT ![c] = o]
                              /\ want' = [want EXCEPT ![c] = pages2order(n)]
    BY <1>2 DEF AllocLarger
  <2>2. pages2order(n) \in Order
    BY Types
  <2> QED
    BY <1>2, <2>1, <2>2 DEF AllocLarger, Goto
<1>3. CASE Free(c)
  BY <1>3 DEF Free, Goto
<1>4. CASE TakeFit(c)
  BY <1>4, Types DEF TakeFit, Extract, Return
<1>5. CASE TakeFitNull(c)
  BY <1>5, Types DEF TakeFitNull, Goto, Extract
<1>6. CASE TakeLarger(c)
  BY <1>6, Types DEF TakeLarger, Goto, Extract
<1>7. CASE SplitStep(c)
  BY <1>7, Types, SMTT(30) DEF SplitStep, Link, Order
<1>8. CASE SplitDone(c)
  BY <1>8, Types, ZenonT(30) DEF SplitDone, Return
<1>9. CASE MergeStep(c)
  <2>1. Parent(block[c]) \in Nat /\ order[c] + 1 \in Order
    <3>1. block[c] \in Nat /\ order[c] \in Order /\ order[c] < MAX_ORDER
      BY <1>9 DEF MergeStep
    <3>2. Parent(block[c]) \in Nat
      BY <3>1, Halves
    <3> QED
      BY <3>1, <3>2, Types DEF Order
  <2> QED
    BY <1>9, <2>1 DEF MergeStep, Extract
<1>10. CASE MergeStop(c) \/ MergeTop(c)
  BY <1>10 DEF MergeStop, MergeTop, Goto
<1>11. CASE Insert(c)
  BY <1>11, Types DEF Insert, Link, Return
<1> QED
  BY <1>1, <1>2, <1>3, <1>4, <1>5, <1>6, <1>7, <1>8, <1>9, <1>10, <1>11 DEF Begin, Continue

-----------------------------------------------------------------------------
(* What several steps have in common. *)

\* A step that only changes what is done with the blocks that exist.
LEMMA SameBlocks ==
    ASSUME Tree, split' = split, \A q \in Order : Present(q)' = Present(q)
    PROVE  Tree'
  BY Types, Indices DEF Tree

\* A step that changes neither bits nor the blocks they count as free.
LEMMA SameBits ==
    ASSUME BitsOK, split' = split, bitmap' = bitmap,
           \A q \in 0 .. MAX_ORDER - 1 : Counted(q)' = Counted(q)
    PROVE  BitsOK'
  BY DEF BitsOK

Flipped(a) == IF a \in bitmap THEN bitmap \ {a} ELSE bitmap \cup {a}

\* A block leaves its free list, and if it is half of a larger one the bit that
\* it shares with its buddy is flipped.
LEMMA TakeBits ==
    ASSUME BitsApart, BitsOK, free \in [Order -> SUBSET Nat], split' = split,
           NEW o \in Order, NEW i \in free[o], i \in Index(o),
           o \in 0 .. MAX_ORDER - 1 => Parent(i) \in split[o + 1],
           free' = [free EXCEPT ![o] = @ \ {i}],
           o < MAX_ORDER => bitmap' = Flipped(BitAddr(o, i)),
           o = MAX_ORDER => bitmap' = bitmap,
           \A q : Counted(q) = free[q] /\ Counted(q)' = free'[q]
    PROVE  BitsOK'
<1>1. CASE o = MAX_ORDER
  <2>1. \A q \in 0 .. MAX_ORDER - 1 : q \in Order /\ q # o
    BY <1>1, Types, Indices
  <2> QED
    BY <1>1, <2>1, SameBits
<1>2. CASE o # MAX_ORDER
  <2>1. o \in 0 .. MAX_ORDER - 1 /\ o < MAX_ORDER /\ i \in Nat
    BY <1>2, Types
  <2>2. bitmap' = IF BitAddr(o, i) \in bitmap THEN bitmap \ {BitAddr(o, i)}
                  ELSE bitmap \cup {BitAddr(o, i)}
    BY <2>1 DEF Flipped
  <2> SUFFICES ASSUME NEW q \in 0 .. MAX_ORDER - 1, NEW j \in Index(q), Parent(j) \in split[q + 1]
               PROVE  /\ ~ (j \in free'[q] /\ Buddy(j) \in free'[q])
                      /\ BitAddr(q, j) \in bitmap' <=> j \in free'[q] \/ Buddy(j) \in free'[q]
    BY DEF BitsOK
  <2>3. BitAddr(q, j) = BitAddr(o, i) <=> q = o /\ (j = i \/ j = Buddy(i))
    <3>1. Parent(i) \in split[o + 1]
      BY <2>1
    <3>2. o \in 0 .. MAX_ORDER - 1
      BY <2>1
    <3> QED
      BY <3>1, <3>2, BitOfPair
  <2>4. /\ ~ (j \in free[q] /\ Buddy(j) \in free[q])
        /\ BitAddr(q, j) \in bitmap <=> j \in free[q] \/ Buddy(j) \in free[q]
    BY DEF BitsOK
  <2>5. Buddy(i) # i /\ Buddy(Buddy(i)) = i /\ Buddy(j) # j /\ Buddy(Buddy(j)) = j /\ q \in Order
    BY <2>1, Indices, Halves
  <2> QED
    BY <2>2, <2>3, <2>4, <2>5
<1> QED
  BY <1>1, <1>2

\* Where a caller is, and what that means for what is in hand.
LEMMA NotOwning ==
    ASSUME NEW c \in Callers, Alone(c)
    PROVE  /\ phase[c] \in {"idle", "fit", "large"} =>
                 \A q : Held(q) = {} /\ Counted(q) = free[q]
           /\ phase'[c] \in {"idle", "fit", "large"} =>
                 \A q : Held(q)' = {} /\ Counted(q)' = free'[q]
           /\ phase[c] \in {"split", "merge", "panic"} => \A q : Counted(q) = free[q]
           /\ phase'[c] \in {"split", "merge", "panic"} => \A q : Counted(q)' = free'[q]
           /\ phase[c] \in Owning => \A q : Held(q) = IF order[c] = q THEN {block[c]} ELSE {}
           /\ phase'[c] \in Owning => \A q : Held(q)' = IF order'[c] = q THEN {block'[c]} ELSE {}
<1> SUFFICES ASSUME NEW q
             PROVE  /\ phase[c] \in {"idle", "fit", "large"} => Held(q) = {} /\ Counted(q) = free[q]
                    /\ phase'[c] \in {"idle", "fit", "large"} => Held(q)' = {} /\ Counted(q)' = free'[q]
                    /\ phase[c] \in {"split", "merge", "panic"} => Counted(q) = free[q]
                    /\ phase'[c] \in {"split", "merge", "panic"} => Counted(q)' = free'[q]
                    /\ phase[c] \in Owning => Held(q) = IF order[c] = q THEN {block[c]} ELSE {}
                    /\ phase'[c] \in Owning => Held(q)' = IF order'[c] = q THEN {block'[c]} ELSE {}
  BY Zenon
<1>1. /\ phase[c] \in {"idle", "fit", "large"} => phase[c] \notin Owning /\ phase[c] # "insert"
      /\ phase'[c] \in {"idle", "fit", "large"} => phase'[c] \notin Owning /\ phase'[c] # "insert"
      /\ phase[c] \in {"split", "merge", "panic"} => phase[c] # "insert"
      /\ phase'[c] \in {"split", "merge", "panic"} => phase'[c] # "insert"
  BY DEF Owning
<1>2. /\ Held(q) = IF phase[c] \in Owning /\ order[c] = q THEN {block[c]} ELSE {}
      /\ Held(q)' = IF phase'[c] \in Owning /\ order'[c] = q THEN {block'[c]} ELSE {}
  BY Solo
<1>3. /\ phase[c] # "insert" => Counted(q) = free[q]
      /\ phase'[c] # "insert" => Counted(q)' = free'[q]
  BY Solo
<1> QED
  BY <1>1, <1>2, <1>3

-----------------------------------------------------------------------------
(* One lemma per step of a call. *)

\* The reads of zone_alloc: the caller has nothing in hand yet.
LEMMA AllocKeeps ==
    ASSUME IInv, TypeOK', NEW c \in Callers, Alone(c), AllocFit(c) \/ AllocLarger(c)
    PROVE  IInv'
<1>1. /\ phase[c] = "idle" /\ phase'[c] \in {"fit", "large"} /\ phase'[c] \notin Owning
      /\ UNCHANGED <<free, busy, bitmap, split, corrupted>>
  BY DEF AllocFit, AllocLarger, Goto, IInv, TypeOK, Owning
<1>2. /\ order'[c] \in Order /\ block'[c] \in free[order'[c]]
      /\ want'[c] \in Order /\ want'[c] <= order'[c]
  <2>1. CASE AllocFit(c)
    <3>1. PICK n \in Requests : /\ \E i \in free[pages2order(n)] : block' = [block EXCEPT ![c] = i]
                                /\ order' = [order EXCEPT ![c] = pages2order(n)]
                                /\ want' = [want EXCEPT ![c] = pages2order(n)]
      BY <2>1 DEF AllocFit
    <3>2. pages2order(n) \in Order /\ pages2order(n) \in Nat
      BY Types
    <3> QED
      BY <3>1, <3>2 DEF IInv, TypeOK
  <2>2. CASE AllocLarger(c)
    <3>1. PICK n \in Requests, o \in Order :
                                /\ pages2order(n) < o
                                /\ \E i \in free[o] : block' = [block EXCEPT ![c] = i]
                                /\ order' = [order EXCEPT ![c] = o]
                                /\ want' = [want EXCEPT ![c] = pages2order(n)]
      BY <2>2 DEF AllocLarger
    <3>2. pages2order(n) \in Order /\ pages2order(n) \in Nat /\ o \in Nat
      BY Types
    <3> QED
      BY <3>1, <3>2 DEF IInv, TypeOK
  <2> QED
    BY <2>1, <2>2
<1>3. \A q : Held(q) = {} /\ Held(q)' = {} /\ Counted(q) = free[q] /\ Counted(q)' = free'[q]
  BY <1>1, NotOwning
<1>4. InZone' /\ CallOK'
  BY <1>1, <1>2 DEF IInv, InZone, CallOK, Alone, Owning
<1>5. OneRole' /\ \A q \in Order : Present(q)' = Present(q)
  BY <1>1, <1>3 DEF IInv, OneRole, Present
<1>6. Tree'
  BY <1>1, <1>5, SameBlocks DEF IInv
<1>7. BitsOK'
  BY <1>1, <1>3, SameBits DEF IInv
<1> QED
  BY <1>1, <1>4, <1>5, <1>6, <1>7 DEF IInv

\* A block is extracted: it is handed out, or in the hand of the caller.
LEMMA TakeKeeps ==
    ASSUME BitsApart, IInv, TypeOK', NEW c \in Callers, Alone(c),
           TakeFit(c) \/ TakeFitNull(c) \/ TakeLarger(c)
    PROVE  IInv'
<1> DEFINE o == order[c]  i == block[c]
<1>1. /\ phase[c] \in {"fit", "large"} /\ UNCHANGED split
      /\ free' = [free EXCEPT ![o] = @ \ {i}] /\ (i \in free[o] => corrupted' = FALSE)
      /\ phase'[c] \in {"idle", "panic", "split"}
      /\ phase'[c] = "idle" => busy' = [busy EXCEPT ![o] = @ \cup {i}]
      /\ phase'[c] \in Owning => UNCHANGED <<busy, order, block, want>>
      /\ phase'[c] = "split" => phase[c] = "large"
      /\ o < MAX_ORDER => bitmap' = Flipped(BitAddr(o, i))
      /\ o = MAX_ORDER => bitmap' = bitmap
  <2>1. CASE TakeFit(c)
    BY <2>1, Types DEF TakeFit, Return, Extract, FlipBit, Flipped, IInv, TypeOK, Owning
  <2>2. CASE TakeFitNull(c)
    <3>1. o = MAX_ORDER /\ ~ (o < MAX_ORDER)
      BY <2>2, Types DEF TakeFitNull
    <3>2. phase[c] = "fit" /\ phase'[c] = "panic" /\ Extract(o, i)
          /\ UNCHANGED <<busy, bitmap, order, block, want, split>>
      BY <2>2 DEF TakeFitNull, Goto, IInv, TypeOK
    <3> QED
      BY <3>1, <3>2 DEF Extract, IInv, TypeOK
  <2>3. CASE TakeLarger(c)
    <3>1. phase[c] = "large" /\ phase'[c] = "split" /\ Extract(o, i)
          /\ UNCHANGED <<busy, order, block, want, split>>
      BY <2>3 DEF TakeLarger, Goto, IInv, TypeOK
    <3>2. /\ o < MAX_ORDER => bitmap' = Flipped(BitAddr(o, i))
          /\ o = MAX_ORDER => bitmap' = bitmap
      BY <2>3, Types DEF TakeLarger, FlipBit, Flipped
    <3> QED
      BY <3>1, <3>2 DEF Extract, IInv, TypeOK
  <2> QED
    BY <2>1, <2>2, <2>3
<1>2. /\ o \in Order /\ i \in free[o] /\ i \in Index(o) /\ i \in Nat
      /\ free' = [free EXCEPT ![o] = @ \ {i}] /\ corrupted' = FALSE
  <2>1. o \in Order /\ i \in free[o] /\ i \in Nat
    BY <1>1 DEF IInv, TypeOK, CallOK
  <2>2. i \in Index(o)
    BY <2>1 DEF IInv, InZone
  <2> QED
    BY <1>1, <2>1, <2>2 DEF IInv, TypeOK
<1>3. /\ \A q : Held(q) = {} /\ Counted(q) = free[q] /\ Counted(q)' = free'[q]
      /\ phase'[c] = "idle" => \A q : Held(q)' = {}
      /\ phase'[c] \in Owning => \A q : Held(q)' = IF o = q THEN {i} ELSE {}
  BY <1>1, NotOwning
<1>4. InZone'
  <2>1. \A q \in Order : \A j \in free'[q] \cup busy'[q] \cup split'[q] : j \in Index(q)
    BY <1>1, <1>2 DEF IInv, TypeOK, InZone, Owning
  <2>2. phase'[c] \in Owning => block'[c] \in Index(order'[c])
    BY <1>1, <1>2
  <2> QED
    BY <2>1, <2>2 DEF InZone, Alone, Owning
<1>5. CallOK'
  <2>1. phase'[c] \notin {"fit", "large"} /\ (phase'[c] = "split" => want'[c] <= order'[c])
    BY <1>1 DEF IInv, CallOK, Owning
  <2> QED
    BY <1>1, <2>1 DEF CallOK, Alone, Owning
<1>6. OneRole' /\ \A q \in Order : Present(q)' = Present(q)
  <2>1. CASE phase'[c] = "idle"
    <3> HIDE DEF o, i
    <3> QED BY <1>1, <1>2, <1>3, <2>1 DEF IInv, TypeOK, OneRole, Present
  <2>2. CASE phase'[c] \in Owning
    <3> HIDE DEF o, i
    <3> QED BY <1>1, <1>2, <1>3, <2>2 DEF IInv, TypeOK, OneRole, Present
  <2> QED
    BY <1>1, <2>1, <2>2 DEF Owning
<1>7. Tree'
  BY <1>1, <1>6, SameBlocks DEF IInv
<1>8. BitsOK'
  <2> HIDE DEF o, i
  <2>1. o \in 0 .. MAX_ORDER - 1 => Parent(i) \in split[o + 1]
    BY <1>2 DEF IInv, Tree, Present
  <2> QED BY <1>1, <1>2, <1>3, <2>1, TakeBits DEF IInv, TypeOK
<1> QED
  BY <1>2, <1>4, <1>5, <1>6, <1>7, <1>8 DEF IInv

\* Blocks that pass between callers and the allocator.
LEMMA PassKeeps ==
    ASSUME IInv, TypeOK', NEW c \in Callers, Alone(c),
           SplitDone(c) \/ Free(c) \/ Insert(c)
    PROVE  IInv'
<1>1. UNCHANGED <<bitmap, split, corrupted>>
  BY DEF SplitDone, Free, Insert
<1>2. CASE SplitDone(c)
  <2> DEFINE o == order[c]  i == block[c]
  <2>1. /\ phase[c] = "split" /\ phase'[c] = "idle" /\ free' = free
        /\ busy' = [busy EXCEPT ![o] = @ \cup {i}] /\ o \in Order /\ i \in Nat
    BY <1>2 DEF SplitDone, Return, IInv, TypeOK
  <2>2. /\ \A q : Counted(q) = free[q] /\ Counted(q)' = free'[q] /\ Held(q)' = {}
        /\ \A q : Held(q) = IF o = q THEN {i} ELSE {}
        /\ i \in Index(o) /\ phase'[c] \notin Owning
    BY <2>1, NotOwning DEF Owning, IInv, InZone
  <2>3. InZone' /\ CallOK'
    BY <1>1, <2>1, <2>2 DEF IInv, TypeOK, InZone, CallOK, Alone, Owning
  <2>4. OneRole' /\ \A q \in Order : Present(q)' = Present(q)
    <3> HIDE DEF o, i
    <3> QED BY <1>1, <2>1, <2>2 DEF IInv, TypeOK, OneRole, Present
  <2> QED
    BY <1>1, <2>1, <2>2, <2>3, <2>4, SameBlocks, SameBits DEF IInv
<1>3. CASE Free(c)
  <2>1. PICK o \in Order, i \in Nat :
              /\ i \in busy[o] /\ busy' = [busy EXCEPT ![o] = @ \ {i}]
              /\ order'[c] = o /\ block'[c] = i
    BY <1>3 DEF Free, IInv, TypeOK
  <2>2. phase[c] = "idle" /\ phase'[c] = "merge" /\ free' = free
    BY <1>3 DEF Free, Goto, IInv, TypeOK
  <2>3. /\ \A q : Counted(q) = free[q] /\ Counted(q)' = free'[q] /\ Held(q) = {}
        /\ \A q : Held(q)' = IF o = q THEN {i} ELSE {}
        /\ i \in Index(o)
    BY <2>1, <2>2, NotOwning DEF Owning, IInv, InZone
  <2>4. InZone' /\ CallOK'
    BY <1>1, <2>1, <2>2, <2>3 DEF IInv, TypeOK, InZone, CallOK, Alone, Owning
  <2>5. OneRole' /\ \A q \in Order : Present(q)' = Present(q)
    BY <1>1, <2>1, <2>2, <2>3 DEF IInv, TypeOK, OneRole, Present
  <2> QED
    BY <1>1, <2>1, <2>2, <2>3, <2>4, <2>5, SameBlocks, SameBits DEF IInv
<1>4. CASE Insert(c)
  <2> DEFINE o == order[c]  i == block[c]
  <2>1. /\ phase[c] = "insert" /\ phase'[c] = "idle" /\ busy' = busy
        /\ free' = [free EXCEPT ![o] = @ \cup {i}] /\ o \in Order /\ i \in Nat
    BY <1>4 DEF Insert, Link, Return, IInv, TypeOK
  <2>2. /\ \A q : Counted(q)' = free'[q] /\ Held(q)' = {}
        /\ \A q : Held(q) = IF o = q THEN {i} ELSE {}
        /\ i \in Index(o) /\ phase'[c] \notin Owning
    BY <2>1, NotOwning DEF Owning, IInv, InZone
  <2>3. \A q \in Order : Counted(q) = free'[q]
    BY <2>1, Solo DEF IInv, TypeOK
  <2>4. InZone' /\ CallOK'
    BY <1>1, <2>1, <2>2 DEF IInv, TypeOK, InZone, CallOK, Alone, Owning
  <2>5. OneRole' /\ \A q \in Order : Present(q)' = Present(q)
    <3> HIDE DEF o, i
    <3> QED BY <1>1, <2>1, <2>2 DEF IInv, TypeOK, OneRole, Present
  <2>6. \A q \in 0 .. MAX_ORDER - 1 : Counted(q)' = Counted(q)
    BY <2>2, <2>3, Indices
  <2> QED
    BY <1>1, <2>1, <2>2, <2>4, <2>5, <2>6, SameBlocks, SameBits DEF IInv
<1> QED
  BY <1>2, <1>3, <1>4

\* The coalescing loop ends: the block counts as free from here on.
LEMMA StopKeeps ==
    ASSUME BitsApart, IInv, TypeOK', NEW c \in Callers, Alone(c),
           MergeStop(c) \/ MergeTop(c)
    PROVE  IInv'
<1> DEFINE o == order[c]  i == block[c]
<1>1. /\ phase[c] = "merge" /\ phase'[c] = "insert" /\ o \in Order /\ i \in Nat
      /\ UNCHANGED <<free, busy, order, block, want, split, corrupted>>
  BY DEF MergeStop, MergeTop, Goto, IInv, TypeOK
<1>2. /\ \A q : Counted(q) = free[q]
      /\ \A q : Held(q) = IF o = q THEN {i} ELSE {}
      /\ \A q : Held(q)' = IF o = q THEN {i} ELSE {}
      /\ i \in Index(o)
  BY <1>1, NotOwning DEF Owning, IInv, InZone
<1>3. \A q : Counted(q)' = IF o = q THEN free[q] \cup {i} ELSE free[q]
  BY <1>1, Solo
<1>4. InZone' /\ CallOK'
  BY <1>1, <1>2 DEF IInv, InZone, CallOK, Alone, Owning
<1>5. OneRole' /\ \A q \in Order : Present(q)' = Present(q)
  <2> HIDE DEF o, i
  <2> QED BY <1>1, <1>2 DEF IInv, OneRole, Present
<1>6. Tree'
  BY <1>1, <1>5, SameBlocks DEF IInv
<1>7. CASE MergeTop(c)
  <2>1. bitmap' = bitmap /\ o = MAX_ORDER
    BY <1>7 DEF MergeTop
  <2>2. \A q \in 0 .. MAX_ORDER - 1 : q # o
    BY <2>1, Types
  <2>3. BitsOK'
    BY <1>1, <1>2, <1>3, <2>1, <2>2, SameBits DEF IInv
  <2> QED
    BY <1>1, <1>4, <1>5, <1>6, <2>3 DEF IInv
<1>8. CASE MergeStop(c)
  <2>1. /\ o \in 0 .. MAX_ORDER - 1 /\ BitAddr(o, i) \notin bitmap
        /\ bitmap' = bitmap \cup {BitAddr(o, i)}
    <3>1. /\ o < MAX_ORDER /\ BitAddr(o, i) \notin bitmap
          /\ bitmap' = bitmap \cup {BitAddr(o, i)}
      BY <1>8 DEF MergeStop, SetBit
    <3>2. o \in Order /\ o < MAX_ORDER
      BY <1>1, <3>1
    <3>3. o \in 0 .. MAX_ORDER - 1
      <4> HIDE DEF o
      <4> QED BY <3>2, Types
    <3> QED
      BY <3>1, <3>3
  <2>2. Parent(i) \in split[o + 1]
    <3>1. i \in Present(o)
      BY <1>2 DEF Present
    <3> QED
      BY <1>2, <2>1, <3>1 DEF IInv, Tree
  <2>3. i \notin free[o] /\ Buddy(i) \notin free[o]
    BY <1>2, <2>1, <2>2 DEF IInv, BitsOK
  <2>4. BitsOK'
    <3> SUFFICES ASSUME NEW q \in 0 .. MAX_ORDER - 1, NEW j \in Index(q), Parent(j) \in split[q + 1]
                 PROVE  /\ ~ (j \in Counted(q)' /\ Buddy(j) \in Counted(q)')
                        /\ BitAddr(q, j) \in bitmap' <=> j \in Counted(q)' \/ Buddy(j) \in Counted(q)'
      BY <1>1 DEF BitsOK
    <3>1. BitAddr(q, j) = BitAddr(o, i) <=> q = o /\ (j = i \/ j = Buddy(i))
      BY <1>2, <2>1, <2>2, BitOfPair
    <3>2. /\ ~ (j \in free[q] /\ Buddy(j) \in free[q])
          /\ BitAddr(q, j) \in bitmap <=> j \in free[q] \/ Buddy(j) \in free[q]
      BY <1>2 DEF IInv, BitsOK
    <3>3. Buddy(i) # i /\ Buddy(Buddy(i)) = i /\ Buddy(j) # j /\ Buddy(Buddy(j)) = j
      BY <1>1, Indices, Halves
    <3> HIDE DEF o, i
    <3> QED
      BY <1>3, <2>1, <2>3, <3>1, <3>2, <3>3
  <2> QED
    BY <1>1, <1>4, <1>5, <1>6, <2>4 DEF IInv
<1> QED
  BY <1>7, <1>8

\* A block becomes two halves, of which one is free and one stays in hand.
LEMMA SplitKeeps ==
    ASSUME BitsApart', IInv, TypeOK', NEW c \in Callers, Alone(c), SplitStep(c)
    PROVE  IInv'
<1> DEFINE o == order[c]  i == block[c]  h == o - 1
<1>1. /\ phase[c] = "split" /\ phase'[c] = "split" /\ o \in Order /\ i \in Nat /\ want[c] < o
      /\ want[c] \in Nat
      /\ bitmap' = bitmap \cup {BitAddr(h, 2 * i)}
      /\ free' = [free EXCEPT ![h] = @ \cup {2 * i + 1}]
      /\ split' = [split EXCEPT ![o] = @ \cup {i}]
      /\ order'[c] = h /\ block'[c] = 2 * i
      /\ UNCHANGED <<busy, want, corrupted>>
  BY Types DEF SplitStep, SetBit, Link, IInv, TypeOK
<1>2. h \in 0 .. MAX_ORDER - 1 /\ h \in Order /\ o = h + 1 /\ o # h /\ want[c] <= h
  BY <1>1, Types DEF Order
<1>3. /\ \A q : Counted(q) = free[q] /\ Counted(q)' = free'[q]
      /\ \A q : Held(q) = IF o = q THEN {i} ELSE {}
      /\ \A q : Held(q)' = IF h = q THEN {2 * i} ELSE {}
      /\ i \in Index(o)
  BY <1>1, NotOwning DEF Owning, IInv, InZone
<1>4. /\ 2 * i \in Index(h) /\ 2 * i + 1 \in Index(h) /\ 2 * i + 1 # 2 * i
      /\ Parent(2 * i) = i /\ Parent(2 * i + 1) = i
      /\ Buddy(2 * i) = 2 * i + 1 /\ Buddy(2 * i + 1) = 2 * i
      /\ \A j \in Nat : Parent(j) = i <=> j = 2 * i \/ j = 2 * i + 1
  <2>1. 2 * i \in Index(h) /\ 2 * i + 1 \in Index(h)
    BY <1>2, <1>3, Indices
  <2> QED
    BY <1>1, <2>1 DEF Parent, Buddy
<1>5. i \notin split[o] /\ 2 * i \notin Present(h) /\ 2 * i + 1 \notin Present(h)
  <2>1. i \notin split[o]
    BY <1>1, <1>3 DEF IInv, OneRole
  <2> QED
    BY <1>2, <1>4, <2>1 DEF IInv, Tree
<1>6. InZone' /\ CallOK'
  <2>1. \A q \in Order : \A j \in free'[q] \cup busy'[q] \cup split'[q] : j \in Index(q)
    <3> HIDE DEF o, i, h
    <3> QED BY <1>1, <1>2, <1>3, <1>4 DEF IInv, TypeOK, InZone
  <2>2. block'[c] \in Index(order'[c]) /\ want'[c] <= order'[c] /\ phase'[c] \notin {"fit", "large"}
    BY <1>1, <1>2, <1>4
  <2> QED
    BY <2>1, <2>2 DEF InZone, CallOK, Alone, Owning
<1> HIDE DEF o, i, h
<1>7. /\ \A q \in Order : q # h => Present(q)' = Present(q)
      /\ \A q \in Order : q = h => Present(q)' = Present(q) \cup {2 * i, 2 * i + 1}
  <2>1. ASSUME NEW q \in Order, q # h, q # o PROVE Present(q)' = Present(q)
    BY <1>1, <1>3, <2>1 DEF IInv, TypeOK, Present
  <2>2. ASSUME NEW q \in Order, q = o PROVE Present(q)' = Present(q)
    BY <1>1, <1>2, <1>3, <2>2 DEF IInv, TypeOK, Present
  <2>3. ASSUME NEW q \in Order, q = h PROVE Present(q)' = Present(q) \cup {2 * i, 2 * i + 1}
    BY <1>1, <1>2, <1>3, <2>3 DEF IInv, TypeOK, Present
  <2> QED
    BY <2>1, <2>2, <2>3
<1>8. OneRole'
  <2>1. /\ 2 * i \notin free[h] /\ 2 * i \notin busy[h] /\ 2 * i \notin split[h]
        /\ 2 * i + 1 \notin free[h] /\ 2 * i + 1 \notin busy[h] /\ 2 * i + 1 \notin split[h]
    BY <1>5 DEF Present
  <2> SUFFICES ASSUME NEW q \in Order
               PROVE  /\ free'[q] \cap (busy'[q] \cup split'[q] \cup Held(q)') = {}
                      /\ busy'[q] \cap (split'[q] \cup Held(q)') = {}
                      /\ split'[q] \cap Held(q)' = {}
    BY DEF OneRole
  <2>2. /\ free[q] \cap (busy[q] \cup split[q] \cup Held(q)) = {}
        /\ busy[q] \cap (split[q] \cup Held(q)) = {}
        /\ split[q] \cap Held(q) = {}
    BY DEF IInv, OneRole
  <2> QED
    BY <1>1, <1>2, <1>3, <1>4, <2>1, <2>2 DEF IInv, TypeOK
<1>9. Tree'
  <2>1. split'[0] = {}
    BY <1>1, <1>2, Types DEF IInv, TypeOK, Tree
  <2>2. ASSUME NEW q \in 0 .. MAX_ORDER - 1, NEW j \in Index(q)
        PROVE  j \in Present(q)' <=> Parent(j) \in split'[q + 1]
    <3>1. j \in Present(q) <=> Parent(j) \in split[q + 1]
      BY DEF IInv, Tree
    <3>2. q \in Order /\ q + 1 \in Order /\ j \in Nat
      BY Indices
    <3>3. q # h => q + 1 # o
      BY <1>2, <3>2
    <3>4. CASE q # h
      <4>1. split'[q + 1] = split[q + 1]
        BY <1>1, <3>2, <3>3, <3>4 DEF IInv, TypeOK
      <4> QED
        BY <1>7, <3>1, <3>2, <3>4, <4>1
    <3>5. CASE q = h
      BY <1>1, <1>2, <1>4, <1>7, <3>1, <3>2, <3>5 DEF IInv, TypeOK
    <3> QED
      BY <3>4, <3>5
  <2>3. Index(MAX_ORDER) \subseteq Present(MAX_ORDER)'
    BY <1>2, <1>7, Types DEF IInv, Tree
  <2> QED
    BY <2>1, <2>2, <2>3 DEF Tree
<1>10. BitsOK'
  <2> SUFFICES ASSUME NEW q \in 0 .. MAX_ORDER - 1, NEW j \in Index(q), Parent(j) \in split'[q + 1]
               PROVE  /\ ~ (j \in free'[q] /\ Buddy(j) \in free'[q])
                      /\ BitAddr(q, j) \in bitmap' <=> j \in free'[q] \/ Buddy(j) \in free'[q]
    BY <1>3 DEF BitsOK
  <2>1. BitAddr(q, j) = BitAddr(h, 2 * i) <=> q = h /\ (j = 2 * i \/ j = 2 * i + 1)
    <3>1. Parent(2 * i) \in split'[h + 1]
      BY <1>1, <1>2, <1>4 DEF IInv, TypeOK
    <3>2. BitAddr(q, j) = BitAddr(h, 2 * i) => q = h /\ Parent(j) = i
      <4>1. BitAddr(q, 2 * Parent(j)) = BitAddr(q, j)
        BY Indices, Halves DEF BitAddr
      <4> QED
        BY <1>2, <1>4, <3>1, <4>1 DEF BitsApart
    <3>3. q = h /\ (j = 2 * i \/ j = 2 * i + 1) => BitAddr(q, j) = BitAddr(h, 2 * i)
      BY <1>4 DEF BitAddr
    <3> QED
      BY <1>4, <3>2, <3>3, Indices
  <2>2. Parent(j) \in split[q + 1] =>
          /\ ~ (j \in free[q] /\ Buddy(j) \in free[q])
          /\ BitAddr(q, j) \in bitmap <=> j \in free[q] \/ Buddy(j) \in free[q]
    BY <1>3 DEF IInv, BitsOK
  <2>3. Buddy(j) # j /\ Buddy(Buddy(j)) = j /\ q \in Order /\ q + 1 \in Order /\ j \in Nat
    BY Indices, Halves
  <2>4. 2 * i \notin free[h] /\ 2 * i + 1 \notin free[h]
    BY <1>5 DEF Present
  <2>5. CASE q = h /\ (j = 2 * i \/ j = 2 * i + 1)
    BY <1>1, <1>2, <1>4, <2>1, <2>4, <2>5 DEF IInv, TypeOK
  <2>6. CASE ~ (q = h /\ (j = 2 * i \/ j = 2 * i + 1))
    <3>1. Parent(j) \in split[q + 1]
      BY <1>1, <1>2, <1>4, <2>3, <2>6 DEF IInv, TypeOK
    <3>2. q = h => j # 2 * i + 1 /\ Buddy(j) # 2 * i + 1
      BY <1>4, <2>3, <2>6
    <3> QED
      BY <1>1, <1>2, <2>1, <2>2, <2>3, <2>6, <3>1, <3>2 DEF IInv, TypeOK
  <2> QED
    BY <2>5, <2>6
<1> QED
  BY <1>1, <1>6, <1>8, <1>9, <1>10 DEF IInv

\* Two free halves become a block, which stays in hand.
LEMMA MergeKeeps ==
    ASSUME BitsApart, IInv, TypeOK', NEW c \in Callers, Alone(c), MergeStep(c)
    PROVE  IInv'
<1> DEFINE o == order[c]  i == block[c]  b == Buddy(i)  p == Parent(i)
<1>1. /\ phase[c] = "merge" /\ phase'[c] = "merge" /\ o \in Order /\ i \in Nat /\ o < MAX_ORDER
      /\ BitAddr(o, i) \in bitmap
      /\ bitmap' = bitmap \ {BitAddr(o, i)}
      /\ free' = [free EXCEPT ![o] = @ \ {b}]
      /\ split' = [split EXCEPT ![o + 1] = @ \ {p}]
      /\ order'[c] = o + 1 /\ block'[c] = p
      /\ UNCHANGED <<busy, want>>
  BY DEF MergeStep, ClearBit, Extract, IInv, TypeOK
<1>2. o \in 0 .. MAX_ORDER - 1 /\ o + 1 \in Order /\ o + 1 # o /\ o + 1 # 0
  BY <1>1, Types DEF Order
<1>3. /\ \A q : Counted(q) = free[q] /\ Counted(q)' = free'[q]
      /\ \A q : Held(q) = IF o = q THEN {i} ELSE {}
      /\ \A q : Held(q)' = IF o + 1 = q THEN {p} ELSE {}
      /\ i \in Index(o)
  BY <1>1, NotOwning DEF Owning, IInv, InZone
<1>4. /\ b \in Index(o) /\ b \in Nat /\ p \in Index(o + 1)
      /\ b # i /\ Parent(b) = p /\ Buddy(b) = i
      /\ \A j \in Nat : Parent(j) = p <=> j = i \/ j = b
  <2>1. b \in Index(o) /\ p \in Index(o + 1)
    BY <1>2, <1>3, Indices
  <2>2. b \in Nat /\ b # i /\ Parent(b) = p /\ Buddy(b) = i
        /\ \A j \in Nat : Parent(j) = p <=> j = i \/ j = b
    BY <1>1, Halves
  <2> QED
    BY <2>1, <2>2
<1>5. p \in split[o + 1] /\ i \notin free[o] /\ b \in free[o]
  <2>1. i \in Present(o)
    BY <1>3 DEF Present
  <2>2. p \in split[o + 1]
    BY <1>2, <1>3, <2>1 DEF IInv, Tree
  <2>3. i \notin free[o]
    BY <1>1, <1>3 DEF IInv, OneRole
  <2> QED
    BY <1>1, <1>2, <1>3, <2>2, <2>3 DEF IInv, BitsOK
<1>6. corrupted' = FALSE
  BY <1>5 DEF MergeStep, Extract, IInv
<1>7. InZone' /\ CallOK'
  <2>1. \A q \in Order : \A j \in free'[q] \cup busy'[q] \cup split'[q] : j \in Index(q)
    <3> HIDE DEF o, i, b, p
    <3> QED BY <1>1, <1>2 DEF IInv, TypeOK, InZone
  <2>2. block'[c] \in Index(order'[c]) /\ phase'[c] \notin {"fit", "large", "split"}
    BY <1>1, <1>4
  <2> QED
    BY <2>1, <2>2 DEF InZone, CallOK, Alone, Owning
<1> HIDE DEF o, i, b, p
<1>8. /\ i \notin free[o] /\ i \notin busy[o] /\ i \notin split[o]
      /\ b \notin busy[o] /\ b \notin split[o] /\ p \notin free[o + 1] /\ p \notin busy[o + 1]
  BY <1>1, <1>2, <1>3, <1>5 DEF IInv, OneRole
<1>9. /\ \A q \in Order : q # o => Present(q)' = Present(q)
      /\ \A q \in Order : q = o => Present(q)' = Present(q) \ {i, b}
  <2>1. ASSUME NEW q \in Order, q # o, q # o + 1 PROVE Present(q)' = Present(q)
    BY <1>1, <1>3, <2>1 DEF IInv, TypeOK, Present
  <2>2. ASSUME NEW q \in Order, q = o + 1 PROVE Present(q)' = Present(q)
    BY <1>1, <1>2, <1>3, <1>5, <2>2 DEF IInv, TypeOK, Present
  <2>3. ASSUME NEW q \in Order, q = o PROVE Present(q)' = Present(q) \ {i, b}
    BY <1>1, <1>2, <1>3, <1>4, <1>8, <2>3 DEF IInv, TypeOK, Present
  <2> QED
    BY <2>1, <2>2, <2>3
<1>10. OneRole'
  <2> SUFFICES ASSUME NEW q \in Order
               PROVE  /\ free'[q] \cap (busy'[q] \cup split'[q] \cup Held(q)') = {}
                      /\ busy'[q] \cap (split'[q] \cup Held(q)') = {}
                      /\ split'[q] \cap Held(q)' = {}
    BY DEF OneRole
  <2>1. /\ free[q] \cap (busy[q] \cup split[q] \cup Held(q)) = {}
        /\ busy[q] \cap (split[q] \cup Held(q)) = {}
        /\ split[q] \cap Held(q) = {}
    BY DEF IInv, OneRole
  <2> QED
    BY <1>1, <1>2, <1>3, <1>8, <2>1 DEF IInv, TypeOK
<1>11. Tree'
  <2>1. split'[0] = {}
    BY <1>1, <1>2, Types DEF IInv, TypeOK, Tree
  <2>2. ASSUME NEW q \in 0 .. MAX_ORDER - 1, NEW j \in Index(q)
        PROVE  j \in Present(q)' <=> Parent(j) \in split'[q + 1]
    <3>1. j \in Present(q) <=> Parent(j) \in split[q + 1]
      BY DEF IInv, Tree
    <3>2. q \in Order /\ q + 1 \in Order /\ j \in Nat /\ q \in Nat /\ o \in Nat
      BY <1>1, Indices, Types
    <3>3. q # o => q + 1 # o + 1
      BY <3>2
    <3>4. CASE q # o
      <4>1. split'[q + 1] = split[q + 1]
        BY <1>1, <3>2, <3>3, <3>4 DEF IInv, TypeOK
      <4> QED
        BY <1>9, <3>1, <3>2, <3>4, <4>1
    <3>5. CASE q = o
      <4>1. split'[q + 1] = split[q + 1] \ {p}
        BY <1>1, <3>2, <3>5 DEF IInv, TypeOK
      <4>2. Present(q)' = Present(q) \ {i, b}
        BY <1>9, <3>2, <3>5
      <4> QED
        BY <1>4, <3>1, <3>2, <4>1, <4>2
    <3> QED
      BY <3>4, <3>5
  <2>3. Index(MAX_ORDER) \subseteq Present(MAX_ORDER)'
    BY <1>2, <1>9, Types DEF IInv, Tree
  <2> QED
    BY <2>1, <2>2, <2>3 DEF Tree
<1>12. BitsOK'
  <2> SUFFICES ASSUME NEW q \in 0 .. MAX_ORDER - 1, NEW j \in Index(q), Parent(j) \in split'[q + 1]
               PROVE  /\ ~ (j \in free'[q] /\ Buddy(j) \in free'[q])
                      /\ BitAddr(q, j) \in bitmap' <=> j \in free'[q] \/ Buddy(j) \in free'[q]
    BY <1>3 DEF BitsOK
  <2>1. Parent(j) \in split[q + 1]
    BY <1>1, <1>2, Indices DEF IInv, TypeOK
  <2>6. BitAddr(q, j) = BitAddr(o, i) <=> q = o /\ (j = i \/ j = b)
    BY <1>2, <1>3, <1>5, <2>1, BitOfPair DEF b, p
  <2>2. Buddy(j) # j /\ Buddy(Buddy(j)) = j /\ q \in Order /\ q + 1 \in Order /\ j \in Nat
    BY Indices, Halves
  <2>3. Parent(j) \in split[q + 1] /\ ~ (q = o /\ (j = i \/ j = b))
    BY <1>1, <1>2, <1>4, <2>2 DEF IInv, TypeOK
  <2>4. /\ ~ (j \in free[q] /\ Buddy(j) \in free[q])
        /\ BitAddr(q, j) \in bitmap <=> j \in free[q] \/ Buddy(j) \in free[q]
    BY <1>3, <2>3 DEF IInv, BitsOK
  <2>5. q = o => j # b /\ Buddy(j) # b
    BY <1>4, <2>2, <2>3
  <2> QED
    BY <1>1, <2>2, <2>3, <2>4, <2>5, <2>6 DEF IInv, TypeOK
<1> QED
  BY <1>6, <1>7, <1>10, <1>11, <1>12 DEF IInv

-----------------------------------------------------------------------------
(* The theorems. *)

\* Initially every page is in a free block of the largest order.
LEMMA InitIInv == Init => IInv
<1> SUFFICES ASSUME Init PROVE IInv
  OBVIOUS
<1>1. \A q : Held(q) = {} /\ Counted(q) = free[q]
  BY DEF Init, Held, Counted, Owning
<1>2. TypeOK
  BY Types DEF Init, TypeOK, Phase
<1>3. InZone /\ OneRole /\ CallOK
  BY <1>1, Types DEF Init, InZone, OneRole, CallOK, Owning
<1>4. \A q \in Order : split[q] = {}
  BY DEF Init
<1>5. \A q \in 0 .. MAX_ORDER - 1 : Present(q) = {} /\ split[q + 1] = {}
  <2> SUFFICES ASSUME NEW q \in 0 .. MAX_ORDER - 1 PROVE Present(q) = {} /\ split[q + 1] = {}
    OBVIOUS
  <2>1. q \in Order /\ q + 1 \in Order /\ q # MAX_ORDER
    BY Indices, Types
  <2> QED
    BY <1>1, <1>4, <2>1 DEF Init, Present
<1>6. Index(MAX_ORDER) \subseteq Present(MAX_ORDER)
  BY Types DEF Init, Present
<1>7. Tree /\ BitsOK
  BY <1>4, <1>5, <1>6, Types DEF Tree, BitsOK
<1> QED
  BY <1>2, <1>3, <1>7 DEF Init, IInv

\* Every step of a caller that is alone preserves the invariant, if the bits of
\* the pairs that exist before and after it are apart.
LEMMA NextIInv ==
    ASSUME IInv, Serial, Serial', BitsApart, BitsApart', [Next]_vars
    PROVE  IInv'
<1>1. CASE Next
  <2>1. PICK c \in Callers : Begin(c) \/ Continue(c)
    BY <1>1 DEF Next
  <2>2. TypeOK'
    BY <2>1, TypeStep DEF IInv
  <2>3. Alone(c)
    BY <2>1, StepsAlone DEF IInv
  <2> QED
    BY <2>1, <2>2, <2>3, AllocKeeps, TakeKeeps, PassKeeps, StopKeeps, SplitKeeps, MergeKeeps
       DEF Begin, Continue
<1>2. CASE UNCHANGED vars
  <2>1. UNCHANGED <<TypeOK, InZone, OneRole, Tree, BitsOK, CallOK>>
    BY <1>2 DEF vars, TypeOK, InZone, OneRole, Tree, BitsOK, CallOK, Held, Present, Counted
  <2> QED
    BY <1>2, <2>1 DEF vars, IInv
<1> QED
  BY <1>1, <1>2

\* The variables of the allocator keep their types, whoever is inside it: the
\* order in hand never leaves the orders that have lists and bitmaps.
THEOREM FrameTypes == Spec => []TypeOK
<1>1. Init => TypeOK
  BY InitIInv DEF IInv
<1>2. TypeOK /\ [Next]_vars => TypeOK'
  <2>1. TypeOK /\ UNCHANGED vars => TypeOK'
    BY DEF TypeOK, vars
  <2> QED
    BY <2>1, TypeStep DEF Next
<1> QED
  BY <1>1, <1>2, PTL DEF Spec

\* The inductive invariant of the specification with history.
THEOREM FrameInvariant == HistSpec => [](exposed \/ (IInv /\ Serial /\ BitsApart))
<1> DEFINE Inv == exposed \/ (IInv /\ Serial /\ BitsApart)
<1>1. HistInit => Inv
  <2> SUFFICES ASSUME HistInit PROVE IInv /\ Serial /\ BitsApart
    OBVIOUS
  <2>1. IInv
    BY InitIInv DEF HistInit
  <2>2. Serial
    BY DEF HistInit, Init, Serial
  <2>3. \A q \in 0 .. MAX_ORDER - 1 : split[q + 1] = {}
    BY Indices DEF HistInit, Init
  <2> QED
    BY <2>1, <2>2, <2>3 DEF BitsApart
<1>2. Inv /\ [HistNext]_<<vars, exposed>> => Inv'
  <2> SUFFICES ASSUME Inv, [HistNext]_<<vars, exposed>>, ~ exposed'
               PROVE  IInv' /\ Serial' /\ BitsApart'
    OBVIOUS
  <2>1. CASE HistNext
    <3>1. Next /\ Remember
      BY <2>1 DEF HistNext, Next
    <3>2. ~ exposed /\ Serial' /\ BitsApart'
      BY <3>1 DEF Remember
    <3> QED
      BY <3>1, <3>2, NextIInv
  <2>2. CASE UNCHANGED <<vars, exposed>>
    <3>1. UNCHANGED <<TypeOK, InZone, OneRole, Tree, BitsOK, CallOK, Serial, BitsApart>>
      BY <2>2 DEF vars, TypeOK, InZone, OneRole, Tree, BitsOK, CallOK, Held, Present, Counted,
                  Serial, BitsApart
    <3> QED
      BY <2>2, <3>1 DEF vars, IInv
  <2> QED
    BY <2>1, <2>2
<1> QED
  BY <1>1, <1>2, PTL DEF HistSpec

\* Between calls no two buddies are both free.
LEMMA BuddiesMerged == IInv => Coalesced
<1> SUFFICES ASSUME IInv, Idle, NEW o \in 0 .. MAX_ORDER - 1, NEW i \in free[o]
             PROVE  Buddy(i) \notin free[o]
  BY DEF Coalesced
<1>1. o \in Order /\ i \in Index(o)
  BY Indices DEF IInv, InZone
<1>2. i \in Present(o) /\ free[o] \subseteq Counted(o)
  BY DEF Present, Counted
<1>3. Parent(i) \in split[o + 1]
  BY <1>1, <1>2 DEF IInv, Tree
<1> QED
  BY <1>1, <1>2, <1>3 DEF IInv, BitsOK

-----------------------------------------------------------------------------
(* Who owns a page. *)

\* A page of a block is a page of the block that it is a half of; and no two
\* blocks of an order have a page in common.
LEMMA PagesUp ==
    ASSUME NEW o \in Nat, NEW i \in Nat, NEW page \in Pages(o, i)
    PROVE  /\ page \in Pages(o + 1, Parent(i))
           /\ \A j \in Nat : page \in Pages(o, j) => j = i
<1>1. Pow2[o] \in Nat /\ Pow2[o + 1] = 2 * Pow2[o]
  BY Pow2Def
<1>2. PICK w \in Nat : w = Pow2[o]
  BY <1>1
<1>3. page \in Int /\ i * w <= page /\ page < (i + 1) * w
  BY <1>2 DEF Pages
<1>4. page \in Pages(o + 1, Parent(i))
  <2>1. CASE i = 2 * Parent(i)
    <3>1. Parent(i) \in Nat
      BY Halves
    <3>2. Parent(i) * (2 * w) = i * w /\ (Parent(i) + 1) * (2 * w) = (i + 1) * w + w
      BY <2>1, <3>1
    <3> QED
      BY <1>1, <1>2, <1>3, <3>1, <3>2 DEF Pages
  <2>2. CASE i = 2 * Parent(i) + 1
    <3>1. Parent(i) \in Nat
      BY Halves
    <3>2. Parent(i) * (2 * w) + w = i * w /\ (Parent(i) + 1) * (2 * w) = (i + 1) * w
      <4>1. PICK k \in Nat : k = Parent(i)
        BY <3>1
      <4>2. i = 2 * k + 1 /\ (2 * k + 1) * w = 2 * (k * w) + w /\ k * (2 * w) = 2 * (k * w)
        BY <2>2, <4>1
      <4>3. (k + 1) * (2 * w) = 2 * (k * w) + 2 * w /\ (2 * k + 1 + 1) * w = 2 * (k * w) + 2 * w
        OBVIOUS
      <4> QED
        BY <4>1, <4>2, <4>3
    <3> QED
      BY <1>1, <1>2, <1>3, <3>1, <3>2 DEF Pages
  <2> QED
    BY <2>1, <2>2 DEF Parent
<1>5. ASSUME NEW j \in Nat, page \in Pages(o, j) PROVE j = i
  <2>1. j * w <= page /\ page < (j + 1) * w
    BY <1>2, <1>5 DEF Pages
  <2>2. ASSUME NEW m \in Nat, NEW n \in Nat, m < n PROVE (m + 1) * w <= n * w
    <3>1. n = m + 1 + (n - m - 1) /\ n - m - 1 \in Nat
      BY <2>2
    <3>2. n * w = (m + 1) * w + (n - m - 1) * w /\ (n - m - 1) * w \in Nat
      BY <3>1
    <3> QED
      BY <3>2
  <2>3. ~ (j < i) /\ ~ (i < j)
    BY <1>3, <2>1, <2>2
  <2> QED
    BY <2>3
<1> QED
  BY <1>4, <1>5

\* The blocks that a page lies in, one of each order, from the page up.
LEMMA Ancestors ==
    ASSUME NEW page \in Index(0)
    PROVE  \E a \in [Order -> Nat] :
              /\ \A o \in Order : a[o] \in Index(o) /\ page \in Pages(o, a[o])
              /\ \A o \in 0 .. MAX_ORDER - 1 : a[o + 1] = Parent(a[o])
<1> DEFINE step == [n \in Nat |-> [v \in Nat |-> Parent(v)]]
<1>1. page \in Nat /\ step \in [Nat -> [Nat -> Nat]]
  BY Types, Halves
<1>2. PICK g : IsSequence(g, Nat, page, step)
  <2> HIDE DEF step
  <2> QED BY <1>1, Recursion
<1>3. g \in [Nat -> Nat] /\ g[0] = page /\ \A n \in Nat : g[n + 1] = Parent(g[n])
  BY <1>2 DEF IsSequence
<1> DEFINE Good == {n \in Nat : page \in Pages(n, g[n]) /\ (n <= MAX_ORDER => g[n] \in Index(n))}
<1>4. 0 \in Good
  BY <1>1, <1>3, Pow2Def DEF Pages
<1>5. ASSUME NEW n \in Nat, n \in Good PROVE n + 1 \in Good
  <2>1. page \in Pages(n + 1, g[n + 1])
    BY <1>3, <1>5, PagesUp
  <2>2. ASSUME n + 1 <= MAX_ORDER PROVE g[n + 1] \in Index(n + 1)
    <3>1. n \in 0 .. MAX_ORDER - 1 /\ n <= MAX_ORDER
      BY <2>2, Types
    <3> QED
      BY <1>3, <1>5, <3>1, Indices
  <2> QED
    BY <2>1, <2>2
<1>6. Nat \subseteq Good
  <2> HIDE DEF Good
  <2> QED BY <1>4, <1>5, InductionSet
<1> DEFINE a == [o \in Order |-> g[o]]
<1>7. a \in [Order -> Nat]
  BY <1>3, Types
<1>8. \A o \in Order : a[o] \in Index(o) /\ page \in Pages(o, a[o])
  BY <1>6, Types
<1>9. \A o \in 0 .. MAX_ORDER - 1 : a[o + 1] = Parent(a[o])
  BY <1>3, Indices, Types
<1> HIDE DEF a
<1> QED
  BY <1>7, <1>8, <1>9

\* The blocks that own their pages are those that exist and are not in halves.
LEMMA WholeBlocks ==
    ASSUME IInv, NEW o \in Order, NEW i \in Index(o)
    PROVE  <<o, i>> \in Whole <=> i \in Present(o) /\ i \notin split[o]
<1>1. i \in Held(o) <=> \E c \in Callers : InHand(c, o, i)
  BY DEF Held, InHand, Owning
<1>2. i \in Index(0)
  BY FewerLarger
<1>3. <<o, i>> \in Whole <=> i \in free[o] \cup busy[o] \/ \E c \in Callers : InHand(c, o, i)
  BY <1>2 DEF Whole
<1> QED
  BY <1>1, <1>3 DEF IInv, OneRole, Present

\* Every page belongs to exactly one block: free, handed out or in hand.
LEMMA PagesOwned == IInv => Partition
<1>1. ASSUME IInv PROVE Partition
  <2> SUFFICES ASSUME NEW page \in Index(0)
               PROVE  Cardinality({x \in Whole : page \in Pages(x[1], x[2])}) = 1
    BY DEF Partition
  <2>1. PICK a \in [Order -> Nat] :
              /\ \A o \in Order : a[o] \in Index(o) /\ page \in Pages(o, a[o])
              /\ \A o \in 0 .. MAX_ORDER - 1 : a[o + 1] = Parent(a[o])
    BY Ancestors
  <2>2. \A o \in 0 .. MAX_ORDER - 1 : a[o] \in Present(o) <=> a[o + 1] \in split[o + 1]
    BY <1>1, <2>1, Indices DEF IInv, Tree
  <2> DEFINE Top == {o \in Order : a[o] \in Present(o)}
  <2>3. PICK m \in Top : \A o \in Top : m <= o
    <3>1. Top \in SUBSET Nat /\ MAX_ORDER \in Top
      BY <1>1, <2>1, Types DEF IInv, Tree
    <3> HIDE DEF Top
    <3> QED BY <3>1, LeastNat
  <2>4. m \in Order /\ m \in Nat /\ a[m] \in Present(m)
    BY <2>3, Types
  <2>5. a[m] \notin split[m]
    <3>1. CASE m = 0
      BY <1>1, <3>1 DEF IInv, Tree
    <3>2. CASE m # 0
      <4>1. m - 1 \in 0 .. MAX_ORDER - 1 /\ m - 1 + 1 = m /\ m - 1 \in Order /\ ~ (m <= m - 1)
        BY <2>4, <3>2, Types, Indices
      <4>2. a[m - 1] \notin Present(m - 1)
        BY <2>3, <4>1
      <4> QED
        BY <2>2, <4>1, <4>2
    <3> QED
      BY <3>1, <3>2
  <2>6. \A o \in Order : m < o => a[o] \in split[o]
    <3> DEFINE Good == {n \in Nat : m + n + 1 <= MAX_ORDER => a[m + n + 1] \in split[m + n + 1]}
    <3>1. 0 \in Good
      <4> SUFFICES ASSUME m + 0 + 1 <= MAX_ORDER PROVE a[m + 0 + 1] \in split[m + 0 + 1]
        OBVIOUS
      <4>1. m \in 0 .. MAX_ORDER - 1 /\ m + 0 + 1 = m + 1
        BY <2>4, Types
      <4> QED
        BY <2>2, <2>4, <4>1
    <3>2. ASSUME NEW n \in Nat, n \in Good PROVE n + 1 \in Good
      <4> SUFFICES ASSUME m + (n + 1) + 1 <= MAX_ORDER
                   PROVE  a[m + (n + 1) + 1] \in split[m + (n + 1) + 1]
        OBVIOUS
      <4>1. /\ m + n + 1 \in 0 .. MAX_ORDER - 1 /\ m + (n + 1) + 1 = m + n + 1 + 1
            /\ m + n + 1 <= MAX_ORDER
        BY <2>4, Types
      <4>2. a[m + n + 1] \in Present(m + n + 1)
        BY <3>2, <4>1 DEF Present
      <4> QED
        BY <2>2, <4>1, <4>2
    <3>3. Nat \subseteq Good
      <4> HIDE DEF Good
      <4> QED BY <3>1, <3>2, InductionSet
    <3>4. ASSUME NEW o \in Order, m < o PROVE a[o] \in split[o]
      <4>1. o - m - 1 \in Nat /\ m + (o - m - 1) + 1 = o /\ o <= MAX_ORDER
        BY <2>4, <3>4, Types
      <4> QED
        BY <3>3, <4>1
    <3> QED
      BY <3>4
  <2>7. <<m, a[m]>> \in Whole
    BY <1>1, <2>1, <2>4, <2>5, WholeBlocks
  <2>8. ASSUME NEW x \in Whole, page \in Pages(x[1], x[2]) PROVE x = <<m, a[m]>>
    <3>1. x \in Order \X Index(0) /\ x = <<x[1], x[2]>> /\ x[1] \in Order /\ x[1] \in Nat /\ x[2] \in Nat
      <4>1. x \in Order \X Index(0)
        BY <2>8 DEF Whole
      <4>2. x = <<x[1], x[2]>> /\ x[1] \in Order /\ x[2] \in Index(0)
        BY <4>1
      <4> QED
        BY <4>1, <4>2, Types
    <3>2. x[2] = a[x[1]]
      BY <2>1, <2>8, <3>1, PagesUp
    <3>3. a[x[1]] \in Present(x[1]) /\ a[x[1]] \notin split[x[1]]
      BY <1>1, <2>1, <3>1, <3>2, WholeBlocks
    <3>4. m <= x[1] /\ ~ (m < x[1])
      BY <2>3, <2>6, <3>1, <3>3
    <3> QED
      BY <2>4, <3>1, <3>2, <3>4
  <2>9. {x \in Whole : page \in Pages(x[1], x[2])} = {<<m, a[m]>>}
    BY <2>1, <2>4, <2>7, <2>8
  <2> QED
    BY <2>9, FS_Singleton
<1> QED
  BY <1>1

(* zone_alloc and zone_dealloc are right until two paths are inside or two *)
(* pairs that exist share a bit, for every zone, layout, content of the    *)
(* bitmaps, number of callers and sequence of calls.                       *)

\* No block is handed out twice or merged while it is in use: list_extract is
\* applied only to a block that is in the list.
THEOREM FrameIntact == HistSpec => []Intact
<1>1. (exposed \/ (IInv /\ Serial /\ BitsApart)) => Intact
  BY DEF IInv, NoCorruption, Intact
<1> QED
  BY <1>1, FrameInvariant, PTL

\* Every page is free, handed out or in the hands of a caller, and only one of
\* these, whatever zone_alloc has split and zone_dealloc has merged.
THEOREM FrameOwned == HistSpec => []Owned
<1>1. (exposed \/ (IInv /\ Serial /\ BitsApart)) => Owned
  BY PagesOwned DEF Owned
<1> QED
  BY <1>1, FrameInvariant, PTL

\* zone_dealloc leaves no two buddies free.
THEOREM FrameMerged == HistSpec => []Merged
<1>1. (exposed \/ (IInv /\ Serial /\ BitsApart)) => Merged
  BY BuddiesMerged DEF Merged
<1> QED
  BY <1>1, FrameInvariant, PTL
=============================================================================
