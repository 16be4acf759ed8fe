----------------------------- MODULE FrameAlloc -----------------------------
(***************************************************************************)
(* The buddy allocator of physical frames (mm/frame_alloc.c), for one zone *)
(* that zone_add has set up; frames_alloc and frames_free only search for  *)
(* the zone to use.                                                        *)
(*                                                                         *)
(* A block of order o is named by its index in the zone: block i of order  *)
(* o + 1 has the halves 2i and 2i + 1 of order o, which are buddies and    *)
(* share bit i of that order's bitmap.  Indices stand for addresses: zones *)
(* are aligned to the largest block, so FLIP_BIT(addr, 12 + o) is the      *)
(* buddy's index.  A free list is the set of its blocks: which block is at *)
(* the head is left open.                                                  *)
(*                                                                         *)
(* Callers are the kernel paths inside the allocator.  Only the timer can  *)
(* interleave them, and it can: system calls run with interrupts enabled.  *)
(***************************************************************************)
EXTENDS Common, FiniteSets

CONSTANTS
    MAX_ORDER,    \* order of the largest block
    BlockCount,   \* BlockCount[o]: blocks of order o that the zone has room for
    Requests,     \* numbers of pages that callers ask for
    OrderBits,    \* bits from the bitmap of an order to that of the next
    Callers       \* kernel paths that may be inside the allocator

Order == 0 .. MAX_ORDER
Index(o) == 0 .. BlockCount[o] - 1

\* pages2order: the first order whose block is large enough.
pages2order(n) == CHOOSE o \in Order : n <= Pow2[o] /\ \A q \in 0 .. o - 1 : Pow2[q] < n

ASSUME FrameAssumption ==
    /\ MAX_ORDER \in Nat
    /\ BlockCount \in [Order -> Nat]
    /\ \A o \in Order : o < MAX_ORDER => BlockCount[o] = 2 * BlockCount[o + 1]
    /\ OrderBits \in Nat
    /\ \A n \in Requests : pages2order(n) \in Order

\* The block that block i is a half of, and the other half.
Parent(i) == i \div 2
Buddy(i) == IF i % 2 = 0 THEN i + 1 ELSE i - 1

\* What zone_add sets OrderBits to: the bitmap of every order gets the size that
\* the order MAX_ORDER would need, in whole bytes, one bitmap after the other.
order_bitmap_size == 8 * DIV_ROUNDUP(BlockCount[MAX_ORDER] \div 2, 8)
BitAddr(o, i) == o * OrderBits + Parent(i)

VARIABLES
    free,       \* free[o]: blocks in the free list of order o
    busy,       \* busy[o]: blocks of order o handed out
    bitmap,     \* addresses of the bits that are set
    phase,      \* where a caller is: idle, about to extract a block (fit,
                \* large), splitting, coalescing, inserting, panic
    order,      \* order of the block a caller has in hand
    block,      \* index of that block
    want,       \* order it has to return
    split,      \* history: blocks that exist as two halves
    corrupted   \* list_extract was applied to a block that was in no list

vars == <<free, busy, bitmap, phase, order, block, want, split, corrupted>>

\* The bits of the zone's pairs; the memory behind the bitmaps is not cleared.
Bits == UNION {{BitAddr(o, i) : i \in Index(o)} : o \in 0 .. MAX_ORDER - 1}

Init ==
    /\ free = [o \in Order |-> IF o = MAX_ORDER THEN Index(o) ELSE {}]
    /\ busy = [o \in Order |-> {}]
    /\ bitmap \in SUBSET Bits
    /\ phase = [c \in Callers |-> "idle"]
    /\ order = [c \in Callers |-> 0]
    /\ block = [c \in Callers |-> 0]
    /\ want = [c \in Callers |-> 0]
    /\ split = [o \in Order |-> {}]
    /\ corrupted = FALSE

-----------------------------------------------------------------------------
(* Helpers *)

SetBit(a)   == bitmap' = bitmap \cup {a}
ClearBit(a) == bitmap' = bitmap \ {a}
FlipBit(a)  == bitmap' = IF a \in bitmap THEN bitmap \ {a} ELSE bitmap \cup {a}

\* list_init of block i and list_insert_after the head of order o.
Link(o, i) == free' = [free EXCEPT ![o] = @ \cup {i}]

\* list_extract of block i of order o.
Extract(o, i) ==
    /\ free' = [free EXCEPT ![o] = @ \ {i}]
    /\ corrupted' = (corrupted \/ i \notin free[o])

\* Caller c leaves; what it had in hand is forgotten.
Return(c) ==
    /\ phase' = [phase EXCEPT ![c] = "idle"]
    /\ order' = [order EXCEPT ![c] = 0]
    /\ block' = [block EXCEPT ![c] = 0]
    /\ want' = [want EXCEPT ![c] = 0]

Goto(c, from, to) ==
    /\ phase[c] = from
    /\ phase' = [phase EXCEPT ![c] = to]

-----------------------------------------------------------------------------
(* zone_alloc *)

\* The free list of the order asked for has a block: the first one is read.
AllocFit(c) ==
    /\ Goto(c, "idle", "fit")
    /\ \E n \in Requests :
          /\ \E i \in free[pages2order(n)] : block' = [block EXCEPT ![c] = i]
          /\ order' = [order EXCEPT ![c] = pages2order(n)]
          /\ want' = [want EXCEPT ![c] = pages2order(n)]
    /\ UNCHANGED <<free, busy, bitmap, split, corrupted>>

\* Mutant: the pair's bit is left as it is.
TakeFit_NoFlip(c) ==
    /\ phase[c] = "fit"
    /\ order[c] < MAX_ORDER
    /\ Extract(order[c], block[c])
    /\ busy' = [busy EXCEPT ![order[c]] = @ \cup {block[c]}]
    /\ Return(c)
    /\ UNCHANGED <<bitmap, split>>

\* It is extracted, its pair's bit flipped, and it is returned.
TakeFit(c) ==
    /\ phase[c] = "fit"
    /\ order[c] < MAX_ORDER
    /\ Extract(order[c], block[c])
    /\ FlipBit(BitAddr(order[c], block[c]))
    /\ busy' = [busy EXCEPT ![order[c]] = @ \cup {block[c]}]
    /\ Return(c)
    /\ UNCHANGED split

\* The bitmap of MAX_ORDER is NULL: the flip is a page fault.
TakeFitNull(c) ==
    /\ Goto(c, "fit", "panic")
    /\ order[c] = MAX_ORDER
    /\ Extract(order[c], block[c])
    /\ UNCHANGED <<busy, bitmap, order, block, want, split>>

\* Only a larger order has blocks: the first one of the smallest is read.
AllocLarger(c) ==
    /\ Goto(c, "idle", "large")
    /\ \E n \in Requests, o \in Order :
          /\ pages2order(n) < o
          /\ \A q \in pages2order(n) .. o - 1 : free[q] = {}
          /\ \E i \in free[o] : block' = [block EXCEPT ![c] = i]
          /\ order' = [order EXCEPT ![c] = o]
          /\ want' = [want EXCEPT ![c] = pages2order(n)]
    /\ UNCHANGED <<free, busy, bitmap, split, corrupted>>

TakeLarger(c) ==
    /\ Goto(c, "large", "split")
    /\ Extract(order[c], block[c])
    /\ IF order[c] < MAX_ORDER
       THEN FlipBit(BitAddr(order[c], block[c]))
       ELSE UNCHANGED bitmap
    /\ UNCHANGED <<busy, order, block, want, split>>

\* Mutant: the loop runs once too often.
SplitStep_TooFar(c) ==
    /\ phase[c] = "split"
    /\ order[c] >= want[c]
    /\ SetBit(BitAddr(order[c] - 1, 2 * block[c]))
    /\ order' = [order EXCEPT ![c] = order[c] - 1]
    /\ block' = [block EXCEPT ![c] = 2 * block[c]]
    /\ UNCHANGED <<free, busy, phase, want, split, corrupted>>

\* Mutant: the half that is kept is put on the free list.
SplitStep_SameHalf(c) ==
    /\ phase[c] = "split"
    /\ order[c] > want[c]
    /\ SetBit(BitAddr(order[c] - 1, 2 * block[c]))
    /\ Link(order[c] - 1, 2 * block[c])
    /\ split' = [split EXCEPT ![order[c]] = @ \cup {block[c]}]
    /\ order' = [order EXCEPT ![c] = order[c] - 1]
    /\ block' = [block EXCEPT ![c] = 2 * block[c]]
    /\ UNCHANGED <<busy, phase, want, corrupted>>

\* One iteration of the splitting loop: the second half becomes free.
SplitStep(c) ==
    /\ phase[c] = "split"
    /\ order[c] > want[c]
    /\ SetBit(BitAddr(order[c] - 1, 2 * block[c]))
    /\ Link(order[c] - 1, 2 * block[c] + 1)
    /\ split' = [split EXCEPT ![order[c]] = @ \cup {block[c]}]
    /\ order' = [order EXCEPT ![c] = order[c] - 1]
    /\ block' = [block EXCEPT ![c] = 2 * block[c]]
    /\ UNCHANGED <<busy, phase, want, corrupted>>

SplitDone(c) ==
    /\ phase[c] = "split"
    /\ order[c] = want[c]
    /\ busy' = [busy EXCEPT ![order[c]] = @ \cup {block[c]}]
    /\ Return(c)
    /\ UNCHANGED <<free, bitmap, split, corrupted>>

-----------------------------------------------------------------------------
(* zone_dealloc: callers give back a block with the size they got it with. *)

Free(c) ==
    /\ Goto(c, "idle", "merge")
    /\ \E o \in Order : \E i \in busy[o] :
          /\ busy' = [busy EXCEPT ![o] = @ \ {i}]
          /\ order' = [order EXCEPT ![c] = o]
          /\ block' = [block EXCEPT ![c] = i]
    /\ UNCHANGED <<free, bitmap, want, split, corrupted>>

\* The pair's bit is set: the buddy is taken for free and is coalesced with.
MergeStep(c) ==
    /\ phase[c] = "merge"
    /\ order[c] < MAX_ORDER
    /\ BitAddr(order[c], block[c]) \in bitmap
    /\ ClearBit(BitAddr(order[c], block[c]))
    /\ Extract(order[c], Buddy(block[c]))
    /\ split' = [split EXCEPT ![order[c] + 1] = @ \ {Parent(block[c])}]
    /\ order' = [order EXCEPT ![c] = order[c] + 1]
    /\ block' = [block EXCEPT ![c] = Parent(block[c])]
    /\ UNCHANGED <<busy, phase, want>>

\* Mutant: the bit is not tested.
MergeStop_Always(c) ==
    /\ Goto(c, "merge", "insert")
    /\ order[c] < MAX_ORDER
    /\ SetBit(BitAddr(order[c], block[c]))
    /\ UNCHANGED <<free, busy, order, block, want, split, corrupted>>

\* "Buddy is busy - can't coalesce"
MergeStop(c) ==
    /\ Goto(c, "merge", "insert")
    /\ order[c] < MAX_ORDER
    /\ BitAddr(order[c], block[c]) \notin bitmap
    /\ SetBit(BitAddr(order[c], block[c]))
    /\ UNCHANGED <<free, busy, order, block, want, split, corrupted>>

MergeTop(c) ==
    /\ Goto(c, "merge", "insert")
    /\ order[c] = MAX_ORDER
    /\ UNCHANGED <<free, busy, bitmap, order, block, want, split, corrupted>>

Insert(c) ==
    /\ phase[c] = "insert"
    /\ Link(order[c], block[c])
    /\ Return(c)
    /\ UNCHANGED <<busy, bitmap, split, corrupted>>

-----------------------------------------------------------------------------
\* Steps of a call that has begun, and calls.
Continue(c) ==
    \/ TakeFit(c) \/ TakeFitNull(c) \/ TakeLarger(c) \/ SplitStep(c) \/ SplitDone(c)
    \/ MergeStep(c) \/ MergeStop(c) \/ MergeTop(c) \/ Insert(c)

Begin(c) == AllocFit(c) \/ AllocLarger(c) \/ Free(c)

Next == \E c \in Callers : Begin(c) \/ Continue(c)

Spec == Init /\ [][Next]_vars

-----------------------------------------------------------------------------
(* Properties *)

Phase == {"idle", "fit", "large", "split", "merge", "insert", "panic"}

TypeOK ==
    /\ free \in [Order -> SUBSET Nat]
    /\ busy \in [Order -> SUBSET Nat]
    /\ split \in [Order -> SUBSET Nat]
    /\ phase \in [Callers -> Phase]
    /\ order \in [Callers -> Order]
    /\ block \in [Callers -> Nat]
    /\ want \in [Callers -> Order]
    /\ corrupted \in BOOLEAN

\* Caller c owns block i of order o: it is in no list and not handed out.
InHand(c, o, i) ==
    phase[c] \in {"split", "merge", "insert", "panic"} /\ order[c] = o /\ block[c] = i

Idle == \A c \in Callers : phase[c] = "idle"

\* list_extract is only ever applied to a block that is in the list: a buddy
\* that is coalesced with really is free, and a block is handed out once.
NoCorruption == ~ corrupted

\* No two pairs of blocks share a bit: what zone_add's layout has to provide.
DisjointBitmaps ==
    \A o, q \in 0 .. MAX_ORDER - 1 : \A i \in Index(o), j \in Index(q) :
        BitAddr(o, i) = BitAddr(q, j) => o = q /\ Parent(i) = Parent(j)

Pages(o, i) == i * Pow2[o] .. (i + 1) * Pow2[o] - 1

\* The blocks that own their pages.
Whole == {x \in Order \X Index(0) :
             \/ x[2] \in free[x[1]] \cup busy[x[1]]
             \/ \E c \in Callers : InHand(c, x[1], x[2])}

\* Every page of the zone belongs to exactly one block: free, handed out, or in
\* the hands of a caller.  No page is lost or given to two owners, whatever
\* splits and merges have happened.
Partition ==
    \A page \in Index(0) :
        Cardinality({x \in Whole : page \in Pages(x[1], x[2])}) = 1

\* Between calls no two buddies are both free: zone_dealloc coalesces as far as
\* it can, so a zone given back entirely consists of largest blocks again.
Coalesced ==
    Idle => \A o \in 0 .. MAX_ORDER - 1 : \A i \in free[o] : Buddy(i) \notin free[o]
=============================================================================
