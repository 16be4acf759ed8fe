-------------------------------- MODULE Zones -------------------------------
(***************************************************************************)
(* How the frame allocator turns the firmware's memory map into zones      *)
(* (frame_alloc_init and zone_add of mm/frame_alloc.c).  Addresses are     *)
(* bytes; the offset of the direct mapping is left out, it is a multiple   *)
(* of every alignment used.                                                *)
(***************************************************************************)
EXTENDS Common

CONSTANTS
    PAGE_SIZE,
    MAX_ORDER,
    MAX_ZONE_COUNT,
    KernelEnd,      \* _phys_end_kernel_sections
    InfoStart,      \* mb_boot_info
    InfoSize        \* its total_size

ASSUME ZonesAssumption ==
    /\ PAGE_SIZE \in Nat \ {0} /\ MAX_ORDER \in Nat /\ MAX_ZONE_COUNT \in Nat \ {0}
    /\ KernelEnd \in Nat /\ InfoStart \in Nat /\ InfoSize \in Nat

Block == PAGE_SIZE * Pow2[MAX_ORDER]    \* bytes in the largest block

\* The kernel's sections and the multiboot information are kept.
reserved_end ==
    LET info == InfoStart + ROUNDUP(InfoSize, PAGE_SIZE)
    IN  ROUNDUP(IF info > KernelEnd THEN info ELSE KernelEnd, PAGE_SIZE)

Usable(e) == e.type \in {"RAM", "HIBER"}

\* What frame_alloc_init makes of a usable entry: its first address and its
\* size in pages, none when the kernel covers it.
Region(e) ==
    LET base == ROUNDUP(e.base, PAGE_SIZE)
        pages == e.length \div PAGE_SIZE
    IN  IF base >= reserved_end THEN [base |-> base, pages |-> pages]
        ELSE IF reserved_end >= base + pages * PAGE_SIZE THEN [base |-> base, pages |-> 0]
        ELSE [base |-> reserved_end, pages |-> pages - (reserved_end - base) \div PAGE_SIZE]

\* Bytes that the bitmaps up to each order may need, by the code's estimate.
BytesUpTo(pages) ==
    LET sum[i \in 0 .. MAX_ORDER] ==
            DIV_ROUNDUP((pages \div Pow2[i]) \div 2, 8) + IF i = 0 THEN 0 ELSE sum[i - 1]
    IN  sum

EstimatedBytes(pages) == BytesUpTo(pages)[MAX_ORDER]

\* Mutant: the end is rounded up.
ZoneAt_RoundUp(addr, pages) ==
    LET reserved == DIV_ROUNDUP(EstimatedBytes(pages), PAGE_SIZE)
        start == ROUNDUP(addr + PAGE_SIZE * reserved, Block)
        end == ROUNDUP(start + (pages - reserved) * PAGE_SIZE, Block)
    IN  [bitmap |-> addr, start |-> start, end |-> end,
         pages_count |-> (end - start) \div PAGE_SIZE]

\* zone_add: the bitmaps come first, the blocks follow from an aligned address
\* on.  The end is counted from the aligned start with the pages that were
\* left before the alignment.
ZoneAt(addr, pages) ==
    LET reserved == DIV_ROUNDUP(EstimatedBytes(pages), PAGE_SIZE)
        start == ROUNDUP(addr + PAGE_SIZE * reserved, Block)
        end == ROUNDDOWN(start + (pages - reserved) * PAGE_SIZE, Block)
    IN  [bitmap |-> addr, start |-> start, end |-> end,
         pages_count |-> (end - start) \div PAGE_SIZE]

\* A zone_t, without its lists.
Zone == [bitmap : Nat, start : Nat, end : Nat, pages_count : Nat]

\* Where the bitmap of an order begins.
BitmapStart(zone, i) ==
    zone.bitmap + i * DIV_ROUNDUP((zone.pages_count \div Pow2[MAX_ORDER]) \div 2, 8)

\* One past the last byte of it that zone_alloc and zone_dealloc use: one bit
\* for each pair of blocks of the order.
BitmapEnd(zone, i) ==
    BitmapStart(zone, i) + DIV_ROUNDUP(DIV_ROUNDUP(zone.pages_count \div Pow2[i], 2), 8)

\* The zone that frames_free takes an address for: the first that spans it.
ZoneOf(zones, addr) ==
    LET spans == {i \in DOMAIN zones : zones[i].start <= addr /\ addr < zones[i].end}
    IN  IF spans = {} THEN 0 ELSE CHOOSE i \in spans : \A j \in spans : i <= j
=============================================================================
