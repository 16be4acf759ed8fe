--------------------------- MODULE MCFrameAlloc ---------------------------
(***************************************************************************)
(* Zones for model checking FrameAlloc.                                    *)
(***************************************************************************)
EXTENDS FrameAlloc

ZoneOf(n) == [o \in 0 .. MAX_ORDER |-> n * 2^(MAX_ORDER - o)]

\* Two largest blocks: with MAX_ORDER = 2 the bitmaps of orders 0 and 1 (4 and
\* 2 bits) fit the byte that zone_add reserves for each of them.
TwoBlocks == ZoneOf(2)

\* One largest block: zone_add reserves no byte at all.
OneBlock == ZoneOf(1)
=============================================================================
