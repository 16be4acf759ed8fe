---------------------------- MODULE FrameHistory ----------------------------
(***************************************************************************)
(* FrameAlloc with a history variable that remembers whether one of the    *)
(* allocator's two known weaknesses has ever come into play: two kernel    *)
(* paths inside it at once (nothing in mm/frame_alloc.c excludes it), or   *)
(* two pairs of blocks that exist at once and share a bit of the bitmaps   *)
(* (the sizes zone_add computes allow it).                                 *)
(***************************************************************************)
EXTENDS FrameAlloc

VARIABLE exposed

\* At most one caller is inside the allocator.
Serial == \A c, d \in Callers : phase[c] # "idle" /\ phase[d] # "idle" => c = d

\* The pairs of halves that exist now have bits of their own.
BitsApart ==
    \A o, q \in 0 .. MAX_ORDER - 1 : \A p \in split[o + 1], r \in split[q + 1] :
        BitAddr(o, 2 * p) = BitAddr(q, 2 * r) => o = q /\ p = r

Remember == exposed' = (exposed \/ ~ Serial' \/ ~ BitsApart')

HistInit == Init /\ exposed = FALSE

HistNext == \E c \in Callers : (Begin(c) \/ Continue(c)) /\ Remember

HistSpec == HistInit /\ [][HistNext]_<<vars, exposed>>

(***************************************************************************)
(* Until then the allocator is right, for any sequence of calls and        *)
(* whatever the bitmaps contained: what goes wrong in zone_alloc and       *)
(* zone_dealloc begins with a second path inside or with a shared bit.     *)
(***************************************************************************)

\* Until then list_extract is only applied to a block that is in the list: a
\* block is handed out once, and none is merged with a busy buddy.
Intact == exposed \/ NoCorruption

\* Until then every page of the zone has exactly one owner: splits and merges
\* lose no page and give none to two.
Owned == exposed \/ Partition

\* Until then no two buddies are both free between calls: zone_dealloc merges
\* as far as it can.
Merged == exposed \/ Coalesced
=============================================================================
