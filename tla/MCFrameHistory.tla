-------------------------- MODULE MCFrameHistory --------------------------
(***************************************************************************)
(* FrameHistory on the zones of MCFrameAlloc.                              *)
(***************************************************************************)
EXTENDS MCFrameAlloc, FrameHistory

\* Nothing is claimed once the allocator is exposed: TLC does not go further.
Unexposed == ~ exposed
=============================================================================
