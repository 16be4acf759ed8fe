----------------------------- MODULE MCAreaList -----------------------------
(***************************************************************************)
(* Areas and preemption points for model checking AreaList.                *)
(***************************************************************************)
EXTENDS AreaList, TLC

\* A stack, and an area that reaches from below into it.
Two == {[start |-> 2, size |-> 1, flags |-> "uw"],
        [start |-> 1, size |-> 2, flags |-> "u"]}

\* Everywhere except between the read of next_free and its update.  A switch at
\* alloc_test is left out because the step before it touches nothing that another
\* caller uses: it has the effect of a switch before that step.
OutsidePop == Point \ {"alloc_test", "alloc_read", "alloc_pop", "panic"}

\* Callers and address spaces are interchangeable, and no property is a liveness
\* property.
Interchangeable == Permutations(Callers) \cup Permutations(Vm)
=============================================================================
