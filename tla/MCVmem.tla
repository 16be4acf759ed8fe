------------------------------- MODULE MCVmem -------------------------------
(***************************************************************************)
(* Areas for model checking Vmem: pages are numbered from 0, where the     *)
(* user code is.                                                           *)
(***************************************************************************)
EXTENDS Vmem

Area(start, size, fl) == [start |-> start, size |-> size, flags |-> fl]

\* Two stacks of one page that any task may write to, in two page tables.
Stacks == {Area(1, 1, {VMEM_USER, VMEM_WRITE}), Area(2, 1, {VMEM_USER, VMEM_WRITE})}
=============================================================================
