------------------------------ MODULE AreaSpec ------------------------------
(***************************************************************************)
(* What the areas of address spaces are to their users: each address space *)
(* has a sequence of areas, the newest first, and an operation on one      *)
(* address space leaves the others alone.                                  *)
(***************************************************************************)
EXTENDS Sequences, SequencesExt

CONSTANTS Vm, Areas

VARIABLES
    exists,   \* the address spaces that can be used
    areas     \* their areas; empty for the others

specVars == <<exists, areas>>

SInit == exists = {} /\ areas = [v \in Vm |-> <<>>]

Create(v) ==
    /\ v \notin exists
    /\ exists' = exists \cup {v}
    /\ UNCHANGED areas

Insert(v, a) ==
    /\ v \in exists
    /\ areas' = [areas EXCEPT ![v] = <<a>> \o @]
    /\ UNCHANGED exists

Withdraw(v, k) ==
    /\ v \in exists
    /\ k \in DOMAIN areas[v]
    /\ areas' = [areas EXCEPT ![v] = RemoveAt(@, k)]
    /\ UNCHANGED exists

\* The copy is made by inserting each area at the front: its order is reversed.
Copy(src, dst) ==
    /\ src \in exists /\ dst \notin exists
    /\ exists' = exists \cup {dst}
    /\ areas' = [areas EXCEPT ![dst] = Reverse(areas[src])]

Drop(v) ==
    /\ v \in exists
    /\ exists' = exists \ {v}
    /\ areas' = [areas EXCEPT ![v] = <<>>]

\* Either which address spaces there are changes, or the areas of one of them.
SNext ==
    \/ /\ exists' # exists
       /\ \/ \E v \in Vm : Create(v) \/ Drop(v)
          \/ \E src, dst \in Vm : Copy(src, dst)
    \/ /\ areas' # areas
       /\ \/ \E v \in Vm, a \in Areas : Insert(v, a)
          \/ \E v \in Vm : \E k \in DOMAIN areas[v] : Withdraw(v, k)

SSpec == SInit /\ [][SNext]_specVars
=============================================================================
