-------------------------------- MODULE List --------------------------------
(***************************************************************************)
(* The intrusive list (utils/list.c): operations on memory, a record of    *)
(* the next and prev words of every node.  A list has no object of its     *)
(* own: a node whose next is itself is an empty list.                      *)
(***************************************************************************)
EXTENDS Integers

ListEmpty(l, node) == l.next[node] = node

ListInit(l, node) ==
    [next |-> [l.next EXCEPT ![node] = node],
     prev |-> [l.prev EXCEPT ![node] = node]]

\* Mutant: the old successor keeps its prev.
ListInsertAfter_NoBack(l, node, new) ==
    [next |-> [l.next EXCEPT ![node] = new, ![new] = l.next[node]],
     prev |-> [l.prev EXCEPT ![new] = node]]

ListInsertAfter(l, node, new) ==
    [next |-> [l.next EXCEPT ![node] = new, ![new] = l.next[node]],
     prev |-> [l.prev EXCEPT ![new] = node, ![l.next[node]] = new]]

\* The extracted node keeps its own words.
ListExtract(l, node) ==
    [next |-> [l.next EXCEPT ![l.prev[node]] = l.next[node]],
     prev |-> [l.prev EXCEPT ![l.next[node]] = l.prev[node]]]

\* The nodes of S are closed under next and prev, and each direction undoes
\* the other: what list_extract relies on when it joins the neighbours.
WellLinked(l, S) ==
    \A n \in S :
        /\ l.next[n] \in S /\ l.prev[n] \in S
        /\ l.prev[l.next[n]] = n
        /\ l.next[l.prev[n]] = n
=============================================================================
