--------------------------- MODULE AreaListProofs ---------------------------
(***************************************************************************)
(* The object allocator and the area lists, for any number of callers,     *)
(* address spaces, objects and areas, when no caller is preempted between  *)
(* the test of next_free and its update.                                   *)
(***************************************************************************)
EXTENDS AreaList, CommonProofs, FiniteSetTheorems

-----------------------------------------------------------------------------
(* What the list operations do to a well-linked set of nodes, for lists of *)
(* any size in memory of any size.                                         *)

\* Memory: every node of M has both words; what they point to is not known.
Memory(l, M) ==
    /\ l.next = [n \in M |-> l.next[n]]
    /\ l.prev = [n \in M |-> l.prev[n]]

\* list_init makes a node a list of its own and leaves a list it is not part
\* of as it was.
THEOREM InitLinks ==
    ASSUME NEW M, NEW S \in SUBSET M, NEW node \in M, NEW l,
           Memory(l, M), WellLinked(l, S), node \notin S
    PROVE  /\ WellLinked(ListInit(l, node), {node})
           /\ WellLinked(ListInit(l, node), S)
           /\ ListEmpty(ListInit(l, node), node)
  BY DEF Memory, WellLinked, ListInit, ListEmpty

\* list_insert_after of a node that is in no list adds exactly that node to
\* the ring and keeps it linked in both directions (vmem_alloc_pages and the
\* loop of vmem_clone insert after the list head).
THEOREM InsertLinks ==
    ASSUME NEW M, NEW S \in SUBSET M, NEW node \in S, NEW new \in M \ S, NEW l,
           Memory(l, M), WellLinked(l, S)
    PROVE  /\ WellLinked(ListInsertAfter(l, node, new), S \cup {new})
           /\ ListInsertAfter(l, node, new).next[node] = new
           /\ ListInsertAfter(l, node, new).next[new] = l.next[node]
<1> DEFINE k == ListInsertAfter(l, node, new)
<1> DEFINE old == l.next[node]
<1>1. /\ old \in S /\ old \in M /\ node \in M
      /\ k.next = [l.next EXCEPT ![node] = new, ![new] = old]
      /\ k.prev = [l.prev EXCEPT ![new] = node, ![old] = new]
  BY DEF WellLinked, ListInsertAfter
<1>2. \A n \in M : k.next[n] = IF n = new THEN old ELSE IF n = node THEN new ELSE l.next[n]
  BY <1>1 DEF Memory
<1>3. \A n \in M : k.prev[n] = IF n = old THEN new ELSE IF n = new THEN node ELSE l.prev[n]
  BY <1>1 DEF Memory
<1> HIDE DEF k
<1>4. WellLinked(k, S \cup {new})
  <2> SUFFICES ASSUME NEW n \in S \cup {new}
               PROVE  /\ k.next[n] \in S \cup {new} /\ k.prev[n] \in S \cup {new}
                      /\ k.prev[k.next[n]] = n
                      /\ k.next[k.prev[n]] = n
    BY DEF WellLinked
  <2>1. CASE n = new
    BY <2>1, <1>1, <1>2, <1>3
  <2>2. CASE n # new
    <3>1. /\ n \in S /\ l.next[n] \in S /\ l.prev[n] \in S
          /\ l.prev[l.next[n]] = n /\ l.next[l.prev[n]] = n
      BY <2>2 DEF WellLinked
    <3>2. l.next[n] = old => n = node
      BY <3>1 DEF WellLinked
    <3>3. l.prev[n] = node => n = old
      BY <3>1
    <3> QED
      BY <2>2, <3>1, <3>2, <3>3, <1>1, <1>2, <1>3
  <2> QED
    BY <2>1, <2>2
<1> QED
  BY <1>1, <1>2, <1>4 DEF k

\* list_extract of a node that is not alone takes exactly that node out of the
\* ring and joins its neighbours (vmem_free_pages, vmem_destroy).
THEOREM ExtractLinks ==
    ASSUME NEW M, NEW S \in SUBSET M, NEW node \in S, NEW l,
           Memory(l, M), WellLinked(l, S), ~ ListEmpty(l, node)
    PROVE  WellLinked(ListExtract(l, node), S \ {node})
<1> DEFINE k == ListExtract(l, node)
<1> DEFINE before == l.prev[node]
<1> DEFINE after == l.next[node]
<1>1. /\ before \in S /\ after \in S /\ before # node /\ after # node
      /\ l.next[before] = node /\ l.prev[after] = node
      /\ k.next = [l.next EXCEPT ![before] = after]
      /\ k.prev = [l.prev EXCEPT ![after] = before]
  BY DEF WellLinked, ListExtract, ListEmpty
<1>2. \A n \in M : k.next[n] = IF n = before THEN after ELSE l.next[n]
  BY <1>1 DEF Memory
<1>3. \A n \in M : k.prev[n] = IF n = after THEN before ELSE l.prev[n]
  BY <1>1 DEF Memory
<1> HIDE DEF k
<1>4. ASSUME NEW n \in S \ {node}
      PROVE  /\ k.next[n] \in S \ {node} /\ k.prev[n] \in S \ {node}
             /\ k.prev[k.next[n]] = n
             /\ k.next[k.prev[n]] = n
  <2>1. /\ n \in S /\ n # node /\ l.next[n] \in S /\ l.prev[n] \in S
        /\ l.prev[l.next[n]] = n /\ l.next[l.prev[n]] = n
    BY DEF WellLinked
  <2>2. /\ l.next[n] = node => n = before
        /\ l.prev[n] = node => n = after
        /\ l.next[n] = after => n = node
        /\ l.prev[n] = before => n = node
    BY <2>1, <1>1
  <2> QED
    BY <2>1, <2>2, <1>1, <1>2, <1>3
<1>5. WellLinked(k, S \ {node})
  BY <1>4 DEF WellLinked
<1> QED
  BY <1>5 DEF k

-----------------------------------------------------------------------------
(* Walking a list. *)

Link == Object \cup {NULL}
Mem == [next : [Object -> Link], prev : [Object -> Link]]
Count == PerPage * MaxPages

\* The numbers of objects.
LEMMA Counting == Count \in Nat /\ Object = 1 .. Count /\ 0 \notin Object
<1>1. Count \in Nat
  BY AreaAssumption DEF Count
<1> QED
  BY <1>1 DEF Object, Count

\* step takes n steps along the list from h without coming back to h or to an
\* end; then it does, unless it has taken as many as there are objects.
IsWalk(step, n, h) ==
    /\ step \in [0 .. Count -> Link] /\ n \in 0 .. Count /\ step[0] = h
    /\ \A k \in 1 .. Count : step[k - 1] # NULL => step[k] = mem.next[step[k - 1]]
    /\ \A k \in 1 .. n : step[k] \notin {h, NULL}
    /\ n < Count => step[n + 1] \in {h, NULL}
    /\ Walk(h) = [k \in 1 .. n |-> step[k]]

\* What Walk computes.
LEMMA WalkDef ==
    ASSUME mem \in Mem, NEW h \in Link
    PROVE  \E step, n : IsWalk(step, n, h)
<1> DEFINE follow == [o \in Object \cup {NULL} |-> IF o = NULL THEN NULL ELSE mem.next[o]]
<1>0. NULL \in Link
  BY DEF Link
<1>1. follow \in [Link -> Link]
  BY <1>0 DEF Link, Mem
<1> DEFINE every == [n \in Nat |-> follow]
<1>2. PICK g : IsSequence(g, Link, h, every)
  <2>1. every \in [Nat -> [Link -> Link]]
    BY <1>1
  <2> HIDE DEF every
  <2> QED BY <2>1, Recursion
<1>3. g \in [Nat -> Link] /\ g[0] = h /\ \A n \in Nat : g[n + 1] = follow[g[n]]
  BY <1>2 DEF IsSequence
<1> DEFINE s == [k \in 0 .. PerPage * MaxPages |-> g[k]]
<1>4. s = [k \in 0 .. PerPage * MaxPages |-> IF k = 0 THEN h ELSE follow[s[k - 1]]]
  <2>1. ASSUME NEW k \in 0 .. PerPage * MaxPages
        PROVE  g[k] = IF k = 0 THEN h ELSE follow[s[k - 1]]
    <3>1. CASE k = 0
      BY <1>3, <3>1
    <3>2. CASE k # 0
      <4>1. k - 1 \in 0 .. PerPage * MaxPages /\ k - 1 \in Nat /\ k - 1 + 1 = k
        BY <3>2, Counting DEF Count
      <4> HIDE DEF follow
      <4> QED
        BY <1>3, <3>2, <4>1
    <3> QED
      BY <3>1, <3>2
  <2> QED
    BY <2>1
<1> DEFINE step == CHOOSE f : f = [k \in 0 .. PerPage * MaxPages |-> IF k = 0 THEN h ELSE follow[f[k - 1]]]
<1>5. step = [k \in 0 .. PerPage * MaxPages |-> IF k = 0 THEN h ELSE follow[step[k - 1]]]
  BY <1>4, Zenon
<1> DEFINE K == {k \in 1 .. PerPage * MaxPages : \A j \in 1 .. k : step[j] \notin {h, NULL}}
           n == Cardinality(K)
<1>6. Walk(h) = [k \in 1 .. n |-> step[k]]
  BY DEF Walk
<1> HIDE DEF step, s
<1>7. step \in [0 .. Count -> Link] /\ step[0] = h /\ \A k \in 1 .. Count : step[k] = follow[step[k - 1]]
  <2> HIDE DEF follow
  <2>1. /\ step = [k \in 0 .. Count |-> IF k = 0 THEN h ELSE follow[step[k - 1]]]
        /\ Count \in Nat
    BY <1>5, Counting DEF Count
  <2>2. step[0] = h /\ \A k \in 1 .. Count : step[k] = follow[step[k - 1]]
    BY <2>1
  <2> DEFINE Good == {k \in Nat : k <= Count => step[k] \in Link}
  <2>3. 0 \in Good
    BY <2>2
  <2>4. ASSUME NEW k \in Nat, k \in Good PROVE k + 1 \in Good
    <3> SUFFICES ASSUME k + 1 <= Count PROVE step[k + 1] \in Link
      OBVIOUS
    <3>1. k + 1 \in 1 .. Count /\ k + 1 - 1 = k /\ step[k] \in Link
      BY <2>1, <2>4
    <3>2. step[k + 1] = follow[step[k]]
      BY <2>2, <3>1
    <3> QED
      BY <1>1, <3>1, <3>2
  <2>5. Nat \subseteq Good
    <3> HIDE DEF Good
    <3> QED BY <2>3, <2>4, InductionSet
  <2> QED
    BY <2>1, <2>2, <2>5
<1>8. \A k \in 1 .. Count : step[k - 1] # NULL => step[k] = mem.next[step[k - 1]]
  <2> SUFFICES ASSUME NEW k \in 1 .. Count, step[k - 1] # NULL PROVE step[k] = mem.next[step[k - 1]]
    OBVIOUS
  <2>1. k - 1 \in 0 .. Count
    BY Counting
  <2>2. step[k - 1] \in Link /\ step[k] = follow[step[k - 1]]
    BY <1>7, <2>1
  <2> QED
    BY <2>2 DEF Link
<1> HIDE DEF follow
<1>9. \E m \in 0 .. Count : K = 1 .. m /\ (m < Count => step[m + 1] \in {h, NULL})
  <2> DEFINE Bad == {j \in 1 .. Count : step[j] \in {h, NULL}}
  <2>1. CASE Bad = {}
    <3>1. K = 1 .. Count /\ Count \in 0 .. Count /\ ~ (Count < Count)
      BY <2>1, Counting DEF Count
    <3> QED
      BY <3>1
  <2>2. CASE Bad # {}
    <3>1. PICK b \in Bad : \A j \in Bad : b <= j
      <4>1. Bad \in SUBSET Nat
        BY Counting
      <4> HIDE DEF Bad
      <4> QED BY <2>2, <4>1, LeastNat
    <3>2. b \in 1 .. Count /\ b - 1 \in 0 .. Count /\ b - 1 + 1 = b
      BY <3>1, Counting
    <3>3. K = 1 .. b - 1
      BY <3>1, <3>2, Counting DEF Count
    <3> QED
      BY <3>1, <3>2, <3>3
  <2> QED
    BY <2>1, <2>2
<1>10. PICK m \in 0 .. Count : K = 1 .. m /\ (m < Count => step[m + 1] \in {h, NULL})
  BY <1>9
<1>11. n = m
  <2>1. Cardinality(1 .. m) = m
    BY Counting, FS_Interval
  <2> QED
    BY <1>10, <2>1
<1>12. \A k \in 1 .. m : step[k] \notin {h, NULL}
  <2> SUFFICES ASSUME NEW k \in 1 .. m PROVE step[k] \notin {h, NULL}
    OBVIOUS
  <2>1. k \in K /\ k \in 1 .. k
    BY <1>10, Counting
  <2> QED
    BY <2>1
<1> HIDE DEF n, K
<1>13. IsWalk(step, n, h)
  BY <1>6, <1>7, <1>8, <1>10, <1>11, <1>12 DEF IsWalk
<1> QED
  BY <1>13

\* A walk stays in a set that the links do not lead out of.
LEMMA WalkInside ==
    ASSUME mem \in Mem, NEW S \in SUBSET Object, \A o \in S : mem.next[o] \in S \cup {NULL},
           NEW h \in S
    PROVE  WalkSet(h) \subseteq S \ {h}
<1>0. h \in Link
  BY DEF Link
<1>1. PICK step, n : IsWalk(step, n, h)
  BY <1>0, WalkDef
<1>2. ASSUME NEW k \in Nat, step[k] \in S \cup {NULL}, k + 1 <= n PROVE step[k + 1] \in S \cup {NULL}
  <2>1. k + 1 \in 1 .. Count /\ k + 1 - 1 = k /\ k <= Count /\ n \in Nat
    BY <1>1, <1>2, Counting DEF IsWalk
  <2>2. step[k] \in S \cup {NULL}
    BY <1>2, <2>1
  <2>3. step[k] # NULL
    <3>1. CASE k = 0
      BY <1>1, <3>1, Counting DEF IsWalk, NULL
    <3>2. CASE k # 0
      <4>1. k \in 1 .. n
        BY <1>2, <2>1, <3>2
      <4> QED
        BY <1>1, <4>1 DEF IsWalk
    <3> QED
      BY <3>1, <3>2
  <2>4. step[k + 1] = mem.next[step[k]]
    BY <1>1, <2>1, <2>3 DEF IsWalk
  <2> QED
    BY <2>2, <2>3, <2>4
<1> DEFINE Fine == {k \in Nat : k <= n => step[k] \in S \cup {NULL}}
<1>3. Nat \subseteq Fine
  <2>1. 0 \in Fine
    BY <1>1 DEF IsWalk
  <2>2. ASSUME NEW k \in Nat, k \in Fine PROVE k + 1 \in Fine
    <3> SUFFICES ASSUME k + 1 <= n PROVE step[k + 1] \in S \cup {NULL}
      OBVIOUS
    <3>1. n \in Nat /\ k <= n
      BY <1>1, Counting DEF IsWalk
    <3> QED
      BY <1>2, <2>2, <3>1
  <2> HIDE DEF Fine
  <2> QED BY <2>1, <2>2, InductionSet
<1>4. \A k \in 1 .. n : step[k] \in S \ {h}
  <2> SUFFICES ASSUME NEW k \in 1 .. n PROVE step[k] \in S \ {h}
    OBVIOUS
  <2>1. k \in Nat /\ k <= n /\ step[k] \notin {h, NULL}
    BY <1>1, Counting DEF IsWalk
  <2> QED
    BY <1>3, <2>1
<1>5. WalkSet(h) = {step[k] : k \in 1 .. n}
  BY <1>1 DEF WalkSet, IsWalk
<1> QED
  BY <1>4, <1>5

\* A walk around a ring of links comes back to where it started: it takes fewer
\* steps than there are objects, because no object comes twice.
LEMMA WalkReturns ==
    ASSUME mem \in Mem, NEW S \in SUBSET Object, WellLinked(mem, S), NEW h \in S,
           NEW step, NEW n, IsWalk(step, n, h)
    PROVE  /\ n < Count /\ step[n + 1] = h
           /\ \A k \in 0 .. n : step[k] \in S /\ step[k + 1] = mem.next[step[k]]
<1>0. Count \in Nat /\ n \in Nat /\ n <= Count /\ step \in [0 .. Count -> Link] /\ step[0] = h
  BY Counting DEF IsWalk
<1> DEFINE Fine == {k \in Nat : k <= n => step[k] \in S}
<1>1. Nat \subseteq Fine
  <2>1. 0 \in Fine
    BY <1>0
  <2>2. ASSUME NEW k \in Nat, k \in Fine PROVE k + 1 \in Fine
    <3> SUFFICES ASSUME k + 1 <= n PROVE step[k + 1] \in S
      OBVIOUS
    <3>1. k <= n /\ k + 1 \in 1 .. Count /\ k + 1 - 1 = k /\ step[k] \in S
      BY <1>0, <2>2
    <3>2. step[k] # NULL
      BY <3>1, Counting DEF NULL
    <3>3. step[k + 1] = mem.next[step[k]]
      BY <3>1, <3>2 DEF IsWalk
    <3> QED
      BY <3>1, <3>3 DEF WellLinked
  <2> HIDE DEF Fine
  <2> QED BY <2>1, <2>2, InductionSet
<1>2. \A k \in 0 .. n : step[k] \in S
  BY <1>0, <1>1
<1>3. \A k \in 0 .. n : k < Count => step[k + 1] = mem.next[step[k]] /\ mem.prev[step[k + 1]] = step[k]
  <2> SUFFICES ASSUME NEW k \in 0 .. n, k < Count
               PROVE  step[k + 1] = mem.next[step[k]] /\ mem.prev[step[k + 1]] = step[k]
    OBVIOUS
  <2>1. k + 1 \in 1 .. Count /\ k + 1 - 1 = k /\ step[k] \in S
    BY <1>0, <1>2
  <2>2. step[k] # NULL
    BY <2>1, Counting DEF NULL
  <2>3. step[k + 1] = mem.next[step[k]]
    BY <2>1, <2>2 DEF IsWalk
  <2> QED
    BY <2>1, <2>3 DEF WellLinked
\* Two equal steps would mean that the walk came back to h before.
<1>4. \A i \in Nat : \A j \in Nat : i < j /\ j <= n => step[i] # step[j]
  <2> DEFINE Apart == {i \in Nat : \A j \in Nat : i < j /\ j <= n => step[i] # step[j]}
  <2>1. 0 \in Apart
    <3> SUFFICES ASSUME NEW j \in Nat, 0 < j, j <= n PROVE step[0] # step[j]
      OBVIOUS
    <3>1. j \in 1 .. n
      BY <1>0
    <3> QED
      BY <1>0, <3>1 DEF IsWalk
  <2>2. ASSUME NEW i \in Nat, i \in Apart PROVE i + 1 \in Apart
    <3> SUFFICES ASSUME NEW j \in Nat, i + 1 < j, j <= n, step[i + 1] = step[j] PROVE FALSE
      OBVIOUS
    <3>1. j - 1 \in Nat /\ i < j - 1 /\ j - 1 <= n /\ j - 1 + 1 = j /\ i \in 0 .. n /\ j - 1 \in 0 .. n
      BY <1>0
    <3>2. i < Count /\ j - 1 < Count
      BY <1>0, <3>1
    <3>3. mem.prev[step[i + 1]] = step[i] /\ mem.prev[step[j]] = step[j - 1]
      BY <1>3, <3>1, <3>2
    <3> QED
      BY <2>2, <3>1, <3>3
  <2>3. Nat \subseteq Apart
    <3> HIDE DEF Apart
    <3> QED BY <2>1, <2>2, InductionSet
  <2> QED
    BY <2>3
<1>5. n < Count
  <2> SUFFICES ASSUME n = Count PROVE FALSE
    BY <1>0
  <2> DEFINE f == [k \in 0 .. n |-> step[k]]
  <2>1. f \in [0 .. n -> 1 .. n]
    BY <1>2, Counting
  <2>2. /\ IsFiniteSet(0 .. n) /\ Cardinality(0 .. n) = n + 1
        /\ IsFiniteSet(1 .. n) /\ Cardinality(1 .. n) = n
    <3>1. 0 \in Int /\ n \in Int /\ 1 \in Int
      BY <1>0
    <3>2. /\ IsFiniteSet(0 .. n) /\ Cardinality(0 .. n) = IF 0 > n THEN 0 ELSE n - 0 + 1
          /\ IsFiniteSet(1 .. n) /\ Cardinality(1 .. n) = IF 1 > n THEN 0 ELSE n - 1 + 1
      BY <3>1, FS_Interval
    <3> QED
      BY <1>0, <3>2
  <2>3. Cardinality(1 .. n) < Cardinality(0 .. n)
    BY <1>0, <2>2
  <2> HIDE DEF f
  <2>4. PICK x \in 0 .. n, y \in 0 .. n : x # y /\ f[x] = f[y]
    <3> DEFINE D == 0 .. n  T == 1 .. n
    <3>1. IsFiniteSet(D) /\ IsFiniteSet(T) /\ Cardinality(T) < Cardinality(D) /\ f \in [D -> T]
      BY <2>1, <2>2, <2>3
    <3> HIDE DEF D, T
    <3>2. \E x, y \in D : x # y /\ f[x] = f[y]
      BY <3>1, FS_PigeonHole
    <3> QED
      BY <3>2 DEF D
  <2>5. x \in Nat /\ y \in Nat /\ x <= n /\ y <= n /\ step[x] = step[y] /\ (x < y \/ y < x)
    BY <1>0, <2>4 DEF f
  <2> QED
    BY <1>4, <2>5
<1>6. step[n + 1] = h
  <2>1. n \in 0 .. n
    BY <1>0
  <2>2. step[n] \in S /\ step[n + 1] = mem.next[step[n]] /\ step[n + 1] \in {h, NULL}
    BY <1>2, <1>3, <1>5, <2>1 DEF IsWalk
  <2>3. step[n + 1] \in S
    BY <2>2 DEF WellLinked
  <2> QED
    BY <2>2, <2>3, Counting DEF NULL
<1>7. \A k \in 0 .. n : k < Count
  BY <1>0, <1>5
<1> QED
  BY <1>2, <1>3, <1>5, <1>6, <1>7

\* What a walk around a ring collects is a ring.
LEMMA WalkRing ==
    ASSUME mem \in Mem, NEW S \in SUBSET Object, WellLinked(mem, S), NEW h \in S
    PROVE  WellLinked(mem, {h} \cup WalkSet(h))
<1>0. h \in Link
  BY DEF Link
<1>1. PICK step, n : IsWalk(step, n, h)
  BY <1>0, WalkDef
<1>2. /\ n < Count /\ step[n + 1] = h /\ step[0] = h /\ n \in Nat
      /\ \A k \in 0 .. n : step[k] \in S /\ step[k + 1] = mem.next[step[k]]
  <2>1. step[0] = h /\ n \in Nat
    BY <1>1, Counting DEF IsWalk
  <2>2. /\ n < Count /\ step[n + 1] = h
        /\ \A k \in 0 .. n : step[k] \in S /\ step[k + 1] = mem.next[step[k]]
    BY <1>1, WalkReturns
  <2> QED
    BY <2>1, <2>2
<1> DEFINE R == {h} \cup WalkSet(h)
<1>3. R = {step[k] : k \in 0 .. n}
  <2>1. WalkSet(h) = {step[k] : k \in 1 .. n}
    BY <1>1 DEF WalkSet, IsWalk
  <2>2. \A k : k \in 0 .. n <=> k = 0 \/ k \in 1 .. n
    BY <1>2
  <2> QED
    BY <1>2, <2>1, <2>2
<1>4. R = {step[k + 1] : k \in 0 .. n}
  <2>1. \A k \in 0 .. n : step[k + 1] \in R
    <3> SUFFICES ASSUME NEW k \in 0 .. n PROVE step[k + 1] \in R
      OBVIOUS
    <3>1. k = n \/ k + 1 \in 0 .. n
      BY <1>2
    <3> HIDE DEF R
    <3> QED
      BY <1>2, <1>3, <3>1 DEF R
  <2>2. \A k \in 0 .. n : \E j \in 0 .. n : step[k] = step[j + 1]
    <3> SUFFICES ASSUME NEW k \in 0 .. n PROVE \E j \in 0 .. n : step[k] = step[j + 1]
      OBVIOUS
    <3>1. CASE k = 0
      BY <1>2, <3>1
    <3>2. CASE k # 0
      <4>1. k - 1 \in 0 .. n /\ k - 1 + 1 = k
        BY <1>2, <3>2
      <4> QED
        BY <4>1
    <3> QED
      BY <3>1, <3>2
  <2> HIDE DEF R
  <2> QED
    BY <1>3, <2>1, <2>2
<1>5. ASSUME NEW m \in R
      PROVE  /\ mem.next[m] \in R /\ mem.prev[m] \in R
             /\ mem.prev[mem.next[m]] = m /\ mem.next[mem.prev[m]] = m
  <2>1. PICK k \in 0 .. n : m = step[k]
    BY <1>3
  <2>2. PICK j \in 0 .. n : m = step[j + 1]
    BY <1>4
  <2>3. m \in S /\ step[j] \in S /\ mem.next[m] = step[k + 1] /\ mem.next[step[j]] = m
    BY <1>2, <2>1, <2>2
  <2>4. mem.prev[m] = step[j]
    BY <2>3 DEF WellLinked
  <2>5. mem.next[m] \in R /\ mem.prev[m] \in R
    <3> HIDE DEF R
    <3> QED BY <1>3, <1>4, <2>3, <2>4
  <2> QED
    BY <2>3, <2>5 DEF WellLinked
<1> QED
  BY <1>5 DEF WellLinked

-----------------------------------------------------------------------------
(* The inductive invariant. *)

\* No caller is stopped between the test of next_free and its update.
Undisturbed == {"alloc_read", "alloc_pop"} \cap SwitchPoints = {}

Space == Vm \cup {NoVm}
CallFrame ==
    [pc : Point, ret : Point, vm : Space, src : Space, want : Areas \cup {NoArea}, node : Link, obj : Link]

Types ==
    /\ mem \in Mem
    /\ area \in [Object -> Areas \cup {NoArea}]
    /\ next_free \in Link
    /\ pages \in 0 .. MaxPages
    /\ head \in [Vm -> Link]
    /\ status \in [Vm -> {"none", "new", "live", "dying"}]

\* What a caller is doing or will do once it has an object.
Task(k) == IF k.pc \in {"alloc_test", "alloc_refill", "alloc_read", "alloc_pop"} THEN k.ret ELSE k.pc

Cloning == {"clone_next", "clone_link"}
Linking == {"init_list", "area_link", "clone_link"}
Freeing == {"free_obj", "destroy_free"}
Using == Cloning \cup {"area_link", "destroy_next", "destroy_free", "destroy_head"}

GoodCall ==
    {k \in CallFrame :
        /\ k.pc \in {"alloc_test", "alloc_refill", "alloc_read", "alloc_pop"} => k.ret \in Linking
        /\ Task(k) \in Using \cup {"init_list"} => k.vm \in Vm
        /\ Task(k) \in Cloning => k.src \in Vm
        /\ k.src \in Vm => k.src # k.vm}

\* The address spaces whose list a caller relies on.
Uses(k) == {v \in Vm : v = k.src \/ (v = k.vm /\ Task(k) \in Using)}

\* Callers work on different address spaces, whose lists exist; next_free is
\* not NULL, and it is the object read, until it is updated.
CallsOK ==
    /\ call \in [Callers -> GoodCall]
    /\ \A c, d \in Callers : c # d => {call[c].vm, call[c].src} \cap {call[d].vm, call[d].src} \subseteq {NoVm}
    /\ \A c \in Callers : call[c].pc \in {"alloc_read", "alloc_pop"} => next_free # NULL
    /\ \A c \in Callers : call[c].pc = "alloc_pop" => call[c].obj = next_free
    /\ \A c \in Callers : \A v \in Uses(call[c]) : head[v] # NULL
    /\ \A v \in Vm : status[v] = "live" => head[v] # NULL

\* The free objects: links lead downwards and next_free is the highest.
Chain(F, m, nf) ==
    /\ nf # NULL => nf \in F
    /\ \A o \in F : m.next[o] \in F \cup {NULL} /\ m.next[o] < o /\ o <= nf

\* The list of an address space.
Ring(S, m, h) == h # NULL => h \in S /\ WellLinked(m, S)

\* The object that a caller is about to link or to free.
Carries(k, S) == (k.pc \in Linking => k.obj \in S) /\ (k.pc \in Freeing => k.node \in S)

\* The area that is being copied.
Visits(k, own) == Task(k) \in Cloning => k.node \in own[k.src]

Holder == {"free"} \cup Vm \cup Callers

\* Every object has at most one owner, which relies on its words.
Owned(own) ==
    /\ \A g, h \in Holder : g # h => own[g] \cap own[h] = {}
    /\ \A h \in Holder : own[h] \subseteq 1 .. pages * PerPage
    /\ Chain(own["free"], mem, next_free)
    /\ \A v \in Vm : Ring(own[v], mem, head[v])
    /\ \A c \in Callers : Carries(call[c], own[c]) /\ Visits(call[c], own)

Deals == [Holder -> SUBSET Object]

IInv == Types /\ CallsOK /\ \E own \in Deals : Owned(own)

-----------------------------------------------------------------------------
(* How objects change hands. *)

\* A list is linked as it was when its nodes' words are as they were.
LEMMA SameLinks ==
    ASSUME NEW l, NEW m, NEW S, WellLinked(l, S),
           \A o \in S : m.next[o] = l.next[o] /\ m.prev[o] = l.prev[o]
    PROVE  WellLinked(m, S)
  BY DEF WellLinked

\* Owners that are not touched keep what they rely on.
LEMMA OwnedKeep ==
    ASSUME NEW own \in Deals, NEW new \in Deals, Types, CallsOK, Owned(own),
           NEW a \in Holder, NEW b \in Holder, NEW c \in Callers, NEW u,
           call' = [call EXCEPT ![c] = u],
           \A h \in Holder \ {a, b} : new[h] = own[h],
           \A g, h \in Holder : g # h => new[g] \cap new[h] = {},
           \A h \in Holder : new[h] \subseteq 1 .. pages' * PerPage,
           \A h \in Holder \ {a, b} : \A o \in own[h] :
               mem'.next[o] = mem.next[o] /\ mem'.prev[o] = mem.prev[o],
           \A v \in Vm \ {a, b} : head'[v] = head[v],
           \A v \in Vm : v \in {a, b} => Ring(new[v], mem', head'[v]),
           "free" \notin {a, b} => next_free' = next_free,
           "free" \in {a, b} => Chain(new["free"], mem', next_free'),
           \A d \in Callers \ {c} : d \notin {a, b} /\ call[d].src \notin {a, b},
           Carries(u, new[c]), Visits(u, new)
    PROVE  Owned(new)'
<1>1. "free" \in Holder /\ Vm \subseteq Holder /\ Callers \subseteq Holder
  BY DEF Holder
<1>2. Chain(new["free"], mem', next_free')
  <2>1. CASE "free" \in {a, b}
    BY <2>1
  <2>2. CASE "free" \notin {a, b}
    BY <1>1, <2>2 DEF Owned, Chain
  <2> QED
    BY <2>1, <2>2
<1>3. ASSUME NEW v \in Vm PROVE Ring(new[v], mem', head'[v])
  <2>1. CASE v \in {a, b}
    BY <2>1
  <2>2. CASE v \notin {a, b}
    <3>1. new[v] = own[v] /\ head'[v] = head[v] /\ Ring(own[v], mem, head[v])
      BY <1>1, <2>2 DEF Owned
    <3>2. \A o \in own[v] : mem'.next[o] = mem.next[o] /\ mem'.prev[o] = mem.prev[o]
      BY <1>1, <2>2
    <3>3. WellLinked(mem, own[v]) => WellLinked(mem', own[v])
      BY <3>2, SameLinks
    <3> QED
      BY <3>1, <3>3 DEF Ring
  <2> QED
    BY <2>1, <2>2
<1>4. ASSUME NEW d \in Callers PROVE Carries(call'[d], new[d]) /\ Visits(call'[d], new)
  <2>1. CASE d = c
    BY <2>1 DEF CallsOK
  <2>2. CASE d # c
    <3>1. call'[d] = call[d] /\ new[d] = own[d] /\ Carries(call[d], own[d]) /\ Visits(call[d], own)
      BY <1>1, <2>2 DEF Owned
    <3>2. Task(call[d]) \in Cloning => call[d].src \in Vm
      BY DEF CallsOK, GoodCall
    <3>3. Task(call[d]) \in Cloning => new[call[d].src] = own[call[d].src]
      BY <1>1, <2>2, <3>2
    <3> QED
      BY <3>1, <3>3 DEF Visits
  <2> QED
    BY <2>1, <2>2
<1> QED
  BY <1>2, <1>3, <1>4 DEF Owned

\* A step that moves no object.
LEMMA OwnedStay ==
    ASSUME NEW own \in Deals, Types, CallsOK, Owned(own), NEW c \in Callers, NEW u,
           call' = [call EXCEPT ![c] = u],
           UNCHANGED <<mem, next_free, pages, head>>,
           Carries(u, own[c]), Visits(u, own)
    PROVE  Owned(own)'
<1>1. \A d \in Callers : call'[d] = IF d = c THEN u ELSE call[d]
  BY DEF CallsOK
<1>2. \A d \in Callers : Carries(call'[d], own[d]) /\ Visits(call'[d], own)
  BY <1>1 DEF Owned
<1> QED
  BY <1>2 DEF Owned

\* What the callers rely on beside the objects.
LEMMA CallsKeep ==
    ASSUME Undisturbed, CallsOK, NEW c \in Callers, NEW u \in GoodCall,
           call' = [call EXCEPT ![c] = u],
           \A d \in Callers \ {c} : call[d].pc \in SwitchPoints,
           \A d \in Callers \ {c} : {u.vm, u.src} \cap {call[d].vm, call[d].src} \subseteq {NoVm},
           u.pc \in {"alloc_read", "alloc_pop"} => next_free' # NULL,
           u.pc = "alloc_pop" => u.obj = next_free',
           \A v \in Uses(u) : head'[v] # NULL,
           \A d \in Callers \ {c} : \A v \in Uses(call[d]) : head'[v] # NULL,
           \A v \in Vm : status'[v] = "live" => head'[v] # NULL
    PROVE  CallsOK'
<1>1. call' \in [Callers -> GoodCall] /\ \A d \in Callers : call'[d] = IF d = c THEN u ELSE call[d]
  BY DEF CallsOK
<1>2. \A d, e \in Callers : d # e => {call'[d].vm, call'[d].src} \cap {call'[e].vm, call'[e].src} \subseteq {NoVm}
  BY <1>1 DEF CallsOK
<1>3. \A d \in Callers \ {c} : call[d].pc \notin {"alloc_read", "alloc_pop"}
  BY DEF Undisturbed
<1>4. \A d \in Callers : /\ call'[d].pc \in {"alloc_read", "alloc_pop"} => next_free' # NULL
                         /\ call'[d].pc = "alloc_pop" => call'[d].obj = next_free'
  BY <1>1, <1>3
<1>5. \A d \in Callers : \A v \in Uses(call'[d]) : head'[v] # NULL
  BY <1>1
<1> QED
  BY <1>1, <1>2, <1>4, <1>5 DEF CallsOK

-----------------------------------------------------------------------------
(* Steps that move no object. *)

\* A caller that runs.
LEMMA Standing ==
    ASSUME CallsOK, NEW c \in Callers, NEW p, At(c, p)
    PROVE  /\ call[c] \in GoodCall /\ call[c] \in CallFrame /\ call[c].pc = p
           /\ \A d \in Callers \ {c} : call[d].pc \in SwitchPoints
           /\ \A d \in Callers \ {c} :
                 {call[c].vm, call[c].src} \cap {call[d].vm, call[d].src} \subseteq {NoVm}
  BY DEF CallsOK, At, GoodCall

\* Goto changes the point only.
LEMMA GotoFrame ==
    ASSUME NEW k \in CallFrame, NEW p \in Point
    PROVE  LET u == [k EXCEPT !.pc = p] IN
           /\ u \in CallFrame /\ u.pc = p /\ u.ret = k.ret /\ u.vm = k.vm /\ u.src = k.src
           /\ u.want = k.want /\ u.node = k.node /\ u.obj = k.obj
  BY DEF CallFrame

\* A step of c to u that leaves the heap and the lists alone.
LEMMA CallStep ==
    ASSUME Undisturbed, IInv, NEW c \in Callers, NEW p, At(c, p), NEW u \in GoodCall,
           call' = [call EXCEPT ![c] = u],
           UNCHANGED <<mem, area, next_free, pages, head>>,
           status' \in [Vm -> {"none", "new", "live", "dying"}],
           \A d \in Callers \ {c} : {u.vm, u.src} \cap {call[d].vm, call[d].src} \subseteq {NoVm},
           u.pc \in {"alloc_read", "alloc_pop"} => next_free # NULL,
           u.pc = "alloc_pop" => u.obj = next_free,
           \A v \in Uses(u) : head[v] # NULL,
           \A v \in Vm : status'[v] = "live" => head[v] # NULL,
           \A own \in Deals : Owned(own) => Carries(u, own[c]) /\ Visits(u, own)
    PROVE  IInv'
<1>0. Types /\ CallsOK
  BY DEF IInv
<1>1. PICK own \in Deals : Owned(own)
  BY DEF IInv
<1>2. Owned(own)'
  BY <1>0, <1>1, OwnedStay
<1>3. \A d \in Callers \ {c} : call[d].pc \in SwitchPoints
  BY <1>0, Standing
<1>4. \A d \in Callers \ {c} : \A v \in Uses(call[d]) : head'[v] # NULL
  BY <1>0 DEF CallsOK
<1>5. CallsOK'
  BY <1>0, <1>3, <1>4, CallsKeep, ZenonT(40)
<1>6. Types'
  BY <1>0 DEF Types
<1> QED
  BY <1>1, <1>2, <1>5, <1>6 DEF IInv

\* A panic keeps the locals; the caller does not go on.
LEMMA PanicStep ==
    ASSUME Undisturbed, IInv, NEW c \in Callers, NEW p, At(c, p), Goto(c, "panic"),
           UNCHANGED <<mem, area, next_free, pages, head, status>>
    PROVE  IInv'
<1>0. CallsOK
  BY DEF IInv
<1>1. call[c] \in GoodCall /\ call[c] \in CallFrame
  BY <1>0, Standing
<1> DEFINE u == [call[c] EXCEPT !.pc = "panic"]
<1>2. call' = [call EXCEPT ![c] = u]
  BY DEF Goto
<1>3. /\ u \in CallFrame /\ u.pc = "panic" /\ u.vm = call[c].vm /\ u.src = call[c].src
  <2>1. "panic" \in Point
    BY DEF Point
  <2> QED
    BY <1>1, <2>1, GotoFrame
<1> HIDE DEF u
<1>4. Task(u) = "panic"
  BY <1>3 DEF Task
<1>5. u \in GoodCall
  BY <1>1, <1>3, <1>4 DEF GoodCall, Using, Cloning
<1>6. \A v \in Uses(u) : head[v] # NULL
  <2>1. Uses(u) \subseteq Uses(call[c])
    BY <1>3, <1>4 DEF Uses, Using, Cloning
  <2> QED
    BY <1>0, <2>1 DEF CallsOK
<1>7. \A own : Carries(u, own[c]) /\ Visits(u, own)
  BY <1>3, <1>4 DEF Carries, Visits, Linking, Freeing, Cloning
<1>8. \A d \in Callers \ {c} : {u.vm, u.src} \cap {call[d].vm, call[d].src} \subseteq {NoVm}
  BY <1>0, <1>3, Standing
<1>9. /\ status' \in [Vm -> {"none", "new", "live", "dying"}]
      /\ \A v \in Vm : status'[v] = "live" => head[v] # NULL
  BY <1>0 DEF IInv, Types, CallsOK
<1> QED
  BY <1>2, <1>3, <1>5, <1>6, <1>7, <1>8, <1>9, CallStep

\* A caller that asks for an object.
LEMMA AllocCall ==
    ASSUME Undisturbed, IInv, NEW c \in Callers, NEW p, At(c, p),
           NEW r \in Linking, NEW v \in Vm, NEW s \in Space, s # v, NEW want \in Areas \cup {NoArea},
           NEW n \in Link,
           CallAlloc(c, r, v, s, want, n),
           UNCHANGED <<mem, area, next_free, pages, head>>,
           status' \in [Vm -> {"none", "new", "live", "dying"}],
           \A w \in Vm : status'[w] = "live" => head[w] # NULL,
           \A d \in Callers \ {c} : {v, s} \cap {call[d].vm, call[d].src} \subseteq {NoVm},
           s \in Vm => head[s] # NULL,
           r # "init_list" => head[v] # NULL,
           r = "clone_link" => s \in Vm /\ \A own \in Deals : Owned(own) => n \in own[s]
    PROVE  IInv'
<1> DEFINE u == Frame("alloc_test", r, v, s, want, n)
<1>1. call' = [call EXCEPT ![c] = u]
  BY DEF CallAlloc
<1>2. u.pc = "alloc_test" /\ u.ret = r /\ u.vm = v /\ u.src = s /\ u.node = n
  BY DEF Frame
<1>3. u \in CallFrame
  BY DEF Frame, CallFrame, Space, Link, Point, Linking
<1> HIDE DEF u
<1>4. Task(u) = r
  BY <1>2 DEF Task
<1>5. u \in GoodCall
  BY <1>2, <1>3, <1>4 DEF GoodCall, Cloning, Linking
<1>6. \A w \in Uses(u) : head[w] # NULL
  BY <1>2, <1>4 DEF Uses, Using, Cloning
<1>7. \A own \in Deals : Owned(own) => Carries(u, own[c]) /\ Visits(u, own)
  <2>1. \A S : Carries(u, S)
    BY <1>2 DEF Carries, Linking, Freeing
  <2>2. \A own \in Deals : Owned(own) => Visits(u, own)
    BY <1>2, <1>4 DEF Visits, Cloning, Linking
  <2> QED
    BY <2>1, <2>2
<1>8. u.pc \notin {"alloc_read", "alloc_pop"}
  BY <1>2
<1> QED
  BY <1>1, <1>2, <1>5, <1>6, <1>7, <1>8, CallStep

\* A caller that is not inside an operation.
LEMMA IdleFrame ==
    /\ Idle \in GoodCall /\ Idle.pc = "idle" /\ Idle.vm = NoVm /\ Idle.src = NoVm
    /\ Uses(Idle) = {} /\ \A S : Carries(Idle, S) /\ Visits(Idle, S)
<1>1. Idle.pc = "idle" /\ Idle.ret = "idle" /\ Idle.vm = NoVm /\ Idle.src = NoVm /\ NoVm \notin Vm
  BY AreaAssumption DEF Idle, Frame
<1>2. Idle \in CallFrame
  BY DEF Idle, Frame, CallFrame, Space, Link, Point
<1>3. Task(Idle) = "idle"
  BY <1>1 DEF Task
<1>4. Idle \in GoodCall
  BY <1>1, <1>2, <1>3 DEF GoodCall, Using, Cloning
<1>5. Uses(Idle) = {}
  BY <1>1, <1>3 DEF Uses, Using, Cloning
<1>6. \A S : Carries(Idle, S) /\ Visits(Idle, S)
  BY <1>1, <1>3 DEF Carries, Visits, Linking, Freeing, Cloning
<1> QED
  BY <1>1, <1>4, <1>5, <1>6

\* vmem_init and vmem_clone begin.
LEMMA InitCallKeeps ==
    ASSUME Undisturbed, IInv, NEW c \in Callers, InitCall(c)
    PROVE  IInv'
<1>1. PICK v \in Vm : /\ status[v] = "none" /\ Unused(v) /\ status' = [status EXCEPT ![v] = "new"]
                      /\ CallAlloc(c, "init_list", v, NoVm, NoArea, NULL)
  BY DEF InitCall
<1>2. At(c, "idle") /\ UNCHANGED <<mem, area, next_free, pages, head>>
  BY DEF InitCall, heapVars
<1>3. /\ status' \in [Vm -> {"none", "new", "live", "dying"}]
      /\ \A w \in Vm : status'[w] = "live" => head[w] # NULL
  BY <1>1 DEF IInv, Types, CallsOK
<1>4. NoVm \in Space /\ NoVm \notin Vm /\ NULL \in Link /\ "init_list" \in Linking
  BY AreaAssumption DEF Space, Link, Linking
<1>5. \A d \in Callers \ {c} : {v, NoVm} \cap {call[d].vm, call[d].src} \subseteq {NoVm}
  BY <1>1 DEF Unused
<1> QED
  BY <1>1, <1>2, <1>3, <1>4, <1>5, AllocCall

\* vmem_clone begins.
LEMMA CloneCallKeeps ==
    ASSUME Undisturbed, IInv, NEW c \in Callers, CloneCall(c)
    PROVE  IInv'
<1>1. PICK s \in Vm, v \in Vm :
          /\ status[s] = "live" /\ Unused(s) /\ status[v] = "none" /\ Unused(v)
          /\ status' = [status EXCEPT ![v] = "new"]
          /\ CallAlloc(c, "init_list", v, s, NoArea, NULL)
  BY DEF CloneCall
<1>2. At(c, "idle") /\ UNCHANGED <<mem, area, next_free, pages, head>>
  BY DEF CloneCall, heapVars
<1>3. /\ status' \in [Vm -> {"none", "new", "live", "dying"}]
      /\ \A w \in Vm : status'[w] = "live" => head[w] # NULL
      /\ head[s] # NULL /\ s # v
  BY <1>1 DEF IInv, Types, CallsOK
<1>4. s \in Space /\ NULL \in Link /\ "init_list" \in Linking
  BY DEF Space, Link, Linking
<1>5. \A d \in Callers \ {c} : {v, s} \cap {call[d].vm, call[d].src} \subseteq {NoVm}
  BY <1>1 DEF Unused
<1> QED
  BY <1>1, <1>2, <1>3, <1>4, <1>5, AllocCall

\* vmem_clone's loop takes the next area.
LEMMA CloneNextKeeps ==
    ASSUME Undisturbed, IInv, NEW c \in Callers, CloneNext(c)
    PROVE  IInv'
<1>0. CallsOK
  BY DEF IInv
<1>1. /\ At(c, "clone_next") /\ UNCHANGED <<mem, area, next_free, pages, head, status>>
      /\ CallAlloc(c, "clone_link", call[c].vm, call[c].src, NoArea, call[c].node)
  BY DEF CloneNext, heapVars, spaceVars
<1>2. /\ call[c] \in GoodCall /\ call[c] \in CallFrame /\ call[c].pc = "clone_next"
      /\ \A d \in Callers \ {c} :
            {call[c].vm, call[c].src} \cap {call[d].vm, call[d].src} \subseteq {NoVm}
  BY <1>0, <1>1, Standing
<1>3. Task(call[c]) = "clone_next"
  BY <1>2 DEF Task
<1>4. /\ call[c].vm \in Vm /\ call[c].src \in Vm /\ call[c].src # call[c].vm /\ call[c].node \in Link
  BY <1>2, <1>3 DEF GoodCall, CallFrame, Using, Cloning
<1>5. call[c].vm \in Uses(call[c]) /\ call[c].src \in Uses(call[c])
  BY <1>3, <1>4 DEF Uses, Using, Cloning
<1>6. head[call[c].vm] # NULL /\ head[call[c].src] # NULL
  BY <1>0, <1>5 DEF CallsOK
<1>7. \A own \in Deals : Owned(own) => call[c].node \in own[call[c].src]
  BY <1>3 DEF Owned, Visits, Cloning
<1>8. /\ status' \in [Vm -> {"none", "new", "live", "dying"}]
      /\ \A w \in Vm : status'[w] = "live" => head[w] # NULL
  BY <1>0, <1>1 DEF IInv, Types, CallsOK
<1>9. PICK v, s, n : v = call[c].vm /\ s = call[c].src /\ n = call[c].node
  OBVIOUS
<1>10. /\ v \in Vm /\ s \in Vm /\ s \in Space /\ s # v /\ n \in Link /\ "clone_link" \in Linking
       /\ CallAlloc(c, "clone_link", v, s, NoArea, n) /\ head[v] # NULL /\ head[s] # NULL
       /\ \A d \in Callers \ {c} : {v, s} \cap {call[d].vm, call[d].src} \subseteq {NoVm}
       /\ \A own \in Deals : Owned(own) => n \in own[s]
  BY <1>1, <1>2, <1>4, <1>6, <1>7, <1>9 DEF Space, Linking
<1> QED
  BY <1>1, <1>8, <1>10, AllocCall

\* vmem_alloc_pages begins, or panics.
LEMMA AllocPagesCallKeeps ==
    ASSUME Undisturbed, IInv, NEW c \in Callers, AllocPagesCall(c)
    PROVE  IInv'
<1>0. CallsOK
  BY DEF IInv
<1>1. PICK v \in Vm, a \in Areas :
          /\ status[v] = "live" /\ Unused(v)
          /\ \/ CallAlloc(c, "area_link", v, NoVm, a, NULL)
             \/ Goto(c, "panic")
  BY DEF AllocPagesCall
<1>2. At(c, "idle") /\ UNCHANGED <<mem, area, next_free, pages, head, status>>
  BY DEF AllocPagesCall, heapVars, spaceVars
<1>3. CASE CallAlloc(c, "area_link", v, NoVm, a, NULL)
  <2>1. /\ status' \in [Vm -> {"none", "new", "live", "dying"}]
        /\ \A w \in Vm : status'[w] = "live" => head[w] # NULL
        /\ head[v] # NULL
    BY <1>0, <1>1, <1>2 DEF IInv, Types, CallsOK
  <2>2. NoVm \in Space /\ NoVm \notin Vm /\ NULL \in Link /\ "area_link" \in Linking
    BY AreaAssumption DEF Space, Link, Linking
  <2>3. \A d \in Callers \ {c} : {v, NoVm} \cap {call[d].vm, call[d].src} \subseteq {NoVm}
    BY <1>1 DEF Unused
  <2> QED
    BY <1>2, <1>3, <2>1, <2>2, <2>3, AllocCall
<1>4. CASE Goto(c, "panic")
  BY <1>2, <1>4, PanicStep
<1> QED
  BY <1>1, <1>3, <1>4

\* vmem_destroy begins.
LEMMA DestroyCallKeeps ==
    ASSUME Undisturbed, IInv, NEW c \in Callers, DestroyCall(c)
    PROVE  IInv'
<1>0. CallsOK
  BY DEF IInv
<1>1. PICK v \in Vm : /\ status[v] = "live" /\ Unused(v) /\ status' = [status EXCEPT ![v] = "dying"]
                      /\ call' = [call EXCEPT ![c] = Frame("destroy_next", "idle", v, NoVm, NoArea, NULL)]
  BY DEF DestroyCall
<1>2. At(c, "idle") /\ UNCHANGED <<mem, area, next_free, pages, head>>
  BY DEF DestroyCall, heapVars
<1> DEFINE u == Frame("destroy_next", "idle", v, NoVm, NoArea, NULL)
<1>3. u.pc = "destroy_next" /\ u.ret = "idle" /\ u.vm = v /\ u.src = NoVm /\ NoVm \notin Vm
  BY AreaAssumption DEF Frame
<1>4. u \in CallFrame
  BY DEF Frame, CallFrame, Space, Link, Point
<1>5. call' = [call EXCEPT ![c] = u]
  BY <1>1
<1> HIDE DEF u
<1>6. Task(u) = "destroy_next"
  BY <1>3 DEF Task
<1>7. u \in GoodCall
  BY <1>3, <1>4, <1>6 DEF GoodCall, Cloning
<1>8. \A w \in Uses(u) : head[w] # NULL
  BY <1>0, <1>1, <1>3 DEF Uses, CallsOK
<1>9. \A own : Carries(u, own[c]) /\ Visits(u, own)
  BY <1>3, <1>6 DEF Carries, Visits, Linking, Freeing, Cloning
<1>10. /\ status' \in [Vm -> {"none", "new", "live", "dying"}]
       /\ \A w \in Vm : status'[w] = "live" => head[w] # NULL
  BY <1>0, <1>1 DEF IInv, Types, CallsOK
<1>11. \A d \in Callers \ {c} : {u.vm, u.src} \cap {call[d].vm, call[d].src} \subseteq {NoVm}
  BY <1>1, <1>3 DEF Unused
<1> QED
  BY <1>2, <1>3, <1>5, <1>7, <1>8, <1>9, <1>10, <1>11, CallStep

\* object_alloc reads next_free.
LEMMA AllocReadKeeps ==
    ASSUME Undisturbed, IInv, NEW c \in Callers, AllocRead(c)
    PROVE  IInv'
<1>0. CallsOK /\ next_free \in Link
  BY DEF IInv, Types
<1>1. At(c, "alloc_read") /\ UNCHANGED <<mem, area, next_free, pages, head, status>>
  BY DEF AllocRead, heapVars, spaceVars
<1>2. /\ call[c] \in GoodCall /\ call[c] \in CallFrame /\ call[c].pc = "alloc_read"
      /\ \A d \in Callers \ {c} :
            {call[c].vm, call[c].src} \cap {call[d].vm, call[d].src} \subseteq {NoVm}
  BY <1>0, <1>1, Standing
<1> DEFINE u == [call[c] EXCEPT !.obj = next_free, !.pc = "alloc_pop"]
<1>3. call' = [call EXCEPT ![c] = u]
  BY <1>0 DEF AllocRead, CallsOK
<1>4. /\ u \in CallFrame /\ u.pc = "alloc_pop" /\ u.obj = next_free /\ u.ret = call[c].ret
      /\ u.vm = call[c].vm /\ u.src = call[c].src /\ u.node = call[c].node
  <2> DEFINE k == call[c]
  <2> HIDE DEF k
  <2>1. k \in CallFrame => /\ [k EXCEPT !.obj = next_free, !.pc = "alloc_pop"] \in CallFrame
                           /\ [k EXCEPT !.obj = next_free, !.pc = "alloc_pop"].pc = "alloc_pop"
                           /\ [k EXCEPT !.obj = next_free, !.pc = "alloc_pop"].obj = next_free
                           /\ [k EXCEPT !.obj = next_free, !.pc = "alloc_pop"].ret = k.ret
                           /\ [k EXCEPT !.obj = next_free, !.pc = "alloc_pop"].vm = k.vm
                           /\ [k EXCEPT !.obj = next_free, !.pc = "alloc_pop"].src = k.src
                           /\ [k EXCEPT !.obj = next_free, !.pc = "alloc_pop"].node = k.node
    BY <1>0 DEF CallFrame, Point
  <2> QED
    BY <1>2, <2>1 DEF k
<1> HIDE DEF u
<1>5. Task(u) = call[c].ret /\ Task(call[c]) = call[c].ret /\ call[c].ret \in Linking
  BY <1>2, <1>4 DEF Task, GoodCall
<1>6. u \in GoodCall
  BY <1>2, <1>4, <1>5 DEF GoodCall
<1>7. Uses(u) = Uses(call[c])
  BY <1>4, <1>5 DEF Uses
<1>8. next_free # NULL /\ \A v \in Uses(u) : head[v] # NULL
  BY <1>0, <1>2, <1>7 DEF CallsOK
<1>9. \A own \in Deals : Owned(own) => Carries(u, own[c]) /\ Visits(u, own)
  <2>1. \A S : Carries(u, S)
    BY <1>4 DEF Carries, Linking, Freeing
  <2>2. \A own \in Deals : Owned(own) => Visits(u, own)
    BY <1>4, <1>5 DEF Visits, Owned
  <2> QED
    BY <2>1, <2>2
<1>10. /\ status' \in [Vm -> {"none", "new", "live", "dying"}]
       /\ \A w \in Vm : status'[w] = "live" => head[w] # NULL
  BY <1>0, <1>1 DEF IInv, Types, CallsOK
<1>11. \A d \in Callers \ {c} : {u.vm, u.src} \cap {call[d].vm, call[d].src} \subseteq {NoVm}
  BY <1>2, <1>4
<1> QED
  BY <1>1, <1>3, <1>4, <1>6, <1>8, <1>9, <1>10, <1>11, CallStep

-----------------------------------------------------------------------------
(* Steps that move objects. *)

\* Objects below the end of a page are below the end of a later one.
LEMMA MorePages ==
    ASSUME NEW p \in Nat, NEW q \in Nat, p <= q
    PROVE  1 .. p * PerPage \subseteq 1 .. q * PerPage
<1>1. PerPage \in Nat
  BY AreaAssumption
<1>2. p * PerPage <= q * PerPage /\ p * PerPage \in Nat /\ q * PerPage \in Nat
  BY <1>1
<1> QED
  BY <1>2

\* A step leaves A with owner a and B with owner b; the other objects keep
\* their owners and their words.
Moves(own, a, A, b, B) ==
    /\ a \in Holder /\ b \in Holder /\ a # b /\ b # "free"
    /\ A \in SUBSET Object /\ B \in SUBSET Object /\ A \cap B = {}
    /\ \A h \in Holder \ {a, b} : own[h] \cap (A \cup B) = {}
    /\ \A h \in Holder \ {a, b} : \A o \in own[h] :
          mem'.next[o] = mem.next[o] /\ mem'.prev[o] = mem.prev[o]
    /\ A \cup B \subseteq 1 .. pages' * PerPage /\ pages' \in Nat /\ pages <= pages'
    /\ a \in Vm => Ring(A, mem', head'[a])
    /\ b \in Vm => Ring(B, mem', head'[b])
    /\ a # "free" => next_free' = next_free
    /\ a = "free" => Chain(A, mem', next_free')
    /\ \A v \in Vm \ {a, b} : head'[v] = head[v]

\* Caller c goes on with u.
Proceeds(c, u) ==
    /\ u \in GoodCall /\ call' = [call EXCEPT ![c] = u]
    /\ \A d \in Callers \ {c} : call[d].pc \in SwitchPoints
    /\ \A d \in Callers \ {c} : {u.vm, u.src} \cap {call[d].vm, call[d].src} \subseteq {NoVm}
    /\ u.pc \in {"alloc_read", "alloc_pop"} => next_free' # NULL
    /\ u.pc = "alloc_pop" => u.obj = next_free'
    /\ \A v \in Uses(u) : head'[v] # NULL
    /\ \A v \in Vm : status'[v] = "live" => head'[v] # NULL

\* Two owners get A and B, out of what they had or of objects nobody had.
LEMMA Redeal ==
    ASSUME NEW own \in Deals, Owned(own), NEW a, NEW A, NEW b, NEW B, Moves(own, a, A, b, B)
    PROVE  \E new \in Deals :
           /\ new[a] = A /\ new[b] = B
           /\ \A h \in Holder \ {a, b} : new[h] = own[h]
           /\ \A g, h \in Holder : g # h => new[g] \cap new[h] = {}
<1>0. /\ \A h \in Holder \ {a, b} : own[h] \cap (A \cup B) = {}
      /\ a \in Holder /\ b \in Holder /\ a # b
      /\ A \in SUBSET Object /\ B \in SUBSET Object /\ A \cap B = {}
  BY DEF Moves
<1> DEFINE new == [own EXCEPT ![a] = A, ![b] = B]
<1>1. new \in Deals /\ \A h \in Holder : new[h] = IF h = b THEN B ELSE IF h = a THEN A ELSE own[h]
  BY <1>0 DEF Deals
<1> HIDE DEF new
<1>2. ASSUME NEW g \in Holder, NEW h \in Holder, g # h PROVE new[g] \cap new[h] = {}
  <2>1. own[g] \cap own[h] = {}
    BY <1>2 DEF Owned
  <2>2. CASE g \notin {a, b} /\ h \notin {a, b}
    BY <1>1, <2>1, <2>2
  <2>3. CASE g \in {a, b} /\ h \notin {a, b}
    BY <1>0, <1>1, <2>3
  <2>4. CASE g \notin {a, b} /\ h \in {a, b}
    BY <1>0, <1>1, <2>4
  <2>5. CASE g \in {a, b} /\ h \in {a, b}
    BY <1>0, <1>1, <1>2, <2>5
  <2> QED
    BY <2>2, <2>3, <2>4, <2>5
<1>3. new[a] = A /\ new[b] = B /\ \A h \in Holder \ {a, b} : new[h] = own[h]
  BY <1>0, <1>1
<1> QED
  BY <1>1, <1>2, <1>3

\* A step of c to u that moves objects.
LEMMA MoveStep ==
    ASSUME Undisturbed, IInv, Types', NEW c \in Callers, NEW u, Proceeds(c, u),
           NEW own \in Deals, Owned(own), NEW a, NEW A, NEW b, NEW B, Moves(own, a, A, b, B), a # c,
           \A d \in Callers \ {c} : {a, b} \cap {d, call[d].vm, call[d].src} = {},
           b = c => Carries(u, B),
           b # c => Carries(u, own[c]),
           Task(u) \in Cloning => u.src \notin {a, b} /\ u.node \in own[u.src]
    PROVE  IInv'
<1>0. Types /\ CallsOK /\ "free" \in Holder /\ Vm \subseteq Holder /\ Callers \subseteq Holder
  BY DEF IInv, Holder
<1>1. PICK new \in Deals :
      /\ new[a] = A /\ new[b] = B
      /\ \A h \in Holder \ {a, b} : new[h] = own[h]
      /\ \A g, h \in Holder : g # h => new[g] \cap new[h] = {}
  BY Redeal
<1>2. \A h \in Holder : new[h] \subseteq 1 .. pages' * PerPage
  <2>1. 1 .. pages * PerPage \subseteq 1 .. pages' * PerPage
    <3>1. PICK p1, q1 : p1 = pages /\ q1 = pages'
      OBVIOUS
    <3>2. p1 \in Nat /\ q1 \in Nat /\ p1 <= q1
      BY <1>0, <3>1, AreaAssumption DEF Types, Moves
    <3> QED
      BY <3>1, <3>2, MorePages
  <2>2. \A h \in Holder : own[h] \subseteq 1 .. pages * PerPage
    BY DEF Owned
  <2>3. A \cup B \subseteq 1 .. pages' * PerPage
    BY DEF Moves
  <2> QED
    BY <1>1, <2>1, <2>2, <2>3
<1>3. Owned(new)'
  <2>1. \A v \in Vm : v \in {a, b} => Ring(new[v], mem', head'[v])
    BY <1>1 DEF Moves
  <2>2. "free" \notin {a, b} => next_free' = next_free
    BY DEF Moves
  <2>3. "free" \in {a, b} => Chain(new["free"], mem', next_free')
    BY <1>1 DEF Moves
  <2>4. \A d \in Callers \ {c} : d \notin {a, b} /\ call[d].src \notin {a, b}
    OBVIOUS
  <2>5. Carries(u, new[c])
    BY <1>0, <1>1
  <2>8. /\ a \in Holder /\ b \in Holder /\ call' = [call EXCEPT ![c] = u]
        /\ \A v \in Vm \ {a, b} : head'[v] = head[v]
    BY DEF Moves, Proceeds
  <2>6. Visits(u, new)
    <3>1. Task(u) \in Cloning => u.src \in Holder
      BY <1>0 DEF GoodCall, Proceeds
    <3> QED
      BY <1>1, <3>1 DEF Visits
  <2>7. \A h \in Holder \ {a, b} : \A o \in own[h] :
            mem'.next[o] = mem.next[o] /\ mem'.prev[o] = mem.prev[o]
    BY DEF Moves
  <2> QED
    BY <1>0, <1>1, <1>2, <2>1, <2>2, <2>3, <2>4, <2>5, <2>6, <2>7, <2>8, OwnedKeep
<1>4. CallsOK'
  <2>1. \A d \in Callers \ {c} : \A v \in Uses(call[d]) : head'[v] # NULL
    <3> SUFFICES ASSUME NEW d \in Callers \ {c}, NEW v \in Uses(call[d]) PROVE head'[v] # NULL
      OBVIOUS
    <3>1. v \in Vm /\ v \in {call[d].vm, call[d].src} /\ head[v] # NULL
      BY <1>0 DEF Uses, CallsOK
    <3>2. v \in Vm \ {a, b}
      BY <3>1
    <3> QED
      BY <3>1, <3>2 DEF Moves
  <2> QED
    BY <1>0, <2>1, CallsKeep DEF Proceeds
<1> QED
  BY <1>1, <1>3, <1>4 DEF IInv

\* Nobody else works with the free list, with c's objects or on c's spaces.
LEMMA Separate ==
    ASSUME CallsOK, NEW c \in Callers
    PROVE  /\ \A d \in Callers \ {c} : {"free", c} \cap {d, call[d].vm, call[d].src} = {}
           /\ \A v \in Vm \cap {call[c].vm, call[c].src} :
                 \A d \in Callers \ {c} : v \notin {d, call[d].vm, call[d].src}
<1>1. \A d \in Callers : call[d].vm \in Space /\ call[d].src \in Space
  BY DEF CallsOK, GoodCall, CallFrame
<1>2. /\ "free" \notin Space /\ "free" \notin Callers /\ Callers \cap Space = {}
      /\ NoVm \notin Vm /\ Vm \cap Callers = {}
  BY AreaAssumption DEF Space, NoVm
<1> QED
  BY <1>1, <1>2, ZenonT(30) DEF CallsOK

\* object_alloc goes on with the task it was called for.
LEMMA SameTask ==
    ASSUME NEW k \in GoodCall, k.pc \in {"alloc_test", "alloc_refill", "alloc_read", "alloc_pop"},
           NEW q \in {"alloc_refill", "alloc_read", k.ret}
    PROVE  LET u == [k EXCEPT !.pc = q] IN
           /\ u \in GoodCall /\ u.pc = q /\ u.vm = k.vm /\ u.src = k.src /\ u.node = k.node
           /\ u.obj = k.obj /\ k.ret \in Linking /\ k.vm \in Vm
           /\ Task(k) = k.ret /\ Task(u) = k.ret /\ Uses(u) = Uses(k)
<1> DEFINE u == [k EXCEPT !.pc = q]
<1>1. k \in CallFrame /\ k.ret \in Linking /\ k.ret \in Point /\ Task(k) = k.ret
  BY DEF GoodCall, CallFrame, Task
<1>2. /\ u \in CallFrame /\ u.pc = q /\ u.ret = k.ret /\ u.vm = k.vm /\ u.src = k.src
      /\ u.node = k.node /\ u.obj = k.obj
  <2>1. q \in Point
    BY <1>1 DEF Point
  <2> QED
    BY <1>1, <2>1, GotoFrame
<1> HIDE DEF u
<1>3. Task(u) = k.ret
  BY <1>1, <1>2 DEF Task, Linking
<1>4. k.vm \in Vm
  BY <1>1 DEF GoodCall, Using, Cloning, Linking
<1>5. u \in GoodCall
  BY <1>1, <1>2, <1>3 DEF GoodCall
<1>6. Uses(u) = Uses(k)
  BY <1>1, <1>2, <1>3 DEF Uses
<1> QED
  BY <1>1, <1>2, <1>3, <1>4, <1>5, <1>6 DEF u

\* What object_free does to the objects.
LEMMA FreeMoves ==
    ASSUME Types, NEW own \in Deals, Owned(own), NEW b \in Holder, b # "free",
           NEW o \in own[b], ObjectFree(o), b \in Vm => head'[b] = NULL,
           \A v \in Vm \ {b} : head'[v] = head[v]
    PROVE  /\ Moves(own, "free", {o}, b, {}) /\ o \in Object
           /\ mem' \in Mem /\ area' \in [Object -> Areas \cup {NoArea}]
           /\ next_free' \in Link /\ pages' \in 0 .. MaxPages
<1>1. o \in Object /\ o \in 1 .. pages * PerPage /\ o \in Nat /\ o > 0
  BY Counting DEF Owned, Deals
<1>2. /\ mem' = [next |-> [mem.next EXCEPT ![o] = NULL], prev |-> [mem.prev EXCEPT ![o] = NULL]]
      /\ area' = [area EXCEPT ![o] = NoArea] /\ next_free' = o /\ pages' = pages
  BY DEF ObjectFree
<1>3. mem \in Mem /\ mem.next \in [Object -> Link] /\ mem.prev \in [Object -> Link] /\ NULL \in Link
  BY DEF Types, Mem, Link
<1>4. /\ mem' \in Mem /\ mem'.next[o] = NULL
      /\ \A x \in Object \ {o} : mem'.next[x] = mem.next[x] /\ mem'.prev[x] = mem.prev[x]
  BY <1>1, <1>2, <1>3 DEF Mem
<1>5. /\ area' \in [Object -> Areas \cup {NoArea}] /\ next_free' \in Link
      /\ pages' \in 0 .. MaxPages /\ pages' \in Nat /\ pages <= pages'
  BY <1>1, <1>2, AreaAssumption DEF Types, Link
<1>6. \A h \in Holder \ {"free", b} : own[h] \cap ({o} \cup {}) = {}
  BY DEF Owned
<1>7. \A h \in Holder \ {"free", b} : \A x \in own[h] :
          mem'.next[x] = mem.next[x] /\ mem'.prev[x] = mem.prev[x]
  BY <1>4, <1>6 DEF Deals
<1>8. Chain({o}, mem', next_free')
  BY <1>1, <1>2, <1>4 DEF Chain, NULL
<1>9. {o} \cup {} \subseteq 1 .. pages' * PerPage
  BY <1>1, <1>2
<1>10. "free" \notin Vm /\ (b \in Vm => Ring({}, mem', head'[b]))
  BY AreaAssumption DEF Ring
<1>11. "free" \in Holder /\ {o} \in SUBSET Object /\ {} \in SUBSET Object /\ {o} \cap {} = {}
  BY <1>1 DEF Holder
<1>12. \A v \in Vm \ {"free", b} : head'[v] = head[v]
  OBVIOUS
<1> QED
  BY <1>1, <1>11, <1>12, <1>4, <1>5, <1>6, <1>7, <1>8, <1>9, <1>10 DEF Moves

\* The owners are different things.
LEMMA Holders ==
    /\ "free" \in Holder /\ Vm \subseteq Holder /\ Callers \subseteq Holder
    /\ "free" \notin Vm /\ "free" \notin Callers /\ Vm \cap Callers = {} /\ NoVm \notin Vm
  BY AreaAssumption DEF Holder

\* vmem_free_pages ends.
LEMMA FreeObjKeeps ==
    ASSUME Undisturbed, IInv, NEW c \in Callers, FreeObj(c)
    PROVE  IInv'
<1>0. Types /\ CallsOK
  BY DEF IInv
<1>1. At(c, "free_obj") /\ call' = [call EXCEPT ![c] = Idle] /\ head' = head /\ status' = status
  BY DEF FreeObj, Return, spaceVars
<1>2. PICK own \in Deals : Owned(own)
  BY DEF IInv
<1>3. PICK o : o = call[c].node
  OBVIOUS
<1>4. o \in own[c] /\ ObjectFree(o)
  BY <1>0, <1>1, <1>2, <1>3, Standing DEF Owned, Carries, Freeing, FreeObj
<1>5. /\ c \in Holder /\ c # "free" /\ c \notin Vm /\ "free" \in Holder
  BY Holders
<1>6. /\ Moves(own, "free", {o}, c, {}) /\ o \in Object
      /\ mem' \in Mem /\ area' \in [Object -> Areas \cup {NoArea}]
      /\ next_free' \in Link /\ pages' \in 0 .. MaxPages
  BY <1>0, <1>1, <1>2, <1>4, <1>5, FreeMoves
<1>7. Types'
  BY <1>0, <1>1, <1>6 DEF Types
<1>8. /\ Idle \in GoodCall /\ Idle.pc = "idle" /\ Idle.vm = NoVm /\ Idle.src = NoVm
      /\ Uses(Idle) = {} /\ \A S : Carries(Idle, S) /\ Visits(Idle, S)
  BY IdleFrame
<1>9. /\ \A d \in Callers \ {c} : {"free", c} \cap {d, call[d].vm, call[d].src} = {}
      /\ \A v \in Vm : status'[v] = "live" => head'[v] # NULL
  BY <1>0, <1>1, Separate DEF CallsOK
<1>10. Task(Idle) \notin Cloning
  BY <1>8 DEF Task, Cloning
<1>11. Proceeds(c, Idle)
  BY <1>0, <1>1, <1>8, <1>9, Standing DEF Proceeds
<1> QED
  BY <1>2, <1>5, <1>6, <1>7, <1>8, <1>9, <1>10, <1>11, MoveStep

\* The caller that goes back to vmem_destroy's loop.
LEMMA DestroyFrame ==
    ASSUME NEW v \in Vm
    PROVE  LET u == Frame("destroy_next", "idle", v, NoVm, NoArea, NULL) IN
           /\ u \in GoodCall /\ u.pc = "destroy_next" /\ u.vm = v /\ u.src = NoVm
           /\ Task(u) \notin Cloning /\ Uses(u) \subseteq {v} /\ \A S : Carries(u, S)
<1> DEFINE u == Frame("destroy_next", "idle", v, NoVm, NoArea, NULL)
<1>1. u.pc = "destroy_next" /\ u.ret = "idle" /\ u.vm = v /\ u.src = NoVm /\ NoVm \notin Vm
  BY AreaAssumption DEF Frame
<1>2. u \in CallFrame
  BY DEF Frame, CallFrame, Space, Link, Point
<1> HIDE DEF u
<1>3. Task(u) = "destroy_next"
  BY <1>1 DEF Task
<1>4. u \in GoodCall
  BY <1>1, <1>2, <1>3 DEF GoodCall, Cloning
<1>5. Uses(u) \subseteq {v} /\ \A S : Carries(u, S)
  BY <1>1 DEF Uses, Carries, Linking, Freeing
<1> QED
  BY <1>1, <1>3, <1>4, <1>5 DEF Cloning, u

\* vmem_destroy frees an area.
LEMMA DestroyFreeKeeps ==
    ASSUME Undisturbed, IInv, NEW c \in Callers, DestroyFree(c)
    PROVE  IInv'
<1>0. Types /\ CallsOK
  BY DEF IInv
<1>1. At(c, "destroy_free") /\ head' = head /\ status' = status
  BY DEF DestroyFree, spaceVars
<1>2. PICK own \in Deals : Owned(own)
  BY DEF IInv
<1>3. PICK o, v : o = call[c].node /\ v = call[c].vm
  OBVIOUS
<1>4. /\ call[c] \in GoodCall /\ call[c].pc = "destroy_free"
      /\ \A d \in Callers \ {c} : {v, call[c].src} \cap {call[d].vm, call[d].src} \subseteq {NoVm}
  BY <1>0, <1>1, <1>3, Standing
<1>5. Task(call[c]) = "destroy_free" /\ v \in Vm /\ v \in Uses(call[c])
  BY <1>3, <1>4 DEF Task, GoodCall, Using, Uses
<1>6. o \in own[c] /\ ObjectFree(o) /\ head[v] # NULL
  BY <1>0, <1>2, <1>3, <1>4, <1>5 DEF Owned, Carries, Freeing, DestroyFree, CallsOK
<1>7. /\ c \in Holder /\ c # "free" /\ c \notin Vm /\ "free" \in Holder
  BY Holders
<1>8. /\ Moves(own, "free", {o}, c, {}) /\ o \in Object
      /\ mem' \in Mem /\ area' \in [Object -> Areas \cup {NoArea}]
      /\ next_free' \in Link /\ pages' \in 0 .. MaxPages
  BY <1>0, <1>1, <1>2, <1>6, <1>7, FreeMoves
<1>9. Types'
  BY <1>0, <1>1, <1>8 DEF Types
<1> DEFINE u == Frame("destroy_next", "idle", v, NoVm, NoArea, NULL)
<1>10. call' = [call EXCEPT ![c] = u]
  BY <1>3 DEF DestroyFree
<1>11. /\ u \in GoodCall /\ u.pc = "destroy_next" /\ u.vm = v /\ u.src = NoVm
       /\ Task(u) \notin Cloning /\ Uses(u) \subseteq {v} /\ \A S : Carries(u, S)
  BY <1>5, DestroyFrame
<1> HIDE DEF u
<1>12. /\ \A d \in Callers \ {c} : {"free", c} \cap {d, call[d].vm, call[d].src} = {}
       /\ \A w \in Vm : status'[w] = "live" => head'[w] # NULL
       /\ \A w \in Uses(u) : head'[w] # NULL
  BY <1>0, <1>1, <1>6, <1>11, Separate DEF CallsOK
<1>13. \A d \in Callers \ {c} : {u.vm, u.src} \cap {call[d].vm, call[d].src} \subseteq {NoVm}
  BY <1>4, <1>11
<1>14. Proceeds(c, u)
  BY <1>0, <1>1, <1>10, <1>11, <1>12, <1>13, Standing DEF Proceeds
<1> QED
  BY <1>2, <1>7, <1>8, <1>9, <1>11, <1>12, <1>14, MoveStep

\* vmem_destroy frees the list head.
LEMMA DestroyHeadKeeps ==
    ASSUME Undisturbed, IInv, NEW c \in Callers, DestroyHead(c)
    PROVE  IInv'
<1>0. Types /\ CallsOK
  BY DEF IInv
<1>1. At(c, "destroy_head") /\ call' = [call EXCEPT ![c] = Idle]
  BY DEF DestroyHead, Return
<1>2. PICK own \in Deals : Owned(own)
  BY DEF IInv
<1>3. PICK o, v : o = head[call[c].vm] /\ v = call[c].vm
  OBVIOUS
<1>4. call[c] \in GoodCall /\ call[c].pc = "destroy_head"
  BY <1>0, <1>1, Standing
<1>5. Task(call[c]) = "destroy_head" /\ v \in Vm /\ v \in Uses(call[c])
  BY <1>3, <1>4 DEF Task, GoodCall, Using, Uses
<1>6. o \in own[v] /\ ObjectFree(o)
  BY <1>0, <1>2, <1>3, <1>5 DEF Owned, Ring, DestroyHead, CallsOK
<1>7. head' = [head EXCEPT ![v] = NULL] /\ status' = [status EXCEPT ![v] = "none"]
  BY <1>3 DEF DestroyHead
<1>8. /\ v \in Holder /\ v # "free" /\ "free" # c /\ v # c /\ "free" \in Holder /\ c \in Holder
  BY <1>5, Holders
<1>9. /\ head' \in [Vm -> Link] /\ status' \in [Vm -> {"none", "new", "live", "dying"}]
      /\ head'[v] = NULL /\ status'[v] = "none"
      /\ \A w \in Vm \ {v} : head'[w] = head[w] /\ status'[w] = status[w]
  BY <1>0, <1>5, <1>7 DEF Types, Link
<1>10. /\ Moves(own, "free", {o}, v, {}) /\ o \in Object
       /\ mem' \in Mem /\ area' \in [Object -> Areas \cup {NoArea}]
       /\ next_free' \in Link /\ pages' \in 0 .. MaxPages
  BY <1>0, <1>2, <1>6, <1>8, <1>9, FreeMoves
<1>11. Types'
  BY <1>9, <1>10 DEF Types
<1>12. /\ Idle \in GoodCall /\ Idle.pc = "idle" /\ Idle.vm = NoVm /\ Idle.src = NoVm
       /\ Uses(Idle) = {} /\ \A S : Carries(Idle, S) /\ Visits(Idle, S)
  BY IdleFrame
<1>13. /\ \A d \in Callers \ {c} : {"free", v} \cap {d, call[d].vm, call[d].src} = {}
       /\ \A w \in Vm : status'[w] = "live" => head'[w] # NULL
  <2>1. v \in Vm \cap {call[c].vm, call[c].src}
    BY <1>3, <1>5
  <2>2. \A d \in Callers \ {c} : {"free", v} \cap {d, call[d].vm, call[d].src} = {}
    BY <1>0, <2>1, Separate
  <2> QED
    BY <1>0, <1>9, <2>2 DEF CallsOK
<1>14. Task(Idle) \notin Cloning
  BY <1>12 DEF Task, Cloning
<1>15. Proceeds(c, Idle)
  BY <1>0, <1>1, <1>12, <1>13, Standing DEF Proceeds
<1> QED
  BY <1>2, <1>8, <1>10, <1>11, <1>12, <1>13, <1>14, <1>15, MoveStep

\* What list_init of a new list head does to the objects.
LEMMA InitMoves ==
    ASSUME Types, NEW own \in Deals, Owned(own), NEW c \in Callers, NEW v \in Vm,
           NEW o \in own[c], mem' = ListInit(mem, o),
           head' = [head EXCEPT ![v] = o], UNCHANGED <<area, next_free, pages>>
    PROVE  /\ Moves(own, v, {o}, c, {}) /\ o \in Object /\ mem' \in Mem
           /\ head' \in [Vm -> Link] /\ head'[v] = o
<1>0. /\ v \in Holder /\ c \in Holder /\ v # c /\ c # "free" /\ v # "free" /\ c \notin Vm
  BY Holders
<1>1. o \in Object /\ o \in 1 .. pages * PerPage
  BY <1>0 DEF Owned, Deals
<1>2. mem \in Mem /\ mem.next \in [Object -> Link] /\ mem.prev \in [Object -> Link] /\ o \in Link
  BY <1>1 DEF Types, Mem, Link
<1>3. /\ mem' \in Mem /\ mem'.next[o] = o /\ mem'.prev[o] = o
      /\ \A x \in Object \ {o} : mem'.next[x] = mem.next[x] /\ mem'.prev[x] = mem.prev[x]
  BY <1>1, <1>2 DEF Mem, ListInit
<1>4. /\ head' \in [Vm -> Link] /\ head'[v] = o /\ \A w \in Vm \ {v, c} : head'[w] = head[w]
  BY <1>2 DEF Types
<1>5. \A h \in Holder \ {v, c} : own[h] \cap ({o} \cup {}) = {}
  BY <1>0 DEF Owned
<1>6. \A h \in Holder \ {v, c} : \A x \in own[h] :
          mem'.next[x] = mem.next[x] /\ mem'.prev[x] = mem.prev[x]
  BY <1>3, <1>5 DEF Deals
<1>7. Ring({o}, mem', head'[v])
  BY <1>3, <1>4 DEF Ring, WellLinked
<1>8. /\ {o} \cup {} \subseteq 1 .. pages' * PerPage /\ pages' \in Nat /\ pages <= pages'
      /\ {o} \in SUBSET Object /\ {} \in SUBSET Object /\ {o} \cap {} = {}
  BY <1>1, AreaAssumption DEF Types
<1> QED
  BY <1>0, <1>1, <1>3, <1>4, <1>5, <1>6, <1>7, <1>8 DEF Moves

\* What list_insert_after of a new area does to the objects.
LEMMA LinkMoves ==
    ASSUME Types, NEW own \in Deals, Owned(own), NEW c \in Callers, NEW v \in Vm, head[v] # NULL,
           NEW o \in own[c], mem' = ListInsertAfter(ListInit(mem, o), head[v], o),
           UNCHANGED <<next_free, pages, head>>
    PROVE  /\ Moves(own, v, own[v] \cup {o}, c, {}) /\ o \in Object /\ mem' \in Mem
           /\ \A x \in Object \ (own[v] \cup {o}) : mem'.next[x] = mem.next[x]
<1>0. /\ v \in Holder /\ c \in Holder /\ v # c /\ c # "free" /\ v # "free" /\ c \notin Vm
  BY Holders
<1>1. PICK h, S : h = head[v] /\ S = own[v]
  OBVIOUS
<1>2. /\ o \in Object /\ o \in 1 .. pages * PerPage /\ S \subseteq Object /\ o \notin S
      /\ S \subseteq 1 .. pages * PerPage
  BY <1>0, <1>1 DEF Owned, Deals
<1>3. h \in S /\ WellLinked(mem, S)
  BY <1>1 DEF Owned, Ring
<1>4. mem \in Mem /\ mem.next \in [Object -> Link] /\ mem.prev \in [Object -> Link] /\ o \in Link
  BY <1>2 DEF Types, Mem, Link
<1>5. PICK l : l = ListInit(mem, o)
  OBVIOUS
<1>6. /\ l \in Mem /\ WellLinked(l, S) /\ l.next \in [Object -> Link] /\ l.prev \in [Object -> Link]
      /\ \A x \in Object \ {o} : l.next[x] = mem.next[x] /\ l.prev[x] = mem.prev[x]
  <2>1. /\ l \in Mem /\ l.next \in [Object -> Link] /\ l.prev \in [Object -> Link]
        /\ \A x \in Object \ {o} : l.next[x] = mem.next[x] /\ l.prev[x] = mem.prev[x]
    BY <1>2, <1>4, <1>5 DEF Mem, ListInit
  <2>2. \A x \in S : l.next[x] = mem.next[x] /\ l.prev[x] = mem.prev[x]
    BY <1>2, <2>1
  <2>3. WellLinked(l, S)
    BY <1>3, <2>2, SameLinks
  <2> QED
    BY <2>1, <2>3
<1>7. PICK m : m = ListInsertAfter(l, h, o)
  OBVIOUS
<1>8. mem' = m
  BY <1>1, <1>5, <1>7
<1>9. l.next[h] \in S /\ h \in Object /\ l.next[h] \in Object /\ o # h /\ o # l.next[h]
  <2>1. l.next[h] \in S
    BY <1>3, <1>6 DEF WellLinked
  <2> QED
    BY <1>2, <1>3, <2>1
<1>10. /\ m \in Mem
       /\ \A x \in Object \ {o, h, l.next[h]} : m.next[x] = l.next[x] /\ m.prev[x] = l.prev[x]
  BY <1>4, <1>6, <1>7, <1>9 DEF Mem, ListInsertAfter, Link
<1>11. WellLinked(m, S \cup {o})
  <2>1. Memory(l, Object)
    BY <1>6 DEF Memory, Mem
  <2> QED
    BY <1>2, <1>3, <1>6, <1>7, <2>1, InsertLinks
<1>12. \A x \in Object \ (S \cup {o}) : m.next[x] = mem.next[x] /\ m.prev[x] = mem.prev[x]
  BY <1>3, <1>6, <1>9, <1>10
<1>13. \A g \in Holder \ {v, c} : own[g] \cap ((S \cup {o}) \cup {}) = {}
  BY <1>0, <1>1 DEF Owned
<1>14. \A g \in Holder \ {v, c} : \A x \in own[g] :
          mem'.next[x] = mem.next[x] /\ mem'.prev[x] = mem.prev[x]
  BY <1>8, <1>12, <1>13 DEF Deals
<1>15. Ring(S \cup {o}, mem', head'[v])
  BY <1>1, <1>3, <1>8, <1>11 DEF Ring
<1>16. /\ (S \cup {o}) \cup {} \subseteq 1 .. pages' * PerPage /\ pages' \in Nat /\ pages <= pages'
       /\ S \cup {o} \in SUBSET Object /\ {} \in SUBSET Object /\ (S \cup {o}) \cap {} = {}
  <2>1. pages' = pages /\ pages \in Nat
    BY AreaAssumption DEF Types
  <2> QED
    BY <1>2, <2>1
<1>17. \A w \in Vm \ {v, c} : head'[w] = head[w]
  OBVIOUS
<1> QED
  BY <1>0, <1>1, <1>2, <1>8, <1>10, <1>12, <1>13, <1>14, <1>15, <1>16, <1>17 DEF Moves

\* What list_extract of an area does to the objects.
LEMMA ExtractMoves ==
    ASSUME Types, NEW own \in Deals, Owned(own), NEW c \in Callers, NEW v \in Vm, head[v] # NULL,
           NEW n \in own[v], n # head[v], ~ ListEmpty(mem, n), mem' = ListExtract(mem, n),
           UNCHANGED <<next_free, pages, head>>
    PROVE  Moves(own, v, own[v] \ {n}, c, {n}) /\ n \in Object /\ mem' \in Mem
<1>0. /\ v \in Holder /\ c \in Holder /\ v # c /\ c # "free" /\ v # "free" /\ c \notin Vm
  BY Holders
<1>1. PICK h, S : h = head[v] /\ S = own[v]
  OBVIOUS
<1>2. n \in S /\ S \subseteq Object /\ S \subseteq 1 .. pages * PerPage
  BY <1>0, <1>1 DEF Owned, Deals
<1>3. h \in S /\ WellLinked(mem, S)
  BY <1>1 DEF Owned, Ring
<1>4. mem \in Mem /\ mem.next \in [Object -> Link] /\ mem.prev \in [Object -> Link]
  BY DEF Types, Mem
<1>5. /\ mem.next[n] \in S /\ mem.prev[n] \in S
  BY <1>2, <1>3 DEF WellLinked
<1>6. /\ mem' \in Mem
      /\ \A x \in Object \ S : mem'.next[x] = mem.next[x] /\ mem'.prev[x] = mem.prev[x]
  BY <1>2, <1>4, <1>5 DEF Mem, ListExtract, Link
<1>7. WellLinked(mem', S \ {n})
  <2>1. Memory(mem, Object)
    BY <1>4 DEF Memory, Mem
  <2> QED
    BY <1>2, <1>3, <2>1, ExtractLinks
<1>8. Ring(S \ {n}, mem', head'[v])
  BY <1>1, <1>3, <1>7 DEF Ring
<1>9. \A g \in Holder \ {v, c} : own[g] \cap ((S \ {n}) \cup {n}) = {}
  BY <1>0, <1>1 DEF Owned
<1>10. \A g \in Holder \ {v, c} : \A x \in own[g] :
          mem'.next[x] = mem.next[x] /\ mem'.prev[x] = mem.prev[x]
  BY <1>2, <1>6, <1>9 DEF Deals
<1>11. /\ (S \ {n}) \cup {n} \subseteq 1 .. pages' * PerPage /\ pages' \in Nat /\ pages <= pages'
       /\ S \ {n} \in SUBSET Object /\ {n} \in SUBSET Object /\ (S \ {n}) \cap {n} = {}
  BY <1>2, AreaAssumption DEF Types
<1>12. \A w \in Vm \ {v, c} : head'[w] = head[w]
  OBVIOUS
<1> QED
  BY <1>0, <1>1, <1>2, <1>6, <1>8, <1>9, <1>10, <1>11, <1>12 DEF Moves

\* An area is taken out of its list.
LEMMA ExtractKeeps ==
    ASSUME Undisturbed, IInv, NEW c \in Callers, NEW p, At(c, p),
           NEW v \in Vm, head[v] # NULL, \A d \in Callers \ {c} : v \notin {call[d].vm, call[d].src},
           NEW n, n # head[v], \A own \in Deals : Owned(own) => n \in own[v],
           NEW point \in Freeing, Extract(c, v, n, point),
           UNCHANGED <<area, next_free, pages, head, status>>
    PROVE  IInv'
<1>0. Types /\ CallsOK
  BY DEF IInv
<1>1. CASE Goto(c, "panic") /\ UNCHANGED mem
  BY <1>1, PanicStep
<1>2. CASE /\ ~ ListEmpty(mem, n) /\ mem' = ListExtract(mem, n)
           /\ call' = [call EXCEPT ![c] = Frame(point, "idle", v, NoVm, NoArea, n)]
  <2>1. PICK own \in Deals : Owned(own)
    BY DEF IInv
  <2>2. n \in own[v]
    BY <2>1
  <2>3. Moves(own, v, own[v] \ {n}, c, {n}) /\ n \in Object /\ mem' \in Mem
    BY <1>0, <1>2, <2>1, <2>2, ExtractMoves
  <2>4. Types'
    BY <1>0, <2>3 DEF Types
  <2> DEFINE u == Frame(point, "idle", v, NoVm, NoArea, n)
  <2>5. /\ u.pc = point /\ u.ret = "idle" /\ u.vm = v /\ u.src = NoVm /\ u.node = n /\ NoVm \notin Vm
        /\ call' = [call EXCEPT ![c] = u]
    BY <1>2, AreaAssumption DEF Frame
  <2>6. u \in CallFrame
    BY <2>3 DEF Frame, CallFrame, Space, Link, Point, Freeing
  <2> HIDE DEF u
  <2>7. Task(u) = point
    BY <2>5 DEF Task, Freeing
  <2>8. u \in GoodCall
    BY <2>5, <2>6, <2>7 DEF GoodCall, Cloning, Freeing
  <2>9. Uses(u) \subseteq {v} /\ Carries(u, {n}) /\ Task(u) \notin Cloning
    BY <2>5, <2>7 DEF Uses, Carries, Linking, Freeing, Cloning
  <2>10. Proceeds(c, u)
    <3>1. \A d \in Callers \ {c} : call[d].pc \in SwitchPoints
      BY <1>0, Standing
    <3>2. \A w \in Vm : status'[w] = "live" => head'[w] # NULL
      BY <1>0 DEF CallsOK
    <3>3. u.pc \notin {"alloc_read", "alloc_pop"}
      BY <2>5 DEF Freeing
    <3> QED
      BY <2>5, <2>8, <2>9, <3>1, <3>2, <3>3 DEF Proceeds
  <2>11. c # v /\ \A d \in Callers \ {c} : {v, c} \cap {d, call[d].vm, call[d].src} = {}
    BY <1>0, Separate, Holders
  <2> QED
    BY <2>1, <2>3, <2>4, <2>9, <2>10, <2>11, MoveStep
<1> QED
  BY <1>1, <1>2 DEF Extract

\* vmem_free_pages takes an area out of the list it found it in.
LEMMA FreePagesCallKeeps ==
    ASSUME Undisturbed, IInv, NEW c \in Callers, FreePagesCall(c)
    PROVE  IInv'
<1>0. Types /\ CallsOK
  BY DEF IInv
<1>1. At(c, "idle") /\ UNCHANGED <<area, next_free, pages, head, status>>
  BY DEF FreePagesCall, spaceVars
<1>2. PICK v \in Vm :
        /\ status[v] = "live" /\ Unused(v)
        /\ \/ Goto(c, "panic") /\ UNCHANGED mem
           \/ \E k \in DOMAIN Walk(head[v]) : Extract(c, v, Walk(head[v])[k], "free_obj")
  BY DEF FreePagesCall
<1>3. CASE Goto(c, "panic") /\ UNCHANGED mem
  BY <1>1, <1>3, PanicStep
<1>4. ASSUME NEW k \in DOMAIN Walk(head[v]), Extract(c, v, Walk(head[v])[k], "free_obj")
      PROVE  IInv'
  <2>1. PICK n : n = Walk(head[v])[k]
    OBVIOUS
  <2>2. n \in WalkSet(head[v]) /\ Extract(c, v, n, "free_obj")
    BY <1>4, <2>1 DEF WalkSet
  <2>3. head[v] # NULL /\ mem \in Mem
    BY <1>0, <1>2 DEF CallsOK, Types
  <2>4. \A own \in Deals : Owned(own) => n \in own[v] /\ n # head[v]
    <3> SUFFICES ASSUME NEW own \in Deals, Owned(own) PROVE n \in own[v] /\ n # head[v]
      OBVIOUS
    <3>1. PICK h, S : h = head[v] /\ S = own[v]
      OBVIOUS
    <3>2. h \in S /\ WellLinked(mem, S) /\ S \in SUBSET Object
      BY <2>3, <3>1, Holders DEF Owned, Ring, Deals
    <3>3. \A x \in S : mem.next[x] \in S \cup {NULL}
      BY <3>2 DEF WellLinked
    <3>4. WalkSet(h) \subseteq S \ {h}
      BY <2>3, <3>2, <3>3, WalkInside
    <3> QED
      BY <2>2, <3>1, <3>4
  <2>5. n # head[v]
    BY <2>4 DEF IInv
  <2>6. /\ \A d \in Callers \ {c} : v \notin {call[d].vm, call[d].src}
        /\ "free_obj" \in Freeing
    BY <1>2 DEF Unused, Freeing
  <2> QED
    BY <1>1, <2>2, <2>3, <2>4, <2>5, <2>6, ExtractKeeps
<1> QED
  BY <1>2, <1>3, <1>4

\* vmem_destroy takes the first area out of the list, or finds none.
LEMMA DestroyNextKeeps ==
    ASSUME Undisturbed, IInv, NEW c \in Callers, DestroyNext(c)
    PROVE  IInv'
<1>0. Types /\ CallsOK
  BY DEF IInv
<1>1. At(c, "destroy_next") /\ UNCHANGED <<area, next_free, pages, head, status>>
  BY DEF DestroyNext, spaceVars
<1>2. /\ call[c] \in GoodCall /\ call[c] \in CallFrame /\ call[c].pc = "destroy_next"
      /\ \A d \in Callers \ {c} : call[d].pc \in SwitchPoints
      /\ \A d \in Callers \ {c} : {call[c].vm, call[c].src} \cap {call[d].vm, call[d].src} \subseteq {NoVm}
  BY <1>0, <1>1, Standing
<1>3. PICK v, h : v = call[c].vm /\ h = head[v]
  OBVIOUS
<1>4. Task(call[c]) = "destroy_next" /\ v \in Vm /\ v \in Uses(call[c])
  BY <1>2, <1>3 DEF Task, GoodCall, Using, Uses
<1>5. h # NULL /\ \A d \in Callers \ {c} : v \notin {call[d].vm, call[d].src}
  BY <1>0, <1>3, <1>4, Separate DEF CallsOK
<1>6. CASE Goto(c, "destroy_head") /\ UNCHANGED mem
  <2> DEFINE u == [call[c] EXCEPT !.pc = "destroy_head"]
  <2>1. call' = [call EXCEPT ![c] = u]
    BY <1>6 DEF Goto
  <2>2. /\ u \in CallFrame /\ u.pc = "destroy_head" /\ u.vm = call[c].vm /\ u.src = call[c].src
    <3>1. "destroy_head" \in Point
      BY DEF Point
    <3> QED
      BY <1>2, <3>1, GotoFrame
  <2> HIDE DEF u
  <2>3. Task(u) = "destroy_head"
    BY <2>2 DEF Task
  <2>4. u \in GoodCall
    BY <1>2, <1>4, <2>2, <2>3 DEF GoodCall, Using, Cloning
  <2>5. \A w \in Uses(u) : head[w] # NULL
    <3>1. Uses(u) \subseteq Uses(call[c])
      BY <1>4, <2>2, <2>3 DEF Uses, Using, Cloning
    <3> QED
      BY <1>0, <3>1 DEF CallsOK
  <2>6. \A own : Carries(u, own[c]) /\ Visits(u, own)
    BY <2>2, <2>3 DEF Carries, Visits, Linking, Freeing, Cloning
  <2>7. \A d \in Callers \ {c} : {u.vm, u.src} \cap {call[d].vm, call[d].src} \subseteq {NoVm}
    BY <1>2, <2>2
  <2>8. /\ status' \in [Vm -> {"none", "new", "live", "dying"}]
        /\ \A w \in Vm : status'[w] = "live" => head[w] # NULL
    BY <1>0, <1>1 DEF Types, CallsOK
  <2> QED
    BY <1>1, <1>6, <2>1, <2>2, <2>4, <2>5, <2>6, <2>7, <2>8, CallStep
<1>7. CASE ~ ListEmpty(mem, h) /\ Extract(c, call[c].vm, mem.next[h], "destroy_free")
  <2>1. PICK n : n = mem.next[h]
    OBVIOUS
  <2>2. n # head[v] /\ Extract(c, v, n, "destroy_free") /\ head[v] # NULL
    BY <1>3, <1>5, <1>7, <2>1 DEF ListEmpty
  <2>3. \A own \in Deals : Owned(own) => n \in own[v]
    BY <1>3, <1>4, <1>5, <2>1 DEF Owned, Ring, WellLinked
  <2>4. "destroy_free" \in Freeing
    BY DEF Freeing
  <2> QED
    BY <1>1, <1>4, <1>5, <2>2, <2>3, <2>4, ExtractKeeps
<1> QED
  BY <1>3, <1>6, <1>7 DEF DestroyNext

\* A caller in vmem_clone's loop.
LEMMA CloneFrame ==
    ASSUME NEW v \in Vm, NEW s \in Vm, s # v, NEW n \in Link
    PROVE  LET u == Frame("clone_next", "idle", v, s, NoArea, n) IN
           /\ u \in GoodCall /\ u.pc = "clone_next" /\ u.vm = v /\ u.src = s /\ u.node = n
           /\ Uses(u) \subseteq {v, s} /\ \A S : Carries(u, S)
<1> DEFINE u == Frame("clone_next", "idle", v, s, NoArea, n)
<1>1. u.pc = "clone_next" /\ u.ret = "idle" /\ u.vm = v /\ u.src = s /\ u.node = n
  BY DEF Frame
<1>2. u \in CallFrame
  BY DEF Frame, CallFrame, Space, Link, Point
<1> HIDE DEF u
<1>3. Task(u) = "clone_next"
  BY <1>1 DEF Task
<1>4. u \in GoodCall
  BY <1>1, <1>2, <1>3 DEF GoodCall
<1>5. Uses(u) \subseteq {v, s} /\ \A S : Carries(u, S)
  BY <1>1 DEF Uses, Carries, Linking, Freeing
<1> QED
  BY <1>1, <1>4, <1>5 DEF u

\* A caller that has got its object.
LEMMA LinkingCall ==
    ASSUME CallsOK, NEW c \in Callers, NEW p \in Linking, At(c, p)
    PROVE  /\ call[c].vm \in Vm /\ call[c].src \in Space /\ call[c].src # call[c].vm
           /\ call[c].node \in Link /\ call[c].want \in Areas \cup {NoArea}
           /\ \A own \in Deals : Owned(own) => call[c].obj \in own[c]
           /\ call[c].src \in Vm => head[call[c].src] # NULL
           /\ p # "init_list" => head[call[c].vm] # NULL
           /\ p = "clone_link" => /\ call[c].src \in Vm
                                  /\ \A own \in Deals : Owned(own) => call[c].node \in own[call[c].src]
<1>1. call[c] \in GoodCall /\ call[c] \in CallFrame /\ call[c].pc = p
  BY Standing
<1>2. Task(call[c]) = p
  BY <1>1 DEF Task, Linking
<1>3. /\ call[c].vm \in Vm /\ call[c].src \in Space /\ call[c].node \in Link
      /\ call[c].want \in Areas \cup {NoArea} /\ (p = "clone_link" => call[c].src \in Vm)
  BY <1>1, <1>2 DEF GoodCall, CallFrame, Using, Cloning, Linking
<1>4. call[c].src # call[c].vm
  BY <1>1, <1>3, Holders DEF GoodCall, Space
<1>5. \A own \in Deals : Owned(own) => /\ call[c].obj \in own[c]
                                       /\ p = "clone_link" => call[c].node \in own[call[c].src]
  BY <1>1, <1>2 DEF Owned, Carries, Visits, Cloning
<1>6. /\ call[c].src \in Vm => call[c].src \in Uses(call[c])
      /\ p # "init_list" => call[c].vm \in Uses(call[c])
  BY <1>2, <1>3 DEF Uses, Using, Cloning, Linking
<1> QED
  BY <1>3, <1>4, <1>5, <1>6 DEF CallsOK

\* vmem_init ends, or vmem_clone reaches its loop.
LEMMA InitListKeeps ==
    ASSUME Undisturbed, IInv, NEW c \in Callers, InitList(c)
    PROVE  IInv'
<1>0. Types /\ CallsOK
  BY DEF IInv
<1>1. At(c, "init_list") /\ UNCHANGED <<area, next_free, pages>> /\ "init_list" \in Linking
  BY DEF InitList, Linking
<1>2. PICK own \in Deals : Owned(own)
  BY DEF IInv
<1>3. PICK v, s, o, n : v = call[c].vm /\ s = call[c].src /\ o = call[c].obj /\ n = mem.next[head[s]]
  OBVIOUS
<1>4. v \in Vm /\ s \in Space /\ s # v /\ o \in own[c] /\ (s \in Vm => head[s] # NULL)
  BY <1>0, <1>1, <1>2, <1>3, LinkingCall
<1>5. /\ mem' = ListInit(mem, o) /\ head' = [head EXCEPT ![v] = o]
      /\ \/ s = NoVm /\ status' = [status EXCEPT ![v] = "live"] /\ call' = [call EXCEPT ![c] = Idle]
         \/ s # NoVm /\ status' = status /\ CloneAt(c, v, s, n)
  BY <1>3 DEF InitList, Return
<1>6. /\ Moves(own, v, {o}, c, {}) /\ o \in Object /\ mem' \in Mem
      /\ head' \in [Vm -> Link] /\ head'[v] = o
  BY <1>0, <1>1, <1>2, <1>4, <1>5, InitMoves
<1>7. o # NULL /\ \A w \in Vm \ {v} : head'[w] = head[w]
  BY <1>0, <1>5, <1>6, Counting DEF NULL, Types
<1>8. /\ \A d \in Callers \ {c} : call[d].pc \in SwitchPoints
      /\ \A d \in Callers \ {c} : {v, s} \cap {call[d].vm, call[d].src} \subseteq {NoVm}
  BY <1>0, <1>1, <1>3, Standing
<1>9. v # c /\ \A d \in Callers \ {c} : {v, c} \cap {d, call[d].vm, call[d].src} = {}
  BY <1>0, <1>3, <1>4, Separate, Holders
<1>10. CASE s = NoVm /\ status' = [status EXCEPT ![v] = "live"] /\ call' = [call EXCEPT ![c] = Idle]
  <2>1. Types'
    BY <1>0, <1>1, <1>4, <1>6, <1>10 DEF Types
  <2>2. /\ Idle \in GoodCall /\ Idle.pc = "idle" /\ Idle.vm = NoVm /\ Idle.src = NoVm
        /\ Uses(Idle) = {} /\ \A S : Carries(Idle, S) /\ Visits(Idle, S)
    BY IdleFrame
  <2>3. \A w \in Vm : status'[w] = "live" => head'[w] # NULL
    BY <1>0, <1>4, <1>6, <1>7, <1>10 DEF CallsOK, Types
  <2>4. Proceeds(c, Idle)
    BY <1>8, <1>10, <2>2, <2>3 DEF Proceeds
  <2>5. Task(Idle) \notin Cloning
    BY <2>2 DEF Task, Cloning
  <2> QED
    BY <1>2, <1>6, <1>9, <2>1, <2>2, <2>4, <2>5, MoveStep
<1>11. CASE s # NoVm /\ status' = status /\ CloneAt(c, v, s, n)
  <2>1. Types'
    BY <1>0, <1>1, <1>6, <1>11 DEF Types
  <2>2. s \in Vm /\ head[s] # NULL
    BY <1>4, <1>11 DEF Space
  <2>3. n \in own[s] /\ n \in Link
    BY <1>2, <1>3, <2>2, Holders, SMTT(20) DEF Owned, Ring, WellLinked, Deals, Link
  <2> DEFINE u == Frame("clone_next", "idle", v, s, NoArea, n)
  <2>4. call' = [call EXCEPT ![c] = u]
    BY <1>11 DEF CloneAt
  <2>5. /\ u \in GoodCall /\ u.pc = "clone_next" /\ u.vm = v /\ u.src = s /\ u.node = n
        /\ Uses(u) \subseteq {v, s} /\ \A S : Carries(u, S)
    BY <1>4, <2>2, <2>3, CloneFrame
  <2> HIDE DEF u
  <2>6. /\ \A w \in Vm : status'[w] = "live" => head'[w] # NULL
        /\ \A w \in Uses(u) : head'[w] # NULL
    BY <1>0, <1>4, <1>6, <1>7, <1>11, <2>2, <2>5 DEF CallsOK
  <2>7. Proceeds(c, u)
    BY <1>8, <2>4, <2>5, <2>6 DEF Proceeds
  <2>8. u.src \notin {v, c} /\ u.node \in own[u.src]
    BY <1>4, <2>2, <2>3, <2>5, Holders
  <2> QED
    BY <1>2, <1>6, <1>9, <2>1, <2>5, <2>7, <2>8, MoveStep
<1> QED
  BY <1>5, <1>10, <1>11

\* vmem_alloc_pages links the new area.
LEMMA AreaLinkKeeps ==
    ASSUME Undisturbed, IInv, NEW c \in Callers, AreaLink(c)
    PROVE  IInv'
<1>0. Types /\ CallsOK
  BY DEF IInv
<1>1. /\ At(c, "area_link") /\ UNCHANGED <<next_free, pages, head, status>> /\ "area_link" \in Linking
      /\ call' = [call EXCEPT ![c] = Idle]
  BY DEF AreaLink, Linking, spaceVars, Return
<1>2. PICK own \in Deals : Owned(own)
  BY DEF IInv
<1>3. PICK v, o, w : v = call[c].vm /\ o = call[c].obj /\ w = call[c].want
  OBVIOUS
<1>4. v \in Vm /\ o \in own[c] /\ head[v] # NULL /\ w \in Areas \cup {NoArea}
  BY <1>0, <1>1, <1>2, <1>3, LinkingCall
<1>5. /\ mem' = ListInsertAfter(ListInit(mem, o), head[v], o) /\ area' = [area EXCEPT ![o] = w]
  BY <1>3 DEF AreaLink
<1>6. Moves(own, v, own[v] \cup {o}, c, {}) /\ o \in Object /\ mem' \in Mem
  BY <1>0, <1>1, <1>2, <1>4, <1>5, LinkMoves
<1>7. Types'
  BY <1>0, <1>1, <1>4, <1>5, <1>6 DEF Types
<1>8. \A d \in Callers \ {c} : call[d].pc \in SwitchPoints
  BY <1>0, <1>1, Standing
<1>9. v # c /\ \A d \in Callers \ {c} : {v, c} \cap {d, call[d].vm, call[d].src} = {}
  BY <1>0, <1>3, <1>4, Separate, Holders
<1>10. /\ Idle \in GoodCall /\ Idle.pc = "idle" /\ Idle.vm = NoVm /\ Idle.src = NoVm
       /\ Uses(Idle) = {} /\ \A S : Carries(Idle, S) /\ Visits(Idle, S)
  BY IdleFrame
<1>11. \A x \in Vm : status'[x] = "live" => head'[x] # NULL
  BY <1>0, <1>1 DEF CallsOK
<1>12. Proceeds(c, Idle)
  BY <1>1, <1>8, <1>10, <1>11 DEF Proceeds
<1>13. Task(Idle) \notin Cloning
  BY <1>10 DEF Task, Cloning
<1> QED
  BY <1>2, <1>6, <1>7, <1>9, <1>10, <1>12, <1>13, MoveStep

\* vmem_clone links a copy and goes on to the next area.
LEMMA CloneLinkKeeps ==
    ASSUME Undisturbed, IInv, NEW c \in Callers, CloneLink(c)
    PROVE  IInv'
<1>0. Types /\ CallsOK
  BY DEF IInv
<1>1. /\ At(c, "clone_link") /\ UNCHANGED <<next_free, pages, head, status>> /\ "clone_link" \in Linking
  BY DEF CloneLink, Linking, spaceVars
<1>2. PICK own \in Deals : Owned(own)
  BY DEF IInv
<1>3. PICK v, s, o, m, n : /\ v = call[c].vm /\ s = call[c].src /\ o = call[c].obj
                           /\ m = call[c].node /\ n = mem'.next[m]
  OBVIOUS
<1>4. /\ v \in Vm /\ s \in Vm /\ s # v /\ o \in own[c] /\ head[v] # NULL /\ head[s] # NULL
      /\ m \in own[s]
  BY <1>0, <1>1, <1>2, <1>3, LinkingCall
<1>5. /\ mem' = ListInsertAfter(ListInit(mem, o), head[v], o) /\ area' = [area EXCEPT ![o] = area[m]]
      /\ CloneAt(c, v, s, n)
  BY <1>3 DEF CloneLink
<1>6. /\ Moves(own, v, own[v] \cup {o}, c, {}) /\ o \in Object /\ mem' \in Mem
      /\ \A x \in Object \ (own[v] \cup {o}) : mem'.next[x] = mem.next[x]
  BY <1>0, <1>1, <1>2, <1>4, <1>5, LinkMoves
<1>7. m \in Object /\ m \notin own[v] \cup {o}
  BY <1>2, <1>4, Holders DEF Owned, Deals
<1>8. Types'
  BY <1>0, <1>1, <1>5, <1>6, <1>7 DEF Types
<1>9. n = mem.next[m]
  BY <1>3, <1>6, <1>7
<1>10. n \in own[s] /\ n \in Link
  BY <1>2, <1>4, <1>9, Holders DEF Owned, Ring, WellLinked, Deals, Link
<1>11. /\ \A d \in Callers \ {c} : call[d].pc \in SwitchPoints
       /\ \A d \in Callers \ {c} : {v, s} \cap {call[d].vm, call[d].src} \subseteq {NoVm}
  BY <1>0, <1>1, <1>3, Standing
<1>12. v # c /\ \A d \in Callers \ {c} : {v, c} \cap {d, call[d].vm, call[d].src} = {}
  BY <1>0, <1>3, <1>4, Separate, Holders
<1> DEFINE u == Frame("clone_next", "idle", v, s, NoArea, n)
<1>13. call' = [call EXCEPT ![c] = u]
  BY <1>5 DEF CloneAt
<1>14. /\ u \in GoodCall /\ u.pc = "clone_next" /\ u.vm = v /\ u.src = s /\ u.node = n
       /\ Uses(u) \subseteq {v, s} /\ \A S : Carries(u, S)
  BY <1>4, <1>10, CloneFrame
<1> HIDE DEF u
<1>15. /\ \A w \in Vm : status'[w] = "live" => head'[w] # NULL
       /\ \A w \in Uses(u) : head'[w] # NULL
  BY <1>0, <1>1, <1>4, <1>14 DEF CallsOK
<1>16. Proceeds(c, u)
  BY <1>11, <1>13, <1>14, <1>15 DEF Proceeds
<1>17. u.src \notin {v, c} /\ u.node \in own[u.src]
  BY <1>4, <1>10, <1>14, Holders
<1> QED
  BY <1>2, <1>6, <1>8, <1>12, <1>14, <1>16, <1>17, MoveStep

\* vmem_clone ends; after a failure the copy's objects belong to nobody.
LEMMA CloneEndKeeps ==
    ASSUME Undisturbed, IInv, NEW c \in Callers, CloneEnd(c)
    PROVE  IInv'
<1>0. Types /\ CallsOK
  BY DEF IInv
<1>1. /\ At(c, "clone_next") /\ UNCHANGED <<mem, area, next_free, pages>>
      /\ call' = [call EXCEPT ![c] = Idle]
  BY DEF CloneEnd, heapVars, Return
<1>2. PICK own \in Deals : Owned(own)
  BY DEF IInv
<1>3. PICK v : v = call[c].vm
  OBVIOUS
<1>4. /\ call[c] \in GoodCall /\ call[c].pc = "clone_next"
      /\ \A d \in Callers \ {c} : call[d].pc \in SwitchPoints
  BY <1>0, <1>1, Standing
<1>5. Task(call[c]) = "clone_next" /\ v \in Vm /\ v \in Uses(call[c])
  BY <1>3, <1>4 DEF Task, GoodCall, Using, Cloning, Uses
<1>6. head[v] # NULL
  BY <1>0, <1>5 DEF CallsOK
<1>7. /\ Idle \in GoodCall /\ Idle.pc = "idle" /\ Idle.vm = NoVm /\ Idle.src = NoVm
      /\ Uses(Idle) = {} /\ \A S : Carries(Idle, S) /\ Visits(Idle, S)
  BY IdleFrame
<1>8. CASE status' = [status EXCEPT ![v] = "live"] /\ UNCHANGED head
  <2>1. /\ status' \in [Vm -> {"none", "new", "live", "dying"}]
        /\ \A w \in Vm : status'[w] = "live" => head[w] # NULL
    BY <1>0, <1>5, <1>6, <1>8 DEF Types, CallsOK
  <2> QED
    BY <1>1, <1>7, <1>8, <2>1, CallStep
<1>9. CASE status' = [status EXCEPT ![v] = "none"] /\ head' = [head EXCEPT ![v] = NULL]
  <2>1. /\ head' \in [Vm -> Link] /\ status' \in [Vm -> {"none", "new", "live", "dying"}]
        /\ head'[v] = NULL /\ status'[v] = "none"
        /\ \A w \in Vm \ {v} : head'[w] = head[w] /\ status'[w] = status[w]
    BY <1>0, <1>5, <1>9 DEF Types, Link
  <2>2. Types'
    BY <1>0, <1>1, <2>1 DEF Types
  <2>3. /\ v # c /\ v # "free" /\ v \in Holder /\ c \in Holder /\ c # "free" /\ c \notin Vm
        /\ \A d \in Callers \ {c} : {v, c} \cap {d, call[d].vm, call[d].src} = {}
    BY <1>0, <1>3, <1>5, Separate, Holders
  <2>4. Moves(own, v, {}, c, {})
    <3>1. {} \cup {} \subseteq 1 .. pages' * PerPage /\ pages' \in Nat /\ pages <= pages'
      BY <1>0, <1>1, AreaAssumption DEF Types
    <3>2. Ring({}, mem', head'[v])
      BY <2>1 DEF Ring
    <3> QED
      BY <1>1, <2>1, <2>3, <3>1, <3>2 DEF Moves
  <2>5. \A w \in Vm : status'[w] = "live" => head'[w] # NULL
    BY <1>0, <2>1 DEF CallsOK
  <2>6. Proceeds(c, Idle)
    BY <1>1, <1>4, <1>7, <2>5 DEF Proceeds
  <2>7. Task(Idle) \notin Cloning
    BY <1>7 DEF Task, Cloning
  <2> QED
    BY <1>2, <1>7, <2>2, <2>3, <2>4, <2>6, <2>7, MoveStep
<1> QED
  BY <1>3, <1>8, <1>9 DEF CloneEnd

\* object_alloc returns the first free object.
LEMMA AllocPopKeeps ==
    ASSUME Undisturbed, IInv, NEW c \in Callers, AllocPop(c)
    PROVE  IInv'
<1>0. Types /\ CallsOK
  BY DEF IInv
<1>1. At(c, "alloc_pop") /\ UNCHANGED <<mem, area, pages, head, status>>
  BY DEF AllocPop, spaceVars
<1>2. CASE Goto(c, "panic") /\ UNCHANGED next_free
  BY <1>1, <1>2, PanicStep
<1>3. CASE next_free # NULL /\ next_free' = mem.next[next_free] /\ Goto(c, call[c].ret)
  <2>1. PICK own \in Deals : Owned(own)
    BY DEF IInv
  <2>2. PICK k, nf, F : k = call[c] /\ nf = next_free /\ F = own["free"]
    OBVIOUS
  <2>3. /\ k \in GoodCall /\ k.pc = "alloc_pop"
        /\ \A d \in Callers \ {c} : call[d].pc \in SwitchPoints
        /\ \A d \in Callers \ {c} : {k.vm, k.src} \cap {call[d].vm, call[d].src} \subseteq {NoVm}
    BY <1>0, <1>1, <2>2, Standing
  <2>4. k.obj = nf /\ \A v \in Uses(k) : head[v] # NULL
    BY <1>0, <2>2, <2>3 DEF CallsOK
  <2>5. PICK u : u = [k EXCEPT !.pc = k.ret]
    OBVIOUS
  <2>6. /\ u \in GoodCall /\ u.pc = k.ret /\ u.vm = k.vm /\ u.src = k.src /\ u.node = k.node
        /\ u.obj = k.obj /\ k.ret \in Linking /\ k.vm \in Vm
        /\ Task(k) = k.ret /\ Task(u) = k.ret /\ Uses(u) = Uses(k)
    BY <2>3, <2>5, SameTask
  <2>7. call' = [call EXCEPT ![c] = u]
    BY <1>3, <2>2, <2>5 DEF Goto
  <2>8. Proceeds(c, u)
    <3>1. u.pc \notin {"alloc_read", "alloc_pop"}
      BY <2>6 DEF Linking
    <3>2. \A w \in Vm : status'[w] = "live" => head'[w] # NULL
      BY <1>0, <1>1 DEF CallsOK
    <3> QED
      BY <1>1, <2>3, <2>4, <2>6, <2>7, <3>1, <3>2 DEF Proceeds
  <2>9. /\ F \subseteq Object /\ F \subseteq 1 .. pages * PerPage /\ nf \in F /\ Chain(F, mem, nf)
        /\ \A h \in Holder \ {"free"} : own[h] \cap F = {}
    BY <1>3, <2>1, <2>2, Holders DEF Owned, Deals, Chain
  <2>10. PICK nn : nn = mem.next[nf]
    OBVIOUS
  <2>11. PICK A : A = {x \in F : x <= nn}
    OBVIOUS
  <2>12. F \subseteq Nat /\ nn \in F \cup {NULL} /\ nn < nf /\ nn \in Nat
    <3>1. nn \in F \cup {NULL} /\ nn < nf
      BY <2>9, <2>10 DEF Chain
    <3>2. F \subseteq Nat
      BY <2>9, Counting
    <3> QED
      BY <3>1, <3>2 DEF NULL
  <2>13. Chain(A, mem', next_free')
    <3>1. next_free' = nn /\ mem' = mem
      BY <1>1, <1>3, <2>2, <2>10
    <3>2. nn # NULL => nn \in A
      BY <2>11, <2>12
    <3>3. ASSUME NEW x \in A
          PROVE  mem.next[x] \in A \cup {NULL} /\ mem.next[x] < x /\ x <= nn
      <4>1. x \in F /\ x <= nn /\ mem.next[x] \in F \cup {NULL} /\ mem.next[x] < x
        BY <2>9, <2>11 DEF Chain
      <4>2. x \in Nat /\ (mem.next[x] \in F => mem.next[x] <= nn)
        <5>1. PICK y : y = mem.next[x]
          OBVIOUS
        <5>2. x \in Nat /\ (y \in F => y \in Nat) /\ y < x /\ x <= nn /\ nn \in Nat
          BY <2>12, <4>1, <5>1
        <5>3. x \in Nat /\ (y \in F => y <= nn)
          BY <5>2
        <5> QED
          BY <5>1, <5>3
      <4> QED
        BY <2>11, <4>1, <4>2
    <3> QED
      BY <3>1, <3>2, <3>3 DEF Chain
  <2>14. A \in SUBSET Object /\ {nf} \in SUBSET Object /\ A \cap {nf} = {} /\ A \cup {nf} \subseteq F
    <3>1. ~ (nf <= nn)
      <4>1. nf \in Nat /\ nn \in Nat /\ nn < nf
        BY <2>9, <2>12
      <4> QED
        BY <4>1
    <3>2. nf \notin A /\ A \subseteq F
      BY <2>11, <3>1
    <3>3. A \cap {nf} = {}
      BY <3>2
    <3> QED
      BY <2>9, <3>2, <3>3
  <2>15. "free" \in Holder /\ c \in Holder /\ c # "free" /\ "free" \notin Vm /\ c \notin Vm
    BY Holders
  <2>16. Moves(own, "free", A, c, {nf})
    <3>1. /\ A \cup {nf} \subseteq 1 .. pages' * PerPage /\ pages' \in Nat /\ pages <= pages'
      <4>1. pages' = pages /\ pages \in Nat
        BY <1>0, <1>1, AreaAssumption DEF Types
      <4> QED
        BY <2>9, <2>14, <4>1
    <3>2. \A h \in Holder \ {"free", c} : own[h] \cap (A \cup {nf}) = {}
      BY <2>9, <2>14
    <3> QED
      BY <1>1, <2>13, <2>14, <2>15, <3>1, <3>2 DEF Moves
  <2>17. Types'
    <3>1. next_free' \in Link
      BY <1>3, <2>2, <2>9, <2>10, <2>12 DEF Link
    <3> QED
      BY <1>0, <1>1, <3>1 DEF Types
  <2>18. Carries(u, {nf})
    BY <2>4, <2>6 DEF Carries, Linking, Freeing
  <2>19. Task(u) \in Cloning => u.src \notin {"free", c} /\ u.node \in own[u.src]
    <3>1. Visits(k, own) /\ (Task(k) \in Cloning => k.src \in Vm)
      BY <2>1, <2>2, <2>3 DEF Owned, GoodCall
    <3> QED
      BY <2>6, <2>15, <3>1 DEF Visits
  <2>20. \A d \in Callers \ {c} : {"free", c} \cap {d, call[d].vm, call[d].src} = {}
    BY <1>0, Separate
  <2> QED
    BY <2>1, <2>8, <2>15, <2>16, <2>17, <2>18, <2>19, <2>20, MoveStep
<1> QED
  BY <1>2, <1>3 DEF AllocPop

\* The objects of a page.
PageOf(q) == (q - 1) * PerPage + 1 .. q * PerPage

\* Where the objects of the page after q pages are.
LEMMA NextPage ==
    ASSUME NEW q \in Nat, q < MaxPages
    PROVE  /\ PageOf(q + 1) \subseteq Object /\ PageOf(q + 1) \cap (1 .. q * PerPage) = {}
           /\ PageOf(q + 1) \subseteq 1 .. (q + 1) * PerPage
           /\ LastOf(q + 1) \in PageOf(q + 1)
           /\ \A o \in PageOf(q + 1) : o <= LastOf(q + 1)
           /\ \A o \in PageOf(q + 1) : o # q * PerPage + 1 => o - 1 \in PageOf(q + 1)
           /\ (q + 1 - 1) * PerPage + 1 = q * PerPage + 1
<1>1. PerPage \in Nat /\ PerPage > 0 /\ MaxPages \in Nat /\ q + 1 - 1 = q
  BY AreaAssumption
<1>2. PICK lo, hi : lo = q * PerPage /\ hi = (q + 1) * PerPage
  OBVIOUS
<1>3. lo \in Nat /\ hi \in Nat /\ hi = lo + PerPage
  BY <1>1, <1>2
<1>4. Count \in Nat /\ hi <= Count /\ Object = 1 .. Count
  <2>1. Count = MaxPages * PerPage
    BY <1>1 DEF Count
  <2>2. (q + 1) * PerPage <= MaxPages * PerPage
    <3>1. q + 1 \in Nat /\ MaxPages - (q + 1) \in Nat
      BY <1>1
    <3>2. MaxPages * PerPage = (q + 1) * PerPage + (MaxPages - (q + 1)) * PerPage
      BY <1>1
    <3>3. (MaxPages - (q + 1)) * PerPage \in Nat
      BY <1>1, <3>1
    <3> QED
      BY <1>2, <1>3, <3>2, <3>3
  <2> QED
    BY <1>2, <2>1, <2>2, Counting
<1>5. PageOf(q + 1) = lo + 1 .. hi /\ LastOf(q + 1) = hi
  BY <1>1, <1>2 DEF PageOf, LastOf
<1>6. (q + 1 - 1) * PerPage + 1 = q * PerPage + 1
  BY <1>1
<1>7. /\ lo + 1 .. hi \subseteq 1 .. Count /\ (lo + 1 .. hi) \cap (1 .. lo) = {}
      /\ lo + 1 .. hi \subseteq 1 .. hi /\ hi \in lo + 1 .. hi
      /\ \A o \in lo + 1 .. hi : o <= hi
      /\ \A o \in lo + 1 .. hi : o # lo + 1 => o - 1 \in lo + 1 .. hi
  BY <1>1, <1>3, <1>4
<1> QED
  BY <1>2, <1>4, <1>5, <1>6, <1>7

\* object_alloc goes on to ask for a page, or to read next_free, which is not
\* NULL.
LEMMA GoesOn ==
    ASSUME Undisturbed, IInv, NEW c \in Callers,
           NEW p \in {"alloc_test", "alloc_refill"}, At(c, p),
           NEW q \in {"alloc_refill", "alloc_read"}, Goto(c, q),
           q = "alloc_read" => next_free' # NULL, head' = head, status' = status, NEW own \in Deals, Owned(own)
    PROVE  \E u : /\ Proceeds(c, u) /\ \A S : Carries(u, S)
                  /\ Task(u) \in Cloning => u.src \in Vm /\ u.node \in own[u.src]
<1>0. Types /\ CallsOK
  BY DEF IInv
<1>1. PICK k : k = call[c]
  OBVIOUS
<1>2. /\ k \in GoodCall /\ k.pc = p
      /\ \A d \in Callers \ {c} : call[d].pc \in SwitchPoints
      /\ \A d \in Callers \ {c} : {k.vm, k.src} \cap {call[d].vm, call[d].src} \subseteq {NoVm}
  BY <1>0, <1>1, Standing
<1>3. PICK u : u = [k EXCEPT !.pc = q]
  OBVIOUS
<1>4. /\ u \in GoodCall /\ u.pc = q /\ u.vm = k.vm /\ u.src = k.src /\ u.node = k.node
      /\ Task(k) = k.ret /\ Task(u) = k.ret /\ Uses(u) = Uses(k)
  <2>1. k.pc \in {"alloc_test", "alloc_refill", "alloc_read", "alloc_pop"}
    BY <1>2
  <2>2. q \in {"alloc_refill", "alloc_read", k.ret}
    OBVIOUS
  <2> QED
    BY <1>2, <1>3, <2>1, <2>2, SameTask
<1>5. call' = [call EXCEPT ![c] = u]
  BY <1>1, <1>3 DEF Goto
<1>6. /\ \A v \in Uses(u) : head'[v] # NULL
      /\ \A v \in Vm : status'[v] = "live" => head'[v] # NULL
  BY <1>0, <1>1, <1>4 DEF CallsOK
<1>7. Proceeds(c, u)
  BY <1>2, <1>4, <1>5, <1>6 DEF Proceeds
<1>8. \A S : Carries(u, S)
  BY <1>4 DEF Carries, Linking, Freeing
<1>9. Task(u) \in Cloning => u.src \in Vm /\ u.node \in own[u.src]
  <2>1. Visits(k, own) /\ (Task(k) \in Cloning => k.src \in Vm)
    BY <1>1, <1>2 DEF Owned, GoodCall
  <2> QED
    BY <1>4, <2>1 DEF Visits
<1> QED
  BY <1>7, <1>8, <1>9

\* object_alloc finds a free object, or none.
LEMMA AllocTestKeeps ==
    ASSUME Undisturbed, IInv, NEW c \in Callers, AllocTest(c)
    PROVE  IInv'
<1>0. Types /\ CallsOK
  BY DEF IInv
<1>1. At(c, "alloc_test") /\ UNCHANGED <<head, status>>
  BY DEF AllocTest, spaceVars
<1>2. PICK own \in Deals : Owned(own)
  BY DEF IInv
<1>3. /\ "free" \in Holder /\ c \in Holder /\ c # "free" /\ "free" \notin Vm /\ c \notin Vm
      /\ Vm \cap Callers = {} /\ \A d \in Callers \ {c} : {"free", c} \cap {d, call[d].vm, call[d].src} = {}
  BY <1>0, Holders, Separate
<1>4. PICK q \in {"alloc_refill", "alloc_read"} : Goto(c, q) /\ (q = "alloc_read" => next_free # NULL)
  BY DEF AllocTest
<1>5. UNCHANGED heapVars
  BY DEF AllocTest
<1>6. PICK u : /\ Proceeds(c, u) /\ \A S : Carries(u, S)
               /\ Task(u) \in Cloning => u.src \in Vm /\ u.node \in own[u.src]
  BY <1>1, <1>2, <1>4, <1>5, GoesOn DEF heapVars
<1>7. Types'
  BY <1>0, <1>1, <1>5 DEF Types, heapVars
<1>8. Moves(own, "free", own["free"], c, own[c])
  <2>1. pages' \in Nat /\ pages <= pages'
    BY <1>0, <1>5, AreaAssumption DEF Types, heapVars
  <2>2. own["free"] \cup own[c] \subseteq 1 .. pages' * PerPage
    BY <1>2, <1>3, <1>5 DEF Owned, heapVars
  <2>3. /\ own["free"] \in SUBSET Object /\ own[c] \in SUBSET Object /\ own["free"] \cap own[c] = {}
        /\ \A h \in Holder \ {"free", c} : own[h] \cap (own["free"] \cup own[c]) = {}
    BY <1>2, <1>3 DEF Owned, Deals
  <2>4. Chain(own["free"], mem', next_free')
    BY <1>2, <1>5 DEF Owned, heapVars
  <2> QED
    BY <1>1, <1>3, <1>5, <2>1, <2>2, <2>3, <2>4 DEF Moves, heapVars
<1> QED
  BY <1>2, <1>3, <1>6, <1>7, <1>8, MoveStep

\* object_alloc makes a page of free objects, whatever the list was, or panics.
LEMMA AllocRefillKeeps ==
    ASSUME Undisturbed, IInv, NEW c \in Callers, AllocRefill(c)
    PROVE  IInv'
<1>0. Types /\ CallsOK
  BY DEF IInv
<1>1. At(c, "alloc_refill") /\ UNCHANGED <<head, status>>
  BY DEF AllocRefill, spaceVars
<1>2. PICK own \in Deals : Owned(own)
  BY DEF IInv
<1>3. /\ "free" \in Holder /\ c \in Holder /\ c # "free" /\ "free" \notin Vm /\ c \notin Vm
      /\ Vm \cap Callers = {} /\ \A d \in Callers \ {c} : {"free", c} \cap {d, call[d].vm, call[d].src} = {}
  BY <1>0, Holders, Separate
<1>4. CASE Goto(c, "panic") /\ UNCHANGED heapVars
  BY <1>1, <1>4, PanicStep DEF heapVars
<1>5. CASE /\ pages < MaxPages /\ pages' = pages + 1
           /\ mem' = [next |-> Refill(pages + 1), prev |-> mem.prev]
           /\ next_free' = LastOf(pages + 1) /\ Goto(c, "alloc_read") /\ UNCHANGED area
  <2>1. PICK q, A : q = pages /\ A = PageOf(q + 1)
    OBVIOUS
  <2>2. q \in Nat /\ q < MaxPages /\ pages' = q + 1 /\ pages' \in 0 .. MaxPages /\ pages <= pages'
    BY <1>0, <1>5, <2>1, AreaAssumption DEF Types
  <2>3. /\ A \subseteq Object /\ A \cap (1 .. q * PerPage) = {} /\ A \subseteq 1 .. (q + 1) * PerPage
        /\ LastOf(q + 1) \in A /\ \A o \in A : o <= LastOf(q + 1)
        /\ \A o \in A : o # q * PerPage + 1 => o - 1 \in A
        /\ (q + 1 - 1) * PerPage + 1 = q * PerPage + 1
    BY <2>1, <2>2, NextPage
  <2>4. mem \in Mem /\ mem.next \in [Object -> Link] /\ mem.prev \in [Object -> Link]
    BY <1>0 DEF Types, Mem
  <2>5. PICK first : first = q * PerPage + 1
    OBVIOUS
  <2>6. mem' = [next |-> [o \in Object |-> IF o \in A THEN IF o = first THEN NULL ELSE o - 1
                                           ELSE mem.next[o]],
                prev |-> mem.prev]
    <3>1. PICK p : p = pages + 1
      OBVIOUS
    <3>2. PICK lo, hi : lo = (p - 1) * PerPage + 1 /\ hi = p * PerPage
      OBVIOUS
    <3>3. Refill(p) = [o \in Object |-> IF o \in lo .. hi THEN IF o = lo THEN NULL ELSE o - 1
                                                          ELSE mem.next[o]]
      BY <3>2, Zenon DEF Refill
    <3>4. p - 1 = q
      BY <2>1, <2>2, <3>1
    <3>5. lo = first
      BY <2>5, <3>2, <3>4, Zenon
    <3>6. A = lo .. hi
      BY <2>1, <3>1, <3>2, Zenon DEF PageOf
    <3> QED
      BY <1>5, <3>1, <3>3, <3>5, <3>6, Zenon
  <2>7. /\ \A o \in A : mem'.next[o] = IF o = first THEN NULL ELSE o - 1
        /\ \A o \in Object \ A : mem'.next[o] = mem.next[o]
        /\ mem'.prev = mem.prev /\ mem' \in Mem
    <3>1. \A o \in A : o # first => o - 1 \in Link
      BY <2>3, <2>5 DEF Link
    <3>2. NULL \in Link
      BY DEF Link
    <3> HIDE DEF NULL
    <3> QED
      BY <2>3, <2>4, <2>6, <3>1, <3>2 DEF Mem
  <2>8. Chain(A, mem', next_free')
    <3>1. A \subseteq Nat /\ \A o \in A : o > 0
      BY <2>3, Counting
    <3>2. ASSUME NEW o \in A
          PROVE  mem'.next[o] \in A \cup {NULL} /\ mem'.next[o] < o
      <4>1. CASE o = first
        BY <2>7, <3>1, <4>1 DEF NULL
      <4>2. CASE o # first
        <5>1. mem'.next[o] = o - 1
          BY <2>7, <4>2
        <5>2. o - 1 \in A
          BY <2>3, <2>5, <4>2
        <5> QED
          BY <3>1, <5>1, <5>2
      <4> QED
        BY <4>1, <4>2
    <3>3. next_free' = LastOf(q + 1)
      BY <1>5, <2>1
    <3> QED
      BY <2>3, <3>2, <3>3 DEF Chain
  <2>9. next_free' # NULL /\ next_free' \in Link
    BY <1>5, <2>1, <2>3, Counting DEF NULL, Link
  <2>10. /\ own[c] \in SUBSET Object /\ own[c] \subseteq 1 .. q * PerPage
         /\ \A h \in Holder : own[h] \subseteq Object \ A
         /\ \A h \in Holder \ {"free", c} : own[h] \cap own[c] = {}
    <3>1. \A h \in Holder : own[h] \subseteq Object /\ own[h] \subseteq 1 .. q * PerPage
      BY <1>2, <2>1 DEF Owned, Deals
    <3>2. \A h \in Holder \ {"free", c} : own[h] \cap own[c] = {}
      BY <1>2, <1>3 DEF Owned
    <3> QED
      BY <1>3, <2>3, <3>1, <3>2
  <2>11. Moves(own, "free", A, c, own[c])
    <3>1. 1 .. q * PerPage \subseteq 1 .. (q + 1) * PerPage
      BY <2>2, MorePages
    <3>2. A \cup own[c] \subseteq 1 .. pages' * PerPage
      BY <2>2, <2>3, <2>10, <3>1
    <3>3. A \in SUBSET Object /\ A \cap own[c] = {}
      BY <1>3, <2>3, <2>10
    <3>4. \A h \in Holder \ {"free", c} : own[h] \cap (A \cup own[c]) = {}
      BY <2>10
    <3>5. \A h \in Holder \ {"free", c} : \A o \in own[h] :
              mem'.next[o] = mem.next[o] /\ mem'.prev[o] = mem.prev[o]
      BY <2>7, <2>10
    <3>6. pages' \in Nat
      BY <2>2
    <3> QED
      BY <1>1, <1>3, <2>2, <2>8, <2>10, <3>2, <3>3, <3>4, <3>5, <3>6 DEF Moves
  <2>12. PICK u : /\ Proceeds(c, u) /\ \A S : Carries(u, S)
                  /\ Task(u) \in Cloning => u.src \in Vm /\ u.node \in own[u.src]
    BY <1>1, <1>2, <1>5, <2>9, GoesOn
  <2>13. Types'
    BY <1>0, <1>1, <1>5, <2>2, <2>7, <2>9 DEF Types
  <2> QED
    BY <1>2, <1>3, <2>11, <2>12, <2>13, MoveStep
<1> QED
  BY <1>4, <1>5 DEF AllocRefill

-----------------------------------------------------------------------------
(* The theorems. *)

\* At the start nobody owns an object.
LEMMA InitIInv == Init => IInv
<1> SUFFICES ASSUME Init PROVE IInv
  OBVIOUS
<1>1. NULL \in Link /\ NoArea \in Areas \cup {NoArea}
  BY DEF Link
<1>2. Types
  BY <1>1, AreaAssumption DEF Init, Types, Mem
<1>3. \A c \in Callers : call[c] = Idle
  BY DEF Init
<1>4. /\ Idle \in GoodCall /\ Idle.pc = "idle" /\ Idle.vm = NoVm /\ Idle.src = NoVm
      /\ Uses(Idle) = {} /\ \A S : Carries(Idle, S) /\ Visits(Idle, S)
  BY IdleFrame
<1>5. call \in [Callers -> GoodCall]
  BY <1>4 DEF Init
<1>6. CallsOK
  BY <1>3, <1>4, <1>5 DEF CallsOK, Init
<1>7. PICK own : own = [h \in Holder |-> {}]
  OBVIOUS
<1>8. own \in Deals /\ \A h \in Holder : own[h] = {}
  BY <1>7 DEF Deals
<1>9. Owned(own)
  <2>1. Chain(own["free"], mem, next_free)
    BY <1>8, Holders DEF Chain, Init
  <2>2. \A v \in Vm : Ring(own[v], mem, head[v])
    BY DEF Ring, Init
  <2>3. \A c \in Callers : Carries(call[c], own[c]) /\ Visits(call[c], own)
    BY <1>3, <1>4
  <2> QED
    BY <1>8, <2>1, <2>2, <2>3 DEF Owned
<1> QED
  BY <1>2, <1>6, <1>8, <1>9 DEF IInv

\* Every step keeps the invariant.
LEMMA NextIInv ==
    ASSUME Undisturbed, IInv, Next
    PROVE  IInv'
<1>1. PICK c \in Callers : Step(c)
  BY DEF Next
<1>2. CASE AllocTest(c) \/ AllocRefill(c) \/ AllocRead(c) \/ AllocPop(c)
  BY <1>2, AllocTestKeeps, AllocRefillKeeps, AllocReadKeeps, AllocPopKeeps
<1>3. CASE InitCall(c) \/ InitList(c)
  BY <1>3, InitCallKeeps, InitListKeeps
<1>4. CASE CloneCall(c) \/ CloneNext(c) \/ CloneLink(c) \/ CloneEnd(c)
  BY <1>4, CloneCallKeeps, CloneNextKeeps, CloneLinkKeeps, CloneEndKeeps
<1>5. CASE AllocPagesCall(c) \/ AreaLink(c) \/ FreePagesCall(c) \/ FreeObj(c)
  BY <1>5, AllocPagesCallKeeps, AreaLinkKeeps, FreePagesCallKeeps, FreeObjKeeps
<1>6. CASE DestroyCall(c) \/ DestroyNext(c) \/ DestroyFree(c) \/ DestroyHead(c)
  BY <1>6, DestroyCallKeeps, DestroyNextKeeps, DestroyFreeKeeps, DestroyHeadKeeps
<1> QED
  BY <1>1, <1>2, <1>3, <1>4, <1>5, <1>6 DEF Step

\* A step that changes nothing.
LEMMA StutterIInv ==
    ASSUME IInv, UNCHANGED vars
    PROVE  IInv'
<1>1. Types' /\ CallsOK'
  BY DEF IInv, Types, CallsOK, vars
<1>2. PICK own \in Deals : Owned(own)
  BY DEF IInv
<1>3. Owned(own)'
  BY <1>2 DEF Owned, vars
<1> QED
  BY <1>1, <1>2, <1>3 DEF IInv

\* The inductive invariant holds always.
LEMMA AlwaysIInv ==
    ASSUME Undisturbed
    PROVE  Spec => []IInv
<1>1. IInv /\ [Next]_vars => IInv'
  BY NextIInv, StutterIInv
<1> QED
  BY <1>1, InitIInv, PTL DEF Spec

\* The links that callers follow and the points they are at stay what they
\* should be, in object_alloc, in the list operations and in vmem.c.
THEOREM AreaTypes ==
    ASSUME Undisturbed
    PROVE  Spec => []TypeOK
<1>1. IInv => TypeOK
  BY DEF IInv, Types, Mem, Link, CallsOK, GoodCall, CallFrame, TypeOK
<1> QED
  BY <1>1, AlwaysIInv, PTL

\* What somebody can reach is something it owns.
LEMMA HoldsOwned ==
    ASSUME IInv, NEW own \in Deals, Owned(own), NEW h \in Holder
    PROVE  Holds(h) \subseteq own[h]
<1>1. mem \in Mem /\ next_free \in Link
  BY DEF IInv, Types
<1>2. PICK S : S = own[h]
  OBVIOUS
<1>3. S \in SUBSET Object
  BY <1>2 DEF Deals
<1>4. ASSUME NEW x \in S, \A o \in S : mem.next[o] \in S \cup {NULL} PROVE {x} \cup WalkSet(x) \subseteq S
  BY <1>1, <1>3, <1>4, WalkInside
<1>5. CASE h = "free"
  <2>1. Chain(S, mem, next_free)
    BY <1>2, <1>5 DEF Owned
  <2>2. next_free # NULL => {next_free} \cup WalkSet(next_free) \subseteq S
    <3>1. PICK x : x = next_free
      OBVIOUS
    <3>2. x # NULL => x \in S /\ \A o \in S : mem.next[o] \in S \cup {NULL}
      BY <2>1, <3>1 DEF Chain
    <3> QED
      BY <1>4, <3>1, <3>2
  <2> QED
    BY <1>2, <1>5, <2>2 DEF Holds, FreeList
<1>6. CASE h \in Vm
  <2>1. h # "free" /\ Ring(S, mem, head[h])
    BY <1>2, <1>6, Holders DEF Owned
  <2>2. head[h] # NULL => {head[h]} \cup WalkSet(head[h]) \subseteq S
    <3>1. PICK x : x = head[h]
      OBVIOUS
    <3>2. x # NULL => x \in S /\ \A o \in S : mem.next[o] \in S \cup {NULL}
      BY <2>1, <3>1 DEF Ring, WellLinked
    <3> QED
      BY <1>4, <3>1, <3>2
  <2> QED
    BY <1>2, <1>6, <2>1, <2>2 DEF Holds
<1>7. CASE h \in Callers
  <2>1. h # "free" /\ h \notin Vm /\ Carries(call[h], S)
    BY <1>2, <1>7, Holders DEF Owned
  <2> QED
    BY <1>2, <1>7, <2>1 DEF Holds, Carries, Linking, Freeing
<1> QED
  BY <1>5, <1>6, <1>7 DEF Holder

\* No object is in two hands: object_alloc returns nothing that is linked into
\* an area list, on the free list or in another caller's hands.
THEOREM AreaNoDoubleAlloc ==
    ASSUME Undisturbed
    PROVE  Spec => []NoDoubleAlloc
<1>1. IInv => NoDoubleAlloc
  <2> SUFFICES ASSUME IInv, NEW g \in Holder, NEW h \in Holder, g # h
               PROVE  Holds(g) \cap Holds(h) = {}
    BY DEF NoDoubleAlloc, Holder
  <2>1. PICK own \in Deals : Owned(own)
    BY DEF IInv
  <2>2. Holds(g) \subseteq own[g] /\ Holds(h) \subseteq own[h]
    BY <2>1, HoldsOwned
  <2>3. own[g] \cap own[h] = {}
    BY <2>1 DEF Owned
  <2> QED
    BY <2>2, <2>3
<1> QED
  BY <1>1, AlwaysIInv, PTL

\* list_insert_after and list_extract leave every area list a ring in both
\* directions, whichever caller is preempted in favour of which.
THEOREM AreaRingsIntact ==
    ASSUME Undisturbed
    PROVE  Spec => []RingsIntact
<1>1. IInv => RingsIntact
  <2> SUFFICES ASSUME IInv, NEW v \in Vm, head[v] # NULL PROVE WellLinked(mem, Holds(v))
    BY DEF RingsIntact
  <2>1. PICK own \in Deals : Owned(own)
    BY DEF IInv
  <2>2. PICK h, S : h = head[v] /\ S = own[v]
    OBVIOUS
  <2>3. h \in S /\ WellLinked(mem, S) /\ S \in SUBSET Object /\ mem \in Mem
    BY <2>1, <2>2, Holders DEF Owned, Ring, Deals, IInv, Types
  <2>4. WellLinked(mem, {h} \cup WalkSet(h))
    BY <2>3, WalkRing
  <2>5. Holds(v) = {h} \cup WalkSet(h)
    BY <2>2, Holders DEF Holds
  <2> QED
    BY <2>4, <2>5
<1> QED
  BY <1>1, AlwaysIInv, PTL
=============================================================================
