----------------------------- MODULE VmemProofs -----------------------------
(***************************************************************************)
(* Theorems about Vmem: for every number of frames, spaces, pages, areas   *)
(* and entries per table.                                                  *)
(***************************************************************************)
EXTENDS Vmem, CommonProofs, FiniteSetTheorems

-----------------------------------------------------------------------------
(* Entries of page tables. *)

\* The entries that there can be.
Keys == {k \in Levels \X Nat : k[2] < 2 * Span[5 - k[1]]}

\* How the sizes of the levels' entries are related.
LEMMA SpanDef ==
    ASSUME NEW l \in Levels
    PROVE  /\ Span[l] \in Nat \ {0} /\ 5 - l \in Levels /\ Span[5 - l] \in Nat \ {0}
           /\ Span[4] \in Nat \ {0} /\ Span[4] = Span[l] * Span[5 - l]
<1>1. PICK F \in Nat \ {0, 1} : F = FANOUT
  BY VmemAssumption
<1>2. PICK G \in Nat \ {0} : G = F * F
  OBVIOUS
<1>3. PICK H \in Nat \ {0} : H = F * G /\ H = G * F
  OBVIOUS
<1>4. Span = <<1, F, G, H>>
  BY <1>1, <1>2, <1>3 DEF Span
<1>5. l \in 1 .. 4
  BY DEF Levels
<1>6. CASE l = 1
  BY <1>4, <1>6 DEF Levels
<1>7. CASE l = 2
  BY <1>3, <1>4, <1>7 DEF Levels
<1>8. CASE l = 3
  BY <1>3, <1>4, <1>8 DEF Levels
<1>9. CASE l = 4
  BY <1>4, <1>9 DEF Levels
<1> QED
  BY <1>5, <1>6, <1>7, <1>8, <1>9

\* The first page of an entry is one of the address space's.
LEMMA PageOfKey ==
    ASSUME NEW k \in Keys
    PROVE  /\ k[1] \in Levels /\ k[2] \in Nat /\ k = <<k[1], k[2]>>
           /\ PageOf(k) \in Nat /\ PageOf(k) < 2 * Span[4]
<1>1. k[1] \in Levels /\ k[2] \in Nat /\ k = <<k[1], k[2]>> /\ k[2] < 2 * Span[5 - k[1]]
  BY DEF Keys
<1>2. PICK n \in Nat \ {0} : n = Span[k[1]]
  BY <1>1, SpanDef
<1>3. PICK m \in Nat \ {0} : m = Span[5 - k[1]]
  BY <1>1, SpanDef
<1>4. Span[4] = n * m
  BY <1>1, <1>2, <1>3, SpanDef
<1>5. PICK i \in Nat : i = k[2] /\ i < 2 * m
  BY <1>1, <1>3
<1>6. PICK d \in Nat : d = 2 * m
  OBVIOUS
<1>7. n * i + n <= n * d
  BY <1>5, <1>6, Products
<1>8. n * d = 2 * (n * m)
  BY <1>6
<1>9. n * i \in Nat /\ n * m \in Nat
  OBVIOUS
<1>10. n * i < 2 * (n * m)
  BY <1>7, <1>8, <1>9
<1> QED
  BY <1>1, <1>2, <1>4, <1>5, <1>9, <1>10 DEF PageOf

\* The entries above a page are entries.
LEMMA AtKey ==
    ASSUME NEW p \in Nat, p < 2 * Span[4], NEW l \in Levels
    PROVE  At(p, l) \in Keys /\ At(p, l)[1] = l
<1>1. PICK n \in Nat \ {0} : n = Span[l]
  BY SpanDef
<1>2. PICK m \in Nat \ {0} : m = Span[5 - l]
  BY SpanDef
<1>3. Span[4] = n * m
  BY <1>1, <1>2, SpanDef
<1>4. PICK q \in Nat : q = p \div n /\ n * q <= p
  BY Euclid
<1>5. PICK d \in Nat : d = 2 * m
  OBVIOUS
<1>6. q < d
  <2> SUFFICES ASSUME d <= q PROVE FALSE
    OBVIOUS
  <2>1. n * d <= n * q
    BY Products
  <2>2. n * d = 2 * (n * m)
    BY <1>5
  <2>3. n * d \in Nat /\ n * q \in Nat /\ n * m \in Nat
    OBVIOUS
  <2>4. p < 2 * (n * m)
    BY <1>3
  <2> QED
    BY <1>4, <2>1, <2>2, <2>3, <2>4
<1>7. At(p, l) = <<l, q>>
  BY <1>1, <1>4 DEF At
<1>8. <<l, q>> \in Levels \X Nat /\ <<l, q>>[1] = l /\ <<l, q>>[2] = q
  OBVIOUS
<1>9. q < 2 * Span[5 - l]
  BY <1>2, <1>5, <1>6
<1> QED
  BY <1>7, <1>8, <1>9 DEF Keys

-----------------------------------------------------------------------------
(* frame_alloc. *)

\* The n-th of the frames is one of them, with n - 1 before it.
LEMMA NthDef ==
    ASSUME NEW fr \in SUBSET Nat, IsFiniteSet(fr), NEW n \in 1 .. Cardinality(fr)
    PROVE  Nth(fr, n) \in fr /\ Cardinality({g \in fr : g < Nth(fr, n)}) = n - 1
<1> DEFINE Below(f) == {g \in fr : g < f}
           Good == {i \in Nat : i < Cardinality(fr) => \E f \in fr : Cardinality(Below(f)) = i}
<1>0. Cardinality(fr) \in Nat
  BY FS_CardinalityType
<1>1. 0 \in Good
  <2> SUFFICES ASSUME 0 < Cardinality(fr) PROVE \E f \in fr : Cardinality(Below(f)) = 0
    OBVIOUS
  <2>1. fr # {}
    BY FS_EmptySet, <1>0
  <2>2. PICK f \in fr : \A g \in fr : f <= g
    BY <2>1, LeastNat
  <2>3. Below(f) = {}
    <3>1. \A g \in fr : ~(g < f)
      BY <2>2
    <3> QED
      BY <3>1
  <2> QED
    BY <2>3, FS_EmptySet
<1>2. ASSUME NEW i \in Nat, i \in Good PROVE i + 1 \in Good
  <2> SUFFICES ASSUME i + 1 < Cardinality(fr) PROVE \E f \in fr : Cardinality(Below(f)) = i + 1
    OBVIOUS
  <2>1. PICK f \in fr : Cardinality(Below(f)) = i
    BY <1>0, <1>2
  <2> DEFINE S == {g \in fr : f < g}
  <2>2. IsFiniteSet(Below(f)) /\ f \notin Below(f)
    BY FS_Subset
  <2>3. IsFiniteSet(Below(f) \cup {f}) /\ Cardinality(Below(f) \cup {f}) = i + 1
    BY <2>1, <2>2, FS_AddElement
  <2>4. S # {}
    <3> SUFFICES ASSUME S = {} PROVE FALSE
      OBVIOUS
    <3>1. \A g \in fr : g < f \/ g = f
      BY <2>1
    <3>2. fr = Below(f) \cup {f}
      BY <3>1
    <3> QED
      BY <2>3, <3>2
  <2>5. PICK h \in S : \A g \in S : h <= g
    <3>1. S \in SUBSET Nat
      OBVIOUS
    <3> QED
      BY <2>4, <3>1, LeastNat
  <2>6. Below(h) = Below(f) \cup {f}
    <3>1. h \in fr /\ f < h /\ \A g \in fr : f < g => h <= g
      BY <2>5
    <3>2. \A g \in fr : g < h <=> g < f \/ g = f
      BY <3>1
    <3> QED
      BY <3>2
  <2> QED
    BY <2>3, <2>5, <2>6
<1>3. Nat \subseteq Good
  <2> HIDE DEF Good
  <2> QED
    BY <1>1, <1>2, InductionSet
<1>4. n - 1 \in Nat /\ n - 1 < Cardinality(fr)
  BY <1>0
<1>5. \E f \in fr : Cardinality(Below(f)) = n - 1
  BY <1>3, <1>4
<1>6. PICK c : c = CHOOSE f \in fr : Cardinality(Below(f)) = n - 1
  OBVIOUS
<1>7. c \in fr /\ Cardinality(Below(c)) = n - 1
  BY <1>5, <1>6, Zenon
<1> QED
  BY <1>6, <1>7, Zenon DEF Nth

\* frame_alloc takes a frame that is free.
LEMMA NthFirst ==
    ASSUME NEW fr \in SUBSET Nat, IsFiniteSet(fr), fr # {}
    PROVE  Nth(fr, 1) \in fr
<1>1. Cardinality(fr) \in Nat /\ Cardinality(fr) # 0
  BY FS_CardinalityType, FS_EmptySet
<1>2. 1 \in 1 .. Cardinality(fr)
  BY <1>1
<1> QED
  BY <1>2, NthDef

-----------------------------------------------------------------------------
(* vmem_map_page. *)

\* The tables that vmem_ensure_next_table makes are entries above k that were
\* missing, and each gets a free frame of its own.
LEMMA MadeTables ==
    ASSUME NEW ent, NEW fr \in SUBSET Nat, IsFiniteSet(fr), NEW k \in Keys
    PROVE  /\ \A l \in Made(ent, fr, k) :
                 /\ l \in k[1] + 1 .. 4 /\ l \in Levels
                 /\ At(PageOf(k), l) \notin DOMAIN ent
                 /\ MadeFrame(ent, fr, k, l) \in fr
           /\ \A l, m \in Made(ent, fr, k) :
                 MadeFrame(ent, fr, k, l) = MadeFrame(ent, fr, k, m) => l = m
<1> DEFINE L == Missing(ent, k)
           Above(l) == {m \in L : m >= l}
           nth(l) == Cardinality(Above(l))
<1>1. k[1] \in 1 .. 4
  BY PageOfKey DEF Levels
<1>2. L \subseteq k[1] + 1 .. 4 /\ L \subseteq Levels /\ L \subseteq Nat
  BY <1>1 DEF Missing, Levels
<1>3. IsFiniteSet(L)
  <2>1. IsFiniteSet(k[1] + 1 .. 4)
    BY <1>1, FS_Interval
  <2> QED
    BY <1>2, <2>1, FS_Subset
<1>4. Cardinality(fr) \in Nat
  BY FS_CardinalityType
<1>5. ASSUME NEW l \in L PROVE IsFiniteSet(Above(l)) /\ nth(l) \in Nat \ {0}
  <2>1. IsFiniteSet(Above(l))
    BY <1>3, FS_Subset
  <2>2. nth(l) \in Nat
    BY <2>1, FS_CardinalityType
  <2>3. l \in Above(l)
    BY <1>2
  <2>4. nth(l) # 0
    BY <2>1, <2>3, FS_EmptySet
  <2> QED
    BY <2>1, <2>2, <2>4
<1>6. Made(ent, fr, k) = {l \in L : nth(l) <= Cardinality(fr)}
  BY DEF Made
<1>7. \A l : MadeFrame(ent, fr, k, l) = Nth(fr, nth(l))
  BY DEF MadeFrame
<1>8. ASSUME NEW l \in Made(ent, fr, k)
      PROVE  /\ l \in L /\ nth(l) \in 1 .. Cardinality(fr)
             /\ MadeFrame(ent, fr, k, l) \in fr
             /\ Cardinality({g \in fr : g < MadeFrame(ent, fr, k, l)}) = nth(l) - 1
  <2>1. l \in L /\ nth(l) \in 1 .. Cardinality(fr)
    BY <1>4, <1>5, <1>6
  <2>2. PICK c : c = MadeFrame(ent, fr, k, l)
    OBVIOUS
  <2> HIDE DEF nth, L
  <2>3. c = Nth(fr, nth(l))
    BY <1>7, <2>2
  <2>4. c \in fr /\ Cardinality({g \in fr : g < c}) = nth(l) - 1
    BY <2>1, <2>3, NthDef
  <2> QED
    BY <2>1, <2>2, <2>4
<1>9. ASSUME NEW l \in L, NEW m \in L, l < m PROVE nth(l) # nth(m)
  <2>1. Above(m) \in SUBSET Above(l)
    <3>1. \A j \in L : j >= m => j >= l
      BY <1>2, <1>9
    <3> QED
      BY <3>1
  <2>2. l \in Above(l) /\ l \notin Above(m)
    BY <1>2, <1>9
  <2>3. Above(l) # Above(m)
    BY <2>2
  <2>4. IsFiniteSet(Above(l))
    BY <1>5
  <2> HIDE DEF Above
  <2> QED
    BY <2>1, <2>3, <2>4, FS_Subset
<1>10. ASSUME NEW l \in Made(ent, fr, k), NEW m \in Made(ent, fr, k),
              MadeFrame(ent, fr, k, l) = MadeFrame(ent, fr, k, m)
       PROVE  l = m
  <2>1. l \in L /\ m \in L /\ l \in Nat /\ m \in Nat
    BY <1>2, <1>8
  <2>2. nth(l) \in Nat /\ nth(m) \in Nat /\ nth(l) - 1 = nth(m) - 1
    <3>1. nth(l) \in Nat /\ nth(m) \in Nat
      BY <1>5, <2>1
    <3>2. /\ Cardinality({g \in fr : g < MadeFrame(ent, fr, k, l)}) = nth(l) - 1
          /\ Cardinality({g \in fr : g < MadeFrame(ent, fr, k, m)}) = nth(m) - 1
      BY <1>8
    <3> HIDE DEF nth
    <3> QED
      BY <1>10, <3>1, <3>2
  <2>3. nth(l) = nth(m)
    <3> HIDE DEF nth
    <3> QED
      BY <2>2
  <2>4. ~(l < m) /\ ~(m < l)
    BY <1>9, <2>1, <2>3
  <2> QED
    BY <2>1, <2>4
<1>11. \A l \in L : At(PageOf(k), l) \notin DOMAIN ent
  BY DEF Missing
<1> QED
  BY <1>2, <1>8, <1>10, <1>11

\* The entries above k, and those that a call makes.
Path(k) == {At(PageOf(k), l) : l \in k[1] + 1 .. 4}
New(ent, fr, k) == {At(PageOf(k), l) : l \in Made(ent, fr, k)}

\* What vmem_map_page leaves behind.
MapResult(ent, fr, k, frame, fl, r) ==
    /\ r.res \in {"ok", "ENOMEM", "kassert"}
    /\ DOMAIN r.entry = DOMAIN ent \cup New(ent, fr, k) \cup (IF r.res = "ok" THEN {k} ELSE {})
    /\ \A e \in New(ent, fr, k) :
          /\ e \in Keys /\ e \notin DOMAIN ent /\ e[1] > k[1]
          /\ MadeFrame(ent, fr, k, e[1]) \in fr
          /\ r.entry[e].frame = MadeFrame(ent, fr, k, e[1])
          /\ r.entry[e].flags = vmem_convert_flags(fl) \cup {PTE_PRESENT}
    /\ \A d, e \in New(ent, fr, k) :
          MadeFrame(ent, fr, k, d[1]) = MadeFrame(ent, fr, k, e[1]) => d = e
    /\ \A e \in DOMAIN ent : e # k \/ r.res # "ok" =>
          /\ r.entry[e].frame = ent[e].frame
          /\ r.entry[e].flags =
                ent[e].flags \cup (IF e \in Path(k) THEN vmem_convert_flags(fl) ELSE {})
    /\ r.res = "ok" =>
          /\ Path(k) \subseteq DOMAIN ent \cup New(ent, fr, k)
          /\ k \in DOMAIN ent => k[1] = 3 /\ PTE_PAGE_SIZE \in ent[k].flags
          /\ r.entry[k].frame = frame
          /\ r.entry[k].flags = vmem_convert_flags(fl) \cup {PTE_PRESENT}
                                  \cup (IF k[1] > 1 THEN {PTE_PAGE_SIZE} ELSE {})
    /\ r.free = fr \ {MadeFrame(ent, fr, k, e[1]) : e \in New(ent, fr, k)}

\* Every call leaves that behind, also when it runs out of frames.
LEMMA MapPage ==
    ASSUME NEW ent, NEW fr \in SUBSET Nat, IsFiniteSet(fr), NEW k \in Keys, NEW frame, NEW fl,
           NEW r, r = map_page(ent, fr, k, frame, fl)
    PROVE  MapResult(ent, fr, k, frame, fl, r)
<1> DEFINE raw == vmem_convert_flags(fl)
           new == New(ent, fr, k)
           tables == ensure_tables(ent, fr, k, raw)
           size == IF k[1] > 1 THEN {PTE_PAGE_SIZE} ELSE {}
           ok == Made(ent, fr, k) = Missing(ent, k)
           taken == k \in DOMAIN ent /\ ~ (k[1] = 3 /\ PTE_PAGE_SIZE \in ent[k].flags)
<1>1. k[1] \in 1 .. 4 /\ PageOf(k) \in Nat /\ PageOf(k) < 2 * Span[4]
  BY PageOfKey DEF Levels
<1>2. \A l \in Levels : At(PageOf(k), l) \in Keys /\ At(PageOf(k), l)[1] = l
  BY <1>1, AtKey
<1>3. ASSUME NEW e \in new
      PROVE  /\ e[1] \in Made(ent, fr, k) /\ e = At(PageOf(k), e[1])
             /\ e \in Keys /\ e \notin DOMAIN ent /\ e[1] > k[1]
             /\ MadeFrame(ent, fr, k, e[1]) \in fr
  <2>1. PICK l \in Made(ent, fr, k) : e = At(PageOf(k), l)
    BY DEF New
  <2>2. l \in k[1] + 1 .. 4 /\ l \in Levels /\ e \notin DOMAIN ent /\ MadeFrame(ent, fr, k, l) \in fr
    BY <2>1, MadeTables
  <2>3. e[1] = l /\ e \in Keys
    BY <1>2, <2>1, <2>2
  <2>4. e[1] > k[1]
    BY <1>1, <2>2, <2>3
  <2> QED
    BY <2>1, <2>2, <2>3, <2>4
<1>4. ASSUME NEW d \in new, NEW e \in new,
             MadeFrame(ent, fr, k, d[1]) = MadeFrame(ent, fr, k, e[1])
      PROVE  d = e
  <2>1. d[1] = e[1]
    BY <1>3, <1>4, MadeTables
  <2> QED
    BY <1>3, <2>1
<1>5. tables = [e \in DOMAIN ent \cup new |->
                  IF e \in new
                  THEN [frame |-> MadeFrame(ent, fr, k, e[1]), flags |-> raw \cup {PTE_PRESENT}]
                  ELSE [frame |-> ent[e].frame,
                        flags |-> ent[e].flags \cup (IF e \in Path(k) THEN raw ELSE {})]]
  BY Zenon DEF ensure_tables, New, Path
<1>6. /\ r.entry = IF ok /\ ~ taken
                   THEN [e \in DOMAIN tables \cup {k} |->
                           IF e = k THEN [frame |-> frame, flags |-> raw \cup size \cup {PTE_PRESENT}]
                           ELSE tables[e]]
                   ELSE tables
      /\ r.free = fr \ {MadeFrame(ent, fr, k, l) : l \in Made(ent, fr, k)}
      /\ r.res = IF ~ ok THEN "ENOMEM" ELSE IF taken THEN "kassert" ELSE "ok"
  BY DEF map_page
<1>7. {MadeFrame(ent, fr, k, l) : l \in Made(ent, fr, k)} = {MadeFrame(ent, fr, k, e[1]) : e \in new}
  <2>1. \A l \in Made(ent, fr, k) : At(PageOf(k), l) \in new /\ At(PageOf(k), l)[1] = l
    BY <1>2, MadeTables DEF New
  <2>2. \A e \in new : e[1] \in Made(ent, fr, k)
    BY <1>3
  <2> QED
    BY <2>1, <2>2
<1>8. r.res = "ok" <=> ok /\ ~ taken
  BY <1>6
<1>9. k \notin new
  BY <1>1, <1>3
<1>10. ASSUME ok PROVE Path(k) \subseteq DOMAIN ent \cup new
  BY <1>10 DEF Path, New, Missing
<1> HIDE DEF ok, taken, raw, new, size
<1>11. DOMAIN tables = DOMAIN ent \cup new
  BY <1>5
<1>12. ASSUME NEW e \in new
       PROVE  /\ r.entry[e].frame = MadeFrame(ent, fr, k, e[1])
              /\ r.entry[e].flags = raw \cup {PTE_PRESENT}
  <2>1. tables[e] = [frame |-> MadeFrame(ent, fr, k, e[1]), flags |-> raw \cup {PTE_PRESENT}]
    BY <1>5
  <2> HIDE DEF tables
  <2>2. r.entry[e] = tables[e]
    BY <1>6, <1>9, <1>11
  <2> QED
    BY <2>1, <2>2
<1>13. ASSUME NEW e \in DOMAIN ent, e # k \/ r.res # "ok"
       PROVE  /\ r.entry[e].frame = ent[e].frame
              /\ r.entry[e].flags = ent[e].flags \cup (IF e \in Path(k) THEN raw ELSE {})
  <2>1. tables[e] = [frame |-> ent[e].frame,
                     flags |-> ent[e].flags \cup (IF e \in Path(k) THEN raw ELSE {})]
    BY <1>3, <1>5
  <2> HIDE DEF tables
  <2>2. r.entry[e] = tables[e]
    BY <1>6, <1>8, <1>11, <1>13
  <2> QED
    BY <2>1, <2>2
<1>14. DOMAIN r.entry = DOMAIN ent \cup new \cup (IF r.res = "ok" THEN {k} ELSE {})
  <2> HIDE DEF tables
  <2> QED
    BY <1>6, <1>8, <1>11
<1>15. ASSUME r.res = "ok"
       PROVE  r.entry[k] = [frame |-> frame, flags |-> raw \cup size \cup {PTE_PRESENT}]
  <2> HIDE DEF tables
  <2> QED
    BY <1>6, <1>8, <1>15
<1>16. r.res = "ok" => (k \in DOMAIN ent => k[1] = 3 /\ PTE_PAGE_SIZE \in ent[k].flags)
  BY <1>8 DEF taken
<1>17. r.res \in {"ok", "ENOMEM", "kassert"}
  BY <1>6
<1>18. r.free = fr \ {MadeFrame(ent, fr, k, e[1]) : e \in new}
  BY <1>6, <1>7
<1>19. r.res = "ok" => /\ Path(k) \subseteq DOMAIN ent \cup new
                       /\ r.entry[k].frame = frame
                       /\ r.entry[k].flags = raw \cup {PTE_PRESENT} \cup size
  BY <1>8, <1>10, <1>15
<1>20. \A e \in new : /\ r.entry[e].frame = MadeFrame(ent, fr, k, e[1])
                      /\ r.entry[e].flags = raw \cup {PTE_PRESENT}
  BY <1>12
<1>21. \A e \in DOMAIN ent : e # k \/ r.res # "ok" =>
          /\ r.entry[e].frame = ent[e].frame
          /\ r.entry[e].flags = ent[e].flags \cup (IF e \in Path(k) THEN raw ELSE {})
  BY <1>13
<1> QED
  BY <1>3, <1>4, <1>14, <1>16, <1>17, <1>18, <1>19, <1>20, <1>21, Zenon
  DEF MapResult, raw, new, size

-----------------------------------------------------------------------------
(* The invariant: what an entry's flags say about its frame, and who refers to *)
(* a frame.                                                                    *)

\* The frame of a large page is no frame of the allocator, and a small page
\* that is one is marked.
EntryOK(k, e) ==
    /\ k \in Keys /\ e.frame \in Frame \cup {STATIC, BOGUS} /\ PTE_PRESENT \in e.flags
    /\ PTE_PAGE_SIZE \in e.flags => e.frame \notin Frame
    /\ k[1] = 1 /\ e.frame \in Frame => PTE_ALLOC \in e.flags

TablesOK(ent) == \A k \in DOMAIN ent : EntryOK(k, ent[k])

Types ==
    /\ free \subseteq mem /\ mem \subseteq Frame
    /\ root \in [Space -> Frame \cup {STATIC, NONE}]
    /\ kstack \in [Space -> Frame \cup {NONE}]
    /\ DOMAIN entry = Space /\ \A v \in Space : TablesOK(entry[v])
    /\ areas \in [Space -> Seq(AreaChoices)]
    /\ cur \in Space
    /\ setup \in 0 .. 7
    /\ job \in [Space -> Space \cup {NONE}]
    /\ calls \in 0 .. MaxCalls
    /\ failed \subseteq Space

\* Place x of space v refers to frame f: the PML4 pointer, the kernel stack or an
\* entry.  A frame of the allocator is never the frame of a page that is not
\* marked, so that every entry counts.
Refers(v, x, f) ==
    \/ x = <<0, 0>> /\ root[v] = f
    \/ x = <<0, 1>> /\ kstack[v] = f
    \/ x \in DOMAIN entry[v] /\ entry[v][x].frame = f

\* One reference at most, and none to a free frame.
Exclusive ==
    \A f \in Frame : \A v \in Space : \A x : Refers(v, x, f) =>
        /\ f \in mem \ free
        /\ \A w \in Space : \A y : Refers(w, y, f) => w = v /\ y = x

\* What a step has to show: who refers to a frame afterwards did so before, or
\* is the only one that has got a free one.
LEMMA Exchange ==
    ASSUME Exclusive, free \subseteq mem, mem' = mem,
           \A f \in Frame : \A v \in Space : \A x :
               Refers(v, x, f)' => f \notin free' /\ (Refers(v, x, f) \/ f \in free),
           \A f \in Frame \cap free : \A v, w \in Space : \A x, y :
               Refers(v, x, f)' /\ Refers(w, y, f)' => w = v /\ y = x
    PROVE  Exclusive'
<1> SUFFICES ASSUME NEW f \in Frame, NEW v \in Space, NEW x, Refers(v, x, f)'
             PROVE  /\ f \in mem' /\ f \notin free'
                    /\ \A w \in Space : \A y : Refers(w, y, f)' => w = v /\ y = x
  BY DEF Exclusive
<1>1. f \notin free' /\ (Refers(v, x, f) \/ f \in free)
  OBVIOUS
<1>2. f \in mem'
  BY <1>1 DEF Exclusive
<1>3. ASSUME NEW w \in Space, NEW y, Refers(w, y, f)' PROVE w = v /\ y = x
  <2>1. CASE f \in free
    BY <1>3, <2>1
  <2>2. CASE f \notin free
    <3>1. Refers(v, x, f) /\ Refers(w, y, f)
      BY <1>1, <1>3, <2>2
    <3> QED
      BY <3>1 DEF Exclusive
  <2> QED
    BY <2>1, <2>2
<1> QED
  BY <1>1, <1>2, <1>3

\* The free frames are finitely many numbers.
LEMMA FreeFinite ==
    ASSUME Types
    PROVE  /\ free \in SUBSET Frame /\ free \in SUBSET Nat /\ IsFiniteSet(free)
           /\ STATIC \notin Frame /\ BOGUS \notin Frame /\ NONE \notin Frame
<1>1. free \subseteq Frame /\ FrameCount \in Nat
  BY VmemAssumption DEF Types
<1>2. Frame \subseteq Nat
  BY <1>1 DEF Frame
<1>3. IsFiniteSet(Frame)
  BY <1>1, FS_Interval DEF Frame
<1>4. STATIC \notin Frame /\ BOGUS \notin Frame /\ NONE \notin Frame
  BY <1>1 DEF Frame, STATIC, BOGUS, NONE
<1> QED
  BY <1>1, <1>2, <1>3, <1>4, FS_Subset

\* The flags of vmem.h become neither PTE_PRESENT nor PTE_PAGE_SIZE.
LEMMA Converted ==
    ASSUME NEW fl
    PROVE  /\ PTE_PAGE_SIZE \notin vmem_convert_flags(fl) \cup {PTE_PRESENT}
           /\ VMEM_ALLOC \in fl <=> PTE_ALLOC \in vmem_convert_flags(fl)
           /\ VMEM_USER \in fl <=> PTE_USER \in vmem_convert_flags(fl)
           /\ VMEM_WRITE \in fl <=> PTE_WRITEABLE \in vmem_convert_flags(fl)
           /\ vmem_convert_flags(fl) \subseteq {PTE_USER, PTE_WRITEABLE, PTE_ALLOC}
  BY DEF vmem_convert_flags, PTE_PAGE_SIZE, PTE_PRESENT, PTE_ALLOC, PTE_USER, PTE_WRITEABLE

\* Where the frame that is mapped comes from, and what is left for tables.
Supply(fr, frame, k, fl) ==
    \/ fr = free /\ frame \in {STATIC, BOGUS}
    \/ frame \in free /\ fr = free \ {frame} /\ k[1] = 1 /\ VMEM_ALLOC \in fl

\* vmem_map_page leaves well-formed tables.
LEMMA MapTables ==
    ASSUME Types, NEW ent, TablesOK(ent), NEW k \in Keys, NEW fr, NEW frame, NEW fl, NEW r,
           Supply(fr, frame, k, fl), r = map_page(ent, fr, k, frame, fl)
    PROVE  /\ TablesOK(r.entry) /\ r.free \subseteq fr /\ fr \subseteq free
           /\ MapResult(ent, fr, k, frame, fl, r)
<1>1. fr \in SUBSET Nat /\ IsFiniteSet(fr) /\ fr \subseteq free /\ fr \subseteq Frame
  <2>1. fr \in SUBSET free
    BY DEF Supply
  <2> QED
    BY <2>1, FreeFinite, FS_Subset
<1>2. MapResult(ent, fr, k, frame, fl, r)
  BY <1>1, MapPage
<1>3. ASSUME NEW e \in DOMAIN r.entry PROVE EntryOK(e, r.entry[e])
  <2>1. CASE e \in New(ent, fr, k)
    <3>1. /\ e \in Keys /\ e[1] > k[1] /\ r.entry[e].frame \in fr
          /\ r.entry[e].flags = vmem_convert_flags(fl) \cup {PTE_PRESENT}
      BY <1>2, <2>1 DEF MapResult
    <3>2. e[1] # 1
      BY <3>1, PageOfKey DEF Levels
    <3> QED
      BY <1>1, <3>1, <3>2, Converted DEF EntryOK
  <2>2. CASE e = k /\ r.res = "ok"
    <3>1. /\ r.entry[e].frame = frame
          /\ r.entry[e].flags = vmem_convert_flags(fl) \cup {PTE_PRESENT}
                                  \cup (IF k[1] > 1 THEN {PTE_PAGE_SIZE} ELSE {})
      BY <1>2, <2>2 DEF MapResult
    <3>2. CASE frame \in {STATIC, BOGUS}
      BY <2>2, <3>1, <3>2, FreeFinite DEF EntryOK
    <3>3. CASE frame \in free /\ k[1] = 1 /\ VMEM_ALLOC \in fl
      <4>1. r.entry[e].flags = vmem_convert_flags(fl) \cup {PTE_PRESENT}
        BY <3>1, <3>3
      <4>2. PTE_ALLOC \in vmem_convert_flags(fl)
        BY <3>3, Converted
      <4>3. frame \in Frame
        BY <3>3, FreeFinite
      <4> QED
        BY <2>2, <3>1, <4>1, <4>2, <4>3, Converted DEF EntryOK
    <3> QED
      BY <3>2, <3>3 DEF Supply
  <2>3. CASE e \in DOMAIN ent /\ (e # k \/ r.res # "ok")
    <3>1. /\ r.entry[e].frame = ent[e].frame
          /\ r.entry[e].flags = ent[e].flags \cup (IF e \in Path(k) THEN vmem_convert_flags(fl) ELSE {})
      BY <1>2, <2>3 DEF MapResult
    <3>2. EntryOK(e, ent[e])
      BY <2>3 DEF TablesOK
    <3>3. PTE_PAGE_SIZE \in r.entry[e].flags => PTE_PAGE_SIZE \in ent[e].flags
      BY <3>1, Converted
    <3> QED
      BY <3>1, <3>2, <3>3 DEF EntryOK
  <2> QED
    BY <1>2, <2>1, <2>2, <2>3 DEF MapResult
<1>4. r.free \subseteq fr
  BY <1>2 DEF MapResult
<1> QED
  BY <1>1, <1>2, <1>3, <1>4 DEF TablesOK

\* vmem_map_page has written to space v.
Maps(v, k, fr, frame, fl, r) ==
    /\ Supply(fr, frame, k, fl) /\ r = map_page(entry[v], fr, k, frame, fl)
    /\ entry' = [entry EXCEPT ![v] = r.entry] /\ free' = r.free

\* The tables of the other spaces are as they were.
LEMMA MapOthers ==
    ASSUME Types, NEW v \in Space, NEW k \in Keys, NEW fr, NEW frame, NEW fl, NEW r,
           Maps(v, k, fr, frame, fl, r)
    PROVE  /\ entry'[v] = r.entry /\ \A w \in Space : w # v => entry'[w] = entry[w]
           /\ DOMAIN entry' = Space /\ (\A w \in Space : TablesOK(entry[w]))'
           /\ free' \subseteq free /\ free' \subseteq fr /\ fr \subseteq free
           /\ MapResult(entry[v], fr, k, frame, fl, r)
<1>1. DOMAIN entry = Space /\ TablesOK(entry[v])
  BY DEF Types
<1>2. Supply(fr, frame, k, fl) /\ r = map_page(entry[v], fr, k, frame, fl) /\ free' = r.free
  BY DEF Maps
<1>3. /\ TablesOK(r.entry) /\ r.free \subseteq fr /\ fr \subseteq free
      /\ MapResult(entry[v], fr, k, frame, fl, r)
  BY <1>1, <1>2, MapTables
<1>4. entry' = [entry EXCEPT ![v] = r.entry]
  BY DEF Maps
<1>5. entry'[v] = r.entry /\ \A w \in Space : w # v => entry'[w] = entry[w]
  BY <1>1, <1>4
<1>6. \A w \in Space : TablesOK(entry'[w])
  <2>1. \A w \in Space : TablesOK(entry[w])
    BY DEF Types
  <2>2. ASSUME NEW w \in Space PROVE TablesOK(entry'[w])
    <3>1. CASE w = v
      BY <1>3, <1>5, <3>1
    <3>2. CASE w # v
      BY <1>5, <2>1, <3>2
    <3> QED
      BY <3>1, <3>2
  <2> QED
    BY <2>2
<1> QED
  BY <1>1, <1>2, <1>3, <1>4, <1>5, <1>6

\* The frames that vmem_map_page puts to use are free ones, each used once.
LEMMA MapFrames ==
    ASSUME Types, Exclusive, NEW v \in Space, NEW k \in Keys, NEW fr, NEW frame, NEW fl, NEW r,
           Maps(v, k, fr, frame, fl, r), UNCHANGED <<mem, root, kstack>>
    PROVE  Exclusive'
<1>1. /\ entry'[v] = r.entry /\ \A w \in Space : w # v => entry'[w] = entry[w]
      /\ free' \subseteq free /\ fr \subseteq free /\ free' \subseteq fr
      /\ MapResult(entry[v], fr, k, frame, fl, r)
  BY MapOthers
<1>2. Supply(fr, frame, k, fl) /\ free' = r.free
  BY DEF Maps
<1>3. free \subseteq mem
  BY DEF Types
<1> DEFINE Fresh(w, x, f) ==
             /\ w = v
             /\ \/ x \in New(entry[v], fr, k) /\ f = MadeFrame(entry[v], fr, k, x[1]) /\ f \in fr
                \/ x = k /\ f = frame /\ f \notin fr /\ f \in free
<1>4. ASSUME NEW f \in Frame, NEW w \in Space, NEW x, Refers(w, x, f)'
      PROVE  (Refers(w, x, f) \/ Fresh(w, x, f)) /\ f \notin free'
  <2>1. CASE Refers(w, x, f)
    <3>1. f \notin free
      BY <2>1 DEF Exclusive
    <3> QED
      BY <1>1, <2>1, <3>1
  <2>2. CASE ~ Refers(w, x, f)
    <3>1. x \in DOMAIN entry'[w] /\ entry'[w][x].frame = f
      BY <1>4, <2>2 DEF Refers
    <3>2. w = v
      BY <1>1, <2>2, <3>1 DEF Refers
    <3>3. x \in DOMAIN r.entry /\ r.entry[x].frame = f
      BY <1>1, <3>1, <3>2
    <3>4. CASE x \in New(entry[v], fr, k)
      <4>1. f = MadeFrame(entry[v], fr, k, x[1]) /\ f \in fr
        BY <1>1, <3>3, <3>4 DEF MapResult
      <4>2. f \notin r.free
        BY <1>1, <3>4, <4>1 DEF MapResult
      <4> QED
        BY <1>2, <3>2, <3>4, <4>1, <4>2
    <3>5. CASE x = k /\ r.res = "ok"
      <4>1. f = frame
        BY <1>1, <3>3, <3>5 DEF MapResult
      <4>2. f \notin fr /\ f \in free
        BY <1>2, <4>1, FreeFinite DEF Supply
      <4> QED
        BY <1>1, <3>2, <3>5, <4>1, <4>2
    <3>6. CASE x \in DOMAIN entry[v] /\ (x # k \/ r.res # "ok")
      <4>1. entry[v][x].frame = f
        BY <1>1, <3>3, <3>6 DEF MapResult
      <4> QED
        BY <2>2, <3>2, <3>6, <4>1 DEF Refers
    <3> QED
      BY <1>1, <3>3, <3>4, <3>5, <3>6 DEF MapResult
  <2> QED
    BY <2>1, <2>2
<1>5. ASSUME NEW f \in Frame, f \in free, NEW w \in Space, NEW u \in Space, NEW x, NEW y,
             Refers(w, x, f)', Refers(u, y, f)'
      PROVE  u = w /\ y = x
  <2>1. ~ Refers(w, x, f) /\ ~ Refers(u, y, f)
    BY <1>5 DEF Exclusive
  <2>2. Fresh(w, x, f) /\ Fresh(u, y, f)
    BY <1>4, <1>5, <2>1
  <2>3. CASE x \in New(entry[v], fr, k) /\ y \in New(entry[v], fr, k) /\ f \in fr
    <3>1. x[1] = x[1] /\ k \notin New(entry[v], fr, k)
      BY <1>1, PageOfKey DEF MapResult, Levels
    <3>2. MadeFrame(entry[v], fr, k, x[1]) = MadeFrame(entry[v], fr, k, y[1])
      BY <2>2, <2>3, <3>1
    <3>3. x = y
      BY <1>1, <2>3, <3>2 DEF MapResult
    <3> QED
      BY <2>2, <3>3
  <2>4. CASE x = k /\ y = k
    BY <2>2, <2>4
  <2> QED
    BY <2>2, <2>3, <2>4
<1>6. \A f \in Frame : \A w \in Space : \A x :
         Refers(w, x, f)' => f \notin free' /\ (Refers(w, x, f) \/ f \in free)
  BY <1>1, <1>4
<1>7. \A f \in Frame \cap free : \A w, u \in Space : \A x, y :
         Refers(w, x, f)' /\ Refers(u, y, f)' => u = w /\ y = x
  BY <1>5
<1> QED
  BY <1>3, <1>6, <1>7, Exchange

-----------------------------------------------------------------------------
(* Which pages are mapped. *)

\* The kernel's own pages and the user code are entries.
LEMMA FixedKeys ==
    /\ Kernel1gb \in Keys /\ Kernel2mb \in Keys /\ UserCode \in Keys
    /\ Kernel1gb[1] = 3 /\ Kernel2mb[1] = 2 /\ UserCode[1] = 1
<1>1. PICK F \in Nat \ {0, 1} : F = FANOUT
  BY VmemAssumption
<1>2. PICK G \in Nat \ {0} : G = F * F
  OBVIOUS
<1>3. PICK H \in Nat \ {0} : H = F * G /\ H = G * F
  OBVIOUS
<1>4. Span = <<1, F, G, H>>
  BY <1>1, <1>2, <1>3 DEF Span
<1>5. Span[1] = 1 /\ Span[2] = F /\ Span[3] = G /\ Span[4] = H
  BY <1>4
<1>6. H \div F = G
  <2>1. F * G <= H /\ H < F * G + F
    BY <1>3
  <2> QED
    BY <2>1, Quotients
<1>7. H \div G = F
  <2>1. G * F <= H /\ H < G * F + G
    BY <1>3
  <2> QED
    BY <2>1, Quotients
<1>8. Kernel2mb = <<2, G>> /\ Kernel1gb = <<3, F + 1>> /\ UserCode = <<1, 0>>
  BY <1>5, <1>6, <1>7 DEF Kernel2mb, Kernel1gb, UserCode, HIGHER_HALF
<1>9. G < 2 * G /\ F + 1 < 2 * F /\ 0 < 2 * H
  OBVIOUS
<1>10. <<2, G>> \in Keys
  BY <1>5, <1>9 DEF Keys, Levels
<1>11. <<3, F + 1>> \in Keys
  BY <1>5, <1>9 DEF Keys, Levels
<1>12. <<1, 0>> \in Keys
  BY <1>5, <1>9 DEF Keys, Levels
<1> QED
  BY <1>8, <1>10, <1>11, <1>12

\* The pages that user programs touch have entries.
LEMMA UserKeys == \A a \in UserPages : <<1, a>> \in Keys /\ <<1, a>>[1] = 1
<1> SUFFICES ASSUME NEW a \in UserPages PROVE <<1, a>> \in Keys
  OBVIOUS
<1>1. PICK H \in Nat \ {0} : H = Span[4]
  BY SpanDef DEF Levels
<1>2. a \in Nat /\ a < H
  BY <1>1, VmemAssumption DEF HIGHER_HALF
<1>3. a < 2 * Span[5 - 1]
  BY <1>1, <1>2
<1> QED
  BY <1>2, <1>3 DEF Keys, Levels

\* vmem_clone_pages continues with a page that is still to be cloned.
LEMMA NextLeafDef ==
    ASSUME Types, NEW v \in Space, job[v] \in Space, ToClone(v) # {}
    PROVE  /\ NextLeaf(v) \in ToClone(v)
           /\ NextLeaf(v) \in Keys /\ NextLeaf(v) \notin Leaves(entry[v])
           /\ NextLeaf(v) \in Leaves(entry[job[v]])
           /\ EntryOK(NextLeaf(v), entry[job[v]][NextLeaf(v)])
<1>1. \A k \in ToClone(v) :
         /\ k \in Keys /\ k \notin Leaves(entry[v]) /\ k \in Leaves(entry[job[v]])
         /\ EntryOK(k, entry[job[v]][k])
  BY DEF ToClone, Leaves, Types, TablesOK, EntryOK
<1> DEFINE T == {PageOf(k) : k \in ToClone(v)}
<1>2. T \in SUBSET Nat /\ T # {}
  BY <1>1, PageOfKey
<1>3. PICK n \in T : \A m \in T : n <= m
  BY <1>2, LeastNat
<1>4. PICK k \in ToClone(v) : n = PageOf(k)
  BY <1>3
<1>5. \E x \in ToClone(v) : \A o \in ToClone(v) : PageOf(x) <= PageOf(o)
  BY <1>3, <1>4
<1>6. NextLeaf(v) \in ToClone(v)
  BY <1>5, Zenon DEF NextLeaf
<1> QED
  BY <1>1, <1>6

\* A page is cloned with a call of vmem_map_page, on a free frame if the source's
\* was allocated on demand, or there is no frame left for it.
LEMMA ClonePage ==
    ASSUME Types, NEW v \in Space, job[v] \in Space, ToClone(v) # {}, NEW r, r = clone_page(v)
    PROVE  \/ r = [entry |-> entry[v], free |-> free, res |-> "ENOMEM"]
           \/ \E fr, frame, fl :
                 /\ Supply(fr, frame, NextLeaf(v), fl)
                 /\ r = map_page(entry[v], fr, NextLeaf(v), frame, fl)
                 /\ frame \in free \/ frame = entry[job[v]][NextLeaf(v)].frame
                 /\ vmem_unconvert_flags(entry[job[v]][NextLeaf(v)].flags) \subseteq fl
                 /\ NextLeaf(v)[1] = 1 /\ VMEM_ALLOC \in fl =>
                       PTE_ALLOC \in entry[job[v]][NextLeaf(v)].flags
<1>1. PICK k : k = NextLeaf(v)
  OBVIOUS
<1>2. PICK pte : pte = entry[job[v]][k]
  OBVIOUS
<1>3. k \in Keys /\ k \in Leaves(entry[job[v]]) /\ EntryOK(k, pte)
  BY <1>1, <1>2, NextLeafDef
<1>4. PICK fl : fl = vmem_unconvert_flags(pte.flags)
  OBVIOUS
<1>5. r = IF k[1] = 1 /\ PTE_ALLOC \in pte.flags
          THEN IF free = {}
               THEN [entry |-> entry[v], free |-> free, res |-> "ENOMEM"]
               ELSE map_page(entry[v], free \ {Nth(free, 1)}, k, Nth(free, 1),
                             fl \cup {VMEM_ALLOC})
          ELSE map_page(entry[v], free, k, pte.frame, fl)
  BY <1>1, <1>2, <1>4, Zenon DEF clone_page
<1>6. CASE k[1] = 1 /\ PTE_ALLOC \in pte.flags
  <2>1. CASE free = {}
    BY <1>5, <1>6, <2>1
  <2>2. CASE free # {}
    <3>1. Nth(free, 1) \in free
      BY <2>2, FreeFinite, NthFirst
    <3>2. Supply(free \ {Nth(free, 1)}, Nth(free, 1), k, fl \cup {VMEM_ALLOC})
      BY <1>6, <3>1 DEF Supply
    <3>3. r = map_page(entry[v], free \ {Nth(free, 1)}, k, Nth(free, 1), fl \cup {VMEM_ALLOC})
      BY <1>5, <1>6, <2>2
    <3>4. fl \subseteq fl \cup {VMEM_ALLOC}
      OBVIOUS
    <3> QED
      BY <1>1, <1>2, <1>4, <1>6, <3>1, <3>2, <3>3, <3>4
  <2> QED
    BY <2>1, <2>2
<1>7. CASE ~(k[1] = 1 /\ PTE_ALLOC \in pte.flags)
  <2>1. r = map_page(entry[v], free, k, pte.frame, fl)
    BY <1>5, <1>7
  <2>2. pte.frame \notin Frame
    <3>1. CASE k[1] = 1
      BY <1>3, <1>7, <3>1 DEF EntryOK
    <3>2. CASE k[1] # 1
      <4>1. PTE_PAGE_SIZE \in pte.flags
        BY <1>2, <1>3, <3>2 DEF Leaves, IsPage
      <4> QED
        BY <1>3, <4>1 DEF EntryOK
    <3> QED
      BY <3>1, <3>2
  <2>3. Supply(free, pte.frame, k, fl)
    BY <1>3, <2>2 DEF Supply, EntryOK
  <2>4. VMEM_ALLOC \in fl => PTE_ALLOC \in pte.flags
    BY <1>4 DEF vmem_unconvert_flags, VMEM_ALLOC, VMEM_USER, VMEM_WRITE
  <2> QED
    BY <1>1, <1>2, <1>4, <2>1, <2>3, <2>4
<1> QED
  BY <1>6, <1>7

-----------------------------------------------------------------------------
(* What the steps do to the page tables and the frames. *)

\* vmem_unmap_page tests VMEM_ALLOC in an entry made of PTE_ bits, where this bit
\* is PTE_USER: it frees the frames of pages that user programs can reach.
UserAreas == AreaCalls => \A ar \in AreaChoices : VMEM_USER \in ar.flags

UserFrames ==
    AreaCalls => \A v \in Space : \A k \in DOMAIN entry[v] :
                    k[1] = 1 /\ PTE_ALLOC \in entry[v][k].flags => PTE_USER \in entry[v][k].flags

\* A step that maps a page in space v.  Only the first page of setup_vmem could
\* replace one, and what fails is recorded.
MapStep(v) ==
    /\ UNCHANGED <<mem, root, kstack, cur>>
    /\ \E k \in Keys : \E fr, frame, fl, r :
          /\ Maps(v, k, fr, frame, fl, r)
          /\ k[1] = 3 /\ k \in Leaves(entry[v]) => setup = 1 /\ v = INIT
          /\ panic' = "no" /\ failed' = {} => r.res = "ok"
          /\ UserAreas /\ UserFrames /\ AreaCalls /\ k[1] = 1 /\ VMEM_ALLOC \in fl => VMEM_USER \in fl

LEMMA SetupMaps ==
    ASSUME Types, setup_vmem
    PROVE  MapStep(INIT)
<1>1. setup \in 1 .. 3 /\ UNCHANGED <<mem, root, kstack, cur>>
  BY DEF setup_vmem
<1>2. PICK page : page = SetupPages[setup]
  OBVIOUS
<1>3. PICK r : r = map_page(entry[INIT], free, page.key, STATIC, page.flags)
  OBVIOUS
<1>4. /\ entry' = [entry EXCEPT ![INIT] = r.entry] /\ free' = r.free
      /\ panic' = IF r.res = "ok" THEN panic ELSE "init task"
  BY <1>2, <1>3, Zenon DEF setup_vmem
<1>5. page.key \in Keys /\ (setup # 1 => page.key[1] # 3)
  BY <1>1, <1>2, FixedKeys DEF SetupPages
<1>6. Supply(free, STATIC, page.key, page.flags)
  BY DEF Supply
<1>7. Maps(INIT, page.key, free, STATIC, page.flags, r)
  BY <1>3, <1>4, <1>6 DEF Maps
<1>8. panic' = "no" => r.res = "ok"
  BY <1>4
<1>9. VMEM_ALLOC \notin page.flags
  BY <1>1, <1>2 DEF SetupPages, VMEM_ALLOC, VMEM_USER, VMEM_WRITE
<1> QED
  BY <1>1, <1>5, <1>7, <1>8, <1>9 DEF MapStep

\* A page that is cloned is one for user programs if its source is.
LEMMA CloneUser ==
    ASSUME Types, UserFrames, AreaCalls, NEW v \in Space, job[v] \in Space, ToClone(v) # {}, NEW fl,
           NextLeaf(v)[1] = 1, PTE_ALLOC \in entry[job[v]][NextLeaf(v)].flags,
           vmem_unconvert_flags(entry[job[v]][NextLeaf(v)].flags) \subseteq fl
    PROVE  VMEM_USER \in fl
<1>1. NextLeaf(v) \in DOMAIN entry[job[v]]
  BY NextLeafDef DEF Leaves
<1>2. PTE_USER \in entry[job[v]][NextLeaf(v)].flags
  BY <1>1 DEF UserFrames
<1>3. VMEM_USER \in vmem_unconvert_flags(entry[job[v]][NextLeaf(v)].flags)
  BY <1>2 DEF vmem_unconvert_flags
<1> QED
  BY <1>3

LEMMA CloneMaps ==
    ASSUME Types, NEW v \in Space, CloneStep(v)
    PROVE  MapStep(v)
<1>1. job[v] \in Space /\ ToClone(v) # {} /\ UNCHANGED <<mem, root, kstack, cur>>
  BY DEF CloneStep, Types
<1>2. PICK r : r = clone_page(v)
  OBVIOUS
<1>3. /\ entry' = [entry EXCEPT ![v] = r.entry] /\ free' = r.free /\ r.res # "ENOMEM"
      /\ panic' = IF r.res = "ok" THEN panic ELSE r.res
  BY <1>2, Zenon DEF CloneStep
<1>4. PICK fr, frame, fl :
         /\ Supply(fr, frame, NextLeaf(v), fl)
         /\ r = map_page(entry[v], fr, NextLeaf(v), frame, fl)
         /\ vmem_unconvert_flags(entry[job[v]][NextLeaf(v)].flags) \subseteq fl
         /\ NextLeaf(v)[1] = 1 /\ VMEM_ALLOC \in fl =>
               PTE_ALLOC \in entry[job[v]][NextLeaf(v)].flags
  BY <1>1, <1>2, <1>3, ClonePage
<1>5. NextLeaf(v) \in Keys /\ NextLeaf(v) \notin Leaves(entry[v])
  BY <1>1, NextLeafDef
<1>6. Maps(v, NextLeaf(v), fr, frame, fl, r)
  BY <1>3, <1>4 DEF Maps
<1>7. panic' = "no" => r.res = "ok"
  <2>1. MapResult(entry[v], fr, NextLeaf(v), frame, fl, r)
    BY <1>5, <1>6, MapOthers
  <2>2. r.res # "no"
    BY <2>1 DEF MapResult
  <2> QED
    BY <1>3, <2>2
<1>8. UserFrames /\ AreaCalls /\ NextLeaf(v)[1] = 1 /\ VMEM_ALLOC \in fl => VMEM_USER \in fl
  BY <1>1, <1>4, CloneUser
<1> QED
  BY <1>1, <1>5, <1>6, <1>7, <1>8 DEF MapStep

LEMMA SchedFailMaps ==
    ASSUME Types, SetupSchedFail
    PROVE  \/ MapStep(SCHED)
           \/ /\ UNCHANGED <<mem, root, kstack, cur, free>>
              /\ DOMAIN entry' = Space /\ \A w \in Space : entry'[w] = entry[w]
<1>0. SCHED \in Space
  BY VmemAssumption DEF Space, SCHED, INIT
<1>1. job[SCHED] \in Space /\ ToClone(SCHED) # {} /\ UNCHANGED <<mem, root, kstack, cur>>
  BY DEF SetupSchedFail, Types
<1>2. PICK r : r = clone_page(SCHED)
  OBVIOUS
<1>3. /\ entry' = [entry EXCEPT ![SCHED] = r.entry] /\ free' = r.free
      /\ failed' # {}
  BY <1>2, Zenon DEF SetupSchedFail
<1>4. CASE r = [entry |-> entry[SCHED], free |-> free, res |-> "ENOMEM"]
  <2>1. r.entry = entry[SCHED] /\ r.free = free /\ DOMAIN entry = Space
    BY <1>4 DEF Types
  <2>2. DOMAIN entry' = Space /\ \A w \in Space : entry'[w] = entry[w]
    BY <1>3, <2>1
  <2> QED
    BY <1>1, <1>3, <2>1, <2>2
<1>5. ASSUME NEW fr, NEW frame, NEW fl, Supply(fr, frame, NextLeaf(SCHED), fl),
             r = map_page(entry[SCHED], fr, NextLeaf(SCHED), frame, fl),
             vmem_unconvert_flags(entry[job[SCHED]][NextLeaf(SCHED)].flags) \subseteq fl,
             NextLeaf(SCHED)[1] = 1 /\ VMEM_ALLOC \in fl =>
               PTE_ALLOC \in entry[job[SCHED]][NextLeaf(SCHED)].flags
      PROVE  MapStep(SCHED)
  <2>1. NextLeaf(SCHED) \in Keys /\ NextLeaf(SCHED) \notin Leaves(entry[SCHED])
    BY <1>0, <1>1, NextLeafDef
  <2>2. Maps(SCHED, NextLeaf(SCHED), fr, frame, fl, r)
    BY <1>3, <1>5 DEF Maps
  <2>3. UserFrames /\ AreaCalls /\ NextLeaf(SCHED)[1] = 1 /\ VMEM_ALLOC \in fl => VMEM_USER \in fl
    BY <1>0, <1>1, <1>5, CloneUser
  <2> QED
    BY <1>1, <1>3, <2>1, <2>2, <2>3 DEF MapStep
<1> QED
  BY <1>0, <1>1, <1>2, <1>4, <1>5, ClonePage

LEMMA FaultMaps ==
    ASSUME Types, NEW a \in UserPages, vmem_handle_pf(a)
    PROVE  cur \in Space /\ MapStep(cur)
<1>1. cur \in Space /\ UNCHANGED <<mem, root, kstack, cur>>
  BY DEF vmem_handle_pf, Types
<1>2. PICK frame : frame = IF free = {} THEN BOGUS ELSE Nth(free, 1)
  OBVIOUS
<1>3. PICK ar \in vmem_is_mapped(cur, a) :
         LET r == map_page(entry[cur], free \ {frame}, <<1, a>>, frame, ar.flags \cup {VMEM_ALLOC})
         IN  /\ entry' = [entry EXCEPT ![cur] = r.entry] /\ free' = r.free
             /\ panic' = IF r.res = "ok" THEN panic ELSE r.res
  BY <1>2, Zenon DEF vmem_handle_pf
<1>4. PICK r : r = map_page(entry[cur], free \ {frame}, <<1, a>>, frame, ar.flags \cup {VMEM_ALLOC})
  OBVIOUS
<1>5. /\ entry' = [entry EXCEPT ![cur] = r.entry] /\ free' = r.free
      /\ panic' = IF r.res = "ok" THEN panic ELSE r.res
  BY <1>3, <1>4, Zenon
<1>6. <<1, a>> \in Keys /\ <<1, a>>[1] = 1
  BY UserKeys
<1>7. Supply(free \ {frame}, frame, <<1, a>>, ar.flags \cup {VMEM_ALLOC})
  <2>1. CASE free = {}
    BY <1>2, <2>1 DEF Supply
  <2>2. CASE free # {}
    <3>1. frame \in free
      BY <1>2, <2>2, FreeFinite, NthFirst
    <3> QED
      BY <1>6, <3>1 DEF Supply
  <2> QED
    BY <2>1, <2>2
<1>8. Maps(cur, <<1, a>>, free \ {frame}, frame, ar.flags \cup {VMEM_ALLOC}, r)
  BY <1>4, <1>5, <1>7 DEF Maps
<1>9. <<1, a>>[1] # 3
  BY <1>6
<1>10. panic' = "no" => r.res = "ok"
  <2>1. r.res # "no"
    <3>1. MapResult(entry[cur], free \ {frame}, <<1, a>>, frame, ar.flags \cup {VMEM_ALLOC}, r)
      BY <1>1, <1>6, <1>8, MapOthers
    <3> QED
      BY <3>1 DEF MapResult
  <2> QED
    BY <1>5, <2>1
<1>11. ar \in AreaChoices
  BY <1>1 DEF vmem_is_mapped, First, Types
<1>12. UserAreas /\ AreaCalls => VMEM_USER \in ar.flags \cup {VMEM_ALLOC}
  BY <1>11 DEF UserAreas
<1> QED
  BY <1>1, <1>6, <1>8, <1>9, <1>10, <1>12 DEF MapStep

\* vmem_init gives a space an empty table on a free frame.
LEMMA InitFrames ==
    ASSUME Types, Exclusive, NEW v \in Space, vmem_init(v), UNCHANGED <<mem, kstack>>
    PROVE  /\ Exclusive' /\ free' \subseteq free /\ root' \in [Space -> Frame \cup {STATIC, NONE}]
           /\ DOMAIN entry' = Space /\ (\A w \in Space : TablesOK(entry[w]))'
<1>1. PICK f : f = Nth(free, 1)
  OBVIOUS
<1>2. f \in free /\ f \in Frame
  BY <1>1, FreeFinite, NthFirst DEF vmem_init
<1>3. root' = [root EXCEPT ![v] = f] /\ free' = free \ {f} /\ entry' = [entry EXCEPT ![v] = <<>>]
  BY <1>1 DEF vmem_init
<1>4. /\ root \in [Space -> Frame \cup {STATIC, NONE}] /\ DOMAIN entry = Space
      /\ free \subseteq mem /\ \A w \in Space : TablesOK(entry[w])
  BY DEF Types
<1>5. /\ root'[v] = f /\ DOMAIN entry'[v] = {}
      /\ \A w \in Space : w # v => root'[w] = root[w] /\ entry'[w] = entry[w]
  BY <1>3, <1>4
<1>6. \A w \in Space : TablesOK(entry'[w])
  <2>1. TablesOK(entry'[v])
    BY <1>5 DEF TablesOK
  <2>2. \A w \in Space : w # v => TablesOK(entry'[w])
    BY <1>4, <1>5
  <2> QED
    BY <2>1, <2>2
<1>7. ASSUME NEW g \in Frame, NEW w \in Space, NEW x, Refers(w, x, g)'
      PROVE  (Refers(w, x, g) \/ (w = v /\ x = <<0, 0>> /\ g = f)) /\ g \notin free'
  <2>1. CASE Refers(w, x, g)
    <3>1. g \notin free
      BY <2>1 DEF Exclusive
    <3>2. g \notin free'
      BY <1>3, <3>1
    <3> QED
      BY <2>1, <3>2
  <2>2. CASE ~ Refers(w, x, g)
    <3>1. w = v /\ x = <<0, 0>> /\ g = f
      BY <1>5, <1>7, <2>2 DEF Refers
    <3> QED
      BY <1>3, <3>1
  <2> QED
    BY <2>1, <2>2
<1>8. \A g \in Frame : \A w \in Space : \A x :
         Refers(w, x, g)' => g \notin free' /\ (Refers(w, x, g) \/ g \in free)
  BY <1>2, <1>7
<1>9. \A g \in Frame \cap free : \A w, u \in Space : \A x, y :
         Refers(w, x, g)' /\ Refers(u, y, g)' => u = w /\ y = x
  BY <1>7 DEF Exclusive
<1>10. Exclusive'
  BY <1>4, <1>8, <1>9, Exchange
<1>11. root' \in [Space -> Frame \cup {STATIC, NONE}]
  BY <1>2, <1>3, <1>4
<1> QED
  BY <1>3, <1>4, <1>6, <1>10, <1>11

\* allocate_kstack gives a task a free frame.
LEMMA StackFrames ==
    ASSUME Types, Exclusive, NEW v \in Space, allocate_kstack(v), UNCHANGED <<mem, root, entry>>
    PROVE  Exclusive' /\ free' \subseteq free /\ kstack' \in [Space -> Frame \cup {NONE}]
<1>1. PICK f : f = Nth(free, 1)
  OBVIOUS
<1>2. f \in free /\ f \in Frame
  BY <1>1, FreeFinite, NthFirst DEF allocate_kstack
<1>3. kstack' = [kstack EXCEPT ![v] = f] /\ free' = free \ {f}
  BY <1>1 DEF allocate_kstack
<1>4. kstack \in [Space -> Frame \cup {NONE}] /\ free \subseteq mem
  BY DEF Types
<1>5. kstack'[v] = f /\ \A w \in Space : w # v => kstack'[w] = kstack[w]
  BY <1>3, <1>4
<1>6. ASSUME NEW g \in Frame, NEW w \in Space, NEW x, Refers(w, x, g)'
      PROVE  (Refers(w, x, g) \/ (w = v /\ x = <<0, 1>> /\ g = f)) /\ g \notin free'
  <2>1. CASE Refers(w, x, g)
    <3>1. g \notin free
      BY <2>1 DEF Exclusive
    <3>2. g \notin free'
      BY <1>3, <3>1
    <3> QED
      BY <2>1, <3>2
  <2>2. CASE ~ Refers(w, x, g)
    <3>1. w = v /\ x = <<0, 1>> /\ g = f
      BY <1>5, <1>6, <2>2 DEF Refers
    <3> QED
      BY <1>3, <3>1
  <2> QED
    BY <2>1, <2>2
<1>7. \A g \in Frame : \A w \in Space : \A x :
         Refers(w, x, g)' => g \notin free' /\ (Refers(w, x, g) \/ g \in free)
  BY <1>2, <1>6
<1>8. \A g \in Frame \cap free : \A w, u \in Space : \A x, y :
         Refers(w, x, g)' /\ Refers(u, y, g)' => u = w /\ y = x
  BY <1>6 DEF Exclusive
<1>9. Exclusive'
  BY <1>4, <1>7, <1>8, Exchange
<1>10. kstack' \in [Space -> Frame \cup {NONE}]
  BY <1>2, <1>3, <1>4
<1> QED
  BY <1>3, <1>9, <1>10

\* A step that only gives up references, and frees frames that are referred to no
\* longer.
LEMMA Release ==
    ASSUME Types, Exclusive, mem' = mem, NEW v \in Space, NEW given \in SUBSET Frame,
           free' \subseteq free \cup given,
           \A f \in Frame : \A w \in Space : \A x : Refers(w, x, f)' => Refers(w, x, f),
           \A f \in given : \E x : Refers(v, x, f) /\ ~ Refers(v, x, f)'
    PROVE  Exclusive' /\ free' \subseteq mem'
<1>1. ASSUME NEW f \in Frame, NEW w \in Space, NEW x, Refers(w, x, f)'
      PROVE  Refers(w, x, f) /\ f \notin free /\ f \notin free'
  <2>1. Refers(w, x, f)
    BY <1>1
  <2>2. f \notin free
    BY <2>1 DEF Exclusive
  <2>3. f \notin given
    <3> SUFFICES ASSUME f \in given PROVE FALSE
      OBVIOUS
    <3>1. PICK y : Refers(v, y, f) /\ ~ Refers(v, y, f)'
      OBVIOUS
    <3>2. v = w /\ y = x
      BY <2>1, <3>1 DEF Exclusive
    <3> QED
      BY <1>1, <3>1, <3>2
  <2> QED
    BY <2>1, <2>2, <2>3
<1>2. free \subseteq mem
  BY DEF Types
<1>3. given \subseteq mem
  BY DEF Exclusive
<1>4. \A f \in Frame : \A w \in Space : \A x :
         Refers(w, x, f)' => f \notin free' /\ (Refers(w, x, f) \/ f \in free)
  BY <1>1
<1>5. \A f \in Frame \cap free : \A w, u \in Space : \A x, y :
         Refers(w, x, f)' /\ Refers(u, y, f)' => u = w /\ y = x
  BY <1>1
<1>6. Exclusive'
  BY <1>2, <1>4, <1>5, Exchange
<1> QED
  BY <1>2, <1>3, <1>6

\* The frame of a level 1 entry that is one of the allocator's is marked, that of
\* an upper entry is a table's.
LEMMA OwnedFrames ==
    ASSUME Types, NEW v \in Space, NEW f \in Frame
    PROVE  f \in FramesOf(v) <=> \E x : Refers(v, x, f)
<1>1. TablesOK(entry[v])
  BY DEF Types
<1>2. \A k \in DOMAIN entry[v] : entry[v][k].frame = f =>
         entry[v][k].frame \in TableFrames(entry[v]) \cup AllocFrames(entry[v])
  <2> SUFFICES ASSUME NEW k \in DOMAIN entry[v], entry[v][k].frame = f
               PROVE  entry[v][k].frame \in TableFrames(entry[v]) \cup AllocFrames(entry[v])
    OBVIOUS
  <2>1. EntryOK(k, entry[v][k])
    BY <1>1 DEF TablesOK
  <2>2. CASE k[1] = 1
    BY <2>1, <2>2 DEF EntryOK, AllocFrames
  <2>3. CASE k[1] # 1
    BY <2>1, <2>3 DEF EntryOK, TableFrames, Leaves, IsPage
  <2> QED
    BY <2>2, <2>3
<1>3. \A g \in TableFrames(entry[v]) \cup AllocFrames(entry[v]) :
         \E k \in DOMAIN entry[v] : entry[v][k].frame = g
  BY DEF TableFrames, AllocFrames
<1>4. ASSUME f \in FramesOf(v) PROVE \E x : Refers(v, x, f)
  <2>1. CASE f = root[v]
    <3>1. Refers(v, <<0, 0>>, f)
      BY <2>1 DEF Refers
    <3> QED
      BY <3>1
  <2>2. CASE f = kstack[v]
    <3>1. Refers(v, <<0, 1>>, f)
      BY <2>2 DEF Refers
    <3> QED
      BY <3>1
  <2>3. CASE f \in TableFrames(entry[v]) \cup AllocFrames(entry[v])
    <3>1. PICK k \in DOMAIN entry[v] : entry[v][k].frame = f
      BY <1>3, <2>3
    <3>2. Refers(v, k, f)
      BY <3>1 DEF Refers
    <3> QED
      BY <3>2
  <2> QED
    BY <1>4, <2>1, <2>2, <2>3 DEF FramesOf
<1>5. ASSUME NEW x, Refers(v, x, f) PROVE f \in FramesOf(v)
  BY <1>2, <1>5 DEF Refers, FramesOf
<1> QED
  BY <1>4, <1>5

\* Nothing refers to a frame once its space is gone.
LEMMA Emptied ==
    ASSUME Types, NEW v \in Space,
           root' = [root EXCEPT ![v] = NONE], entry' = [entry EXCEPT ![v] = <<>>],
           kstack' = kstack \/ kstack' = [kstack EXCEPT ![v] = NONE]
    PROVE  /\ root' \in [Space -> Frame \cup {STATIC, NONE}] /\ root'[v] = NONE
           /\ kstack' \in [Space -> Frame \cup {NONE}] /\ kstack'[v] \in {NONE, kstack[v]}
           /\ DOMAIN entry' = Space /\ (\A w \in Space : TablesOK(entry[w]))'
           /\ DOMAIN entry'[v] = {}
           /\ \A w \in Space : w # v => /\ entry'[w] = entry[w] /\ root'[w] = root[w]
                                        /\ kstack'[w] = kstack[w]
           /\ \A f \in Frame : \A w \in Space : \A x : Refers(w, x, f)' => Refers(w, x, f)
           /\ \A f \in Frame : \A x : x # <<0, 1>> \/ kstack'[v] = NONE => ~ Refers(v, x, f)'
<1>1. /\ root \in [Space -> Frame \cup {STATIC, NONE}] /\ kstack \in [Space -> Frame \cup {NONE}]
      /\ DOMAIN entry = Space /\ \A w \in Space : TablesOK(entry[w])
  BY DEF Types
<1>2. /\ root'[v] = NONE /\ DOMAIN entry'[v] = {} /\ kstack'[v] \in {NONE, kstack[v]}
      /\ \A w \in Space : w # v => /\ entry'[w] = entry[w] /\ root'[w] = root[w]
                                   /\ kstack'[w] = kstack[w]
  BY <1>1
<1>3. \A w \in Space : TablesOK(entry'[w])
  <2>1. TablesOK(entry'[v])
    BY <1>2 DEF TablesOK
  <2>2. \A w \in Space : w # v => TablesOK(entry'[w])
    BY <1>1, <1>2
  <2> QED
    BY <2>1, <2>2
<1>4. NONE \notin Frame
  BY FreeFinite
<1>5. ASSUME NEW f \in Frame, NEW x, x # <<0, 1>> \/ kstack'[v] = NONE PROVE ~ Refers(v, x, f)'
  BY <1>2, <1>4, <1>5 DEF Refers
<1>6. ASSUME NEW f \in Frame, NEW w \in Space, NEW x, Refers(w, x, f)' PROVE Refers(w, x, f)
  <2>1. CASE w # v
    BY <1>2, <1>6, <2>1 DEF Refers
  <2>2. CASE w = v
    <3>1. x = <<0, 1>> /\ kstack'[v] = kstack[v] /\ kstack'[v] = f
      BY <1>2, <1>4, <1>6, <2>2 DEF Refers
    <3> QED
      BY <2>2, <3>1 DEF Refers
  <2> QED
    BY <2>1, <2>2
<1>7. root' \in [Space -> Frame \cup {STATIC, NONE}]
  BY <1>1
<1>8. kstack' \in [Space -> Frame \cup {NONE}]
  BY <1>1
<1>9. DOMAIN entry' = Space
  BY <1>1
<1> QED
  BY <1>2, <1>3, <1>5, <1>6, <1>7, <1>8, <1>9

\* vmem_destroy frees what nothing refers to any more.
LEMMA DestroyFrames ==
    ASSUME Types, Exclusive, NEW v \in Space, vmem_destroy(v)
    PROVE  Exclusive' /\ free' \subseteq mem'
<1>1. /\ root' = [root EXCEPT ![v] = NONE] /\ entry' = [entry EXCEPT ![v] = <<>>]
      /\ kstack' = [kstack EXCEPT ![v] = NONE] /\ mem' = mem
      /\ free' = free \cup (FramesOf(v) \cap Frame)
  BY DEF vmem_destroy
<1>2. PICK given : given = FramesOf(v) \cap Frame
  OBVIOUS
<1>3. kstack'[v] = NONE
  BY <1>1 DEF Types
<1>4. /\ \A f \in Frame : \A w \in Space : \A x : Refers(w, x, f)' => Refers(w, x, f)
      /\ \A f \in Frame : \A x : ~ Refers(v, x, f)'
  BY <1>1, <1>3, Emptied
<1>5. \A f \in given : \E x : Refers(v, x, f) /\ ~ Refers(v, x, f)'
  BY <1>2, <1>4, OwnedFrames
<1>6. given \in SUBSET Frame /\ free' \subseteq free \cup given
  BY <1>1, <1>2
<1> QED
  BY <1>1, <1>4, <1>5, <1>6, Release

\* A fork that fails gives up the child's tables and frees nothing.
LEMMA ForkFailFrames ==
    ASSUME Types, Exclusive, NEW v \in Space, ForkFail(v)
    PROVE  Exclusive' /\ free' \subseteq free
<1>1. /\ root' = [root EXCEPT ![v] = NONE] /\ entry' = [entry EXCEPT ![v] = <<>>]
      /\ kstack' = kstack /\ mem' = mem /\ job[v] \in Space
  BY DEF ForkFail, Types
<1>2. free' \subseteq free
  <2>1. CASE ToClone(v) = {} /\ free' = free
    BY <2>1
  <2>2. CASE ToClone(v) # {} /\ free' = clone_page(v).free
    <3>1. PICK r : r = clone_page(v)
      OBVIOUS
    <3>2. CASE r = [entry |-> entry[v], free |-> free, res |-> "ENOMEM"]
      BY <2>2, <3>1, <3>2
    <3>3. ASSUME NEW fr, NEW frame, NEW fl, Supply(fr, frame, NextLeaf(v), fl),
                 r = map_page(entry[v], fr, NextLeaf(v), frame, fl)
          PROVE  free' \subseteq free
      <4>1. NextLeaf(v) \in Keys /\ TablesOK(entry[v])
        BY <1>1, <2>2, NextLeafDef DEF Types
      <4>2. r.free \subseteq fr /\ fr \subseteq free
        BY <3>3, <4>1, MapTables
      <4> QED
        BY <2>2, <3>1, <4>2
    <3> QED
      BY <1>1, <2>2, <3>1, <3>2, <3>3, ClonePage
  <2> QED
    BY <2>1, <2>2 DEF ForkFail
<1>3. \A f \in Frame : \A w \in Space : \A x : Refers(w, x, f)' => Refers(w, x, f)
  BY <1>1, Emptied
<1>4. PICK given : given = {}
  OBVIOUS
<1>5. given \in SUBSET Frame /\ free' \subseteq free \cup given
  BY <1>2, <1>4
<1>6. \A f \in given : \E x : Refers(v, x, f) /\ ~ Refers(v, x, f)'
  BY <1>4
<1>7. Exclusive'
  BY <1>1, <1>3, <1>5, <1>6, Release
<1> QED
  BY <1>2, <1>7

\* vmem_free_pages removes entries of level 1 and frees their frames.
LEMMA FreePages ==
    ASSUME Types, NEW v \in Space, vmem_free_pages(v)
    PROVE  /\ UNCHANGED <<mem, root, kstack, cur>>
           /\ \/ \E ar \in AreaChoices :
                    /\ free' = free \cup (unmap_frees(v, ar) \cap Frame)
                    /\ DOMAIN entry' = Space
                    /\ \A w \in Space : w # v => entry'[w] = entry[w]
                    /\ DOMAIN entry'[v] = DOMAIN entry[v] \ Unmapped(v, ar)
                    /\ \A k \in DOMAIN entry'[v] : entry'[v][k] = entry[v][k]
              \/ UNCHANGED <<free, entry>> /\ panic' # "no"
<1>1. PICK ar \in AreaChoices :
          LET same == {n \in 1 .. Len(areas[v]) : /\ areas[v][n].start = ar.start
                                                 /\ areas[v][n].size = ar.size}
              given == unmap_frees(v, ar)
          IN  \/ \E n \in First(same) :
                    /\ areas' = [areas EXCEPT ![v] = RemoveAt(@, n)]
                    /\ entry' = [entry EXCEPT ![v] = Restrict(@, DOMAIN @ \ Unmapped(v, ar))]
                    /\ free' = free \cup (given \cap Frame)
                    /\ panic' = IF given \subseteq Frame THEN panic ELSE "frames_free"
              \/ same = {} /\ panic' = "mismatch" /\ UNCHANGED <<areas, entry, free>>
  BY DEF vmem_free_pages
<1>2. \/ /\ entry' = [entry EXCEPT ![v] = Restrict(entry[v], DOMAIN entry[v] \ Unmapped(v, ar))]
         /\ free' = free \cup (unmap_frees(v, ar) \cap Frame)
      \/ panic' = "mismatch" /\ UNCHANGED <<entry, free>>
  BY <1>1, Zenon
<1>3. UNCHANGED <<mem, root, kstack, cur>> /\ DOMAIN entry = Space
  BY DEF vmem_free_pages, Types
<1>4. CASE /\ entry' = [entry EXCEPT ![v] = Restrict(entry[v], DOMAIN entry[v] \ Unmapped(v, ar))]
           /\ free' = free \cup (unmap_frees(v, ar) \cap Frame)
  <2>1. PICK D : D = DOMAIN entry[v] \ Unmapped(v, ar)
    OBVIOUS
  <2>2. entry'[v] = [k \in D |-> entry[v][k]]
    BY <1>3, <1>4, <2>1 DEF Restrict
  <2>3. DOMAIN entry'[v] = D /\ \A k \in DOMAIN entry'[v] : entry'[v][k] = entry[v][k]
    BY <2>2
  <2>4. DOMAIN entry' = Space /\ \A w \in Space : w # v => entry'[w] = entry[w]
    BY <1>3, <1>4
  <2> QED
    BY <1>3, <1>4, <2>1, <2>3, <2>4
<1> QED
  BY <1>2, <1>3, <1>4

LEMMA FreePagesFrames ==
    ASSUME Types, Exclusive, NEW v \in Space, vmem_free_pages(v)
    PROVE  /\ Exclusive' /\ free' \subseteq mem'
           /\ DOMAIN entry' = Space /\ (\A w \in Space : TablesOK(entry[w]))'
<1>1. UNCHANGED <<mem, root, kstack, cur>>
  BY FreePages
<1>2. CASE UNCHANGED <<free, entry>>
  BY <1>1, <1>2 DEF Exclusive, Refers, Types
<1>3. ASSUME NEW ar \in AreaChoices,
             /\ free' = free \cup (unmap_frees(v, ar) \cap Frame)
             /\ DOMAIN entry' = Space
             /\ \A w \in Space : w # v => entry'[w] = entry[w]
             /\ DOMAIN entry'[v] = DOMAIN entry[v] \ Unmapped(v, ar)
             /\ \A k \in DOMAIN entry'[v] : entry'[v][k] = entry[v][k]
      PROVE  /\ Exclusive' /\ free' \subseteq mem'
             /\ DOMAIN entry' = Space /\ (\A w \in Space : TablesOK(entry[w]))'
  <2>1. \A f \in Frame : \A w \in Space : \A x : Refers(w, x, f)' => Refers(w, x, f)
    BY <1>1, <1>3 DEF Refers
  <2>2. PICK given : given = unmap_frees(v, ar) \cap Frame
    OBVIOUS
  <2>3. \A f \in given : \E x : Refers(v, x, f) /\ ~ Refers(v, x, f)'
    <3> SUFFICES ASSUME NEW f \in given PROVE \E x : Refers(v, x, f) /\ ~ Refers(v, x, f)'
      OBVIOUS
    <3>1. PICK k \in Unmapped(v, ar) : entry[v][k].frame = f
      BY <2>2 DEF unmap_frees
    <3>2. k \in DOMAIN entry[v] /\ k[1] = 1 /\ k \notin DOMAIN entry'[v]
      BY <1>3, <3>1 DEF Unmapped
    <3>3. Refers(v, k, f)
      BY <3>1, <3>2 DEF Refers
    <3>4. k # <<0, 0>> /\ k # <<0, 1>>
      BY <3>2
    <3>5. ~ Refers(v, k, f)'
      BY <3>2, <3>4 DEF Refers
    <3> QED
      BY <3>3, <3>5
  <2>4. given \in SUBSET Frame /\ free' \subseteq free \cup given
    BY <1>3, <2>2
  <2>5. Exclusive' /\ free' \subseteq mem'
    BY <1>1, <2>1, <2>3, <2>4, Release
  <2>6. \A w \in Space : TablesOK(entry'[w])
    <3>1. TablesOK(entry[v])
      BY DEF Types
    <3>2. TablesOK(entry'[v])
      BY <1>3, <3>1 DEF TablesOK
    <3>3. \A w \in Space : w # v => TablesOK(entry'[w])
      BY <1>3 DEF Types
    <3> QED
      BY <3>2, <3>3
  <2> QED
    BY <1>3, <2>5, <2>6
<1> QED
  BY <1>2, <1>3, FreePages

-----------------------------------------------------------------------------
(* The types, and that no frame is used twice. *)

\* The lists of areas that the steps make.
LEMMA AreaLists ==
    ASSUME NEW s \in Seq(AreaChoices)
    PROVE  /\ Reverse(s) \in Seq(AreaChoices) /\ <<>> \in Seq(AreaChoices)
           /\ \A ar \in AreaChoices : <<ar>> \o s \in Seq(AreaChoices)
           /\ \A n \in 1 .. Len(s) : RemoveAt(s, n) \in Seq(AreaChoices)
<1>1. Reverse(s) \in Seq(AreaChoices)
  BY DEF Reverse
<1>2. \A ar \in AreaChoices : <<ar>> \o s \in Seq(AreaChoices)
  OBVIOUS
<1>3. ASSUME NEW n \in 1 .. Len(s) PROVE RemoveAt(s, n) \in Seq(AreaChoices)
  <2>1. SubSeq(s, 1, n - 1) \in Seq(AreaChoices) /\ SubSeq(s, n + 1, Len(s)) \in Seq(AreaChoices)
    OBVIOUS
  <2> QED
    BY <2>1 DEF RemoveAt
<1> QED
  BY <1>1, <1>2, <1>3

LEMMA AreasStep ==
    ASSUME Types, [Next]_vars
    PROVE  areas' \in [Space -> Seq(AreaChoices)]
<1>0. areas \in [Space -> Seq(AreaChoices)] /\ INIT \in Space /\ cur \in Space
  BY VmemAssumption DEF Types, Space, INIT
<1>1. CASE UNCHANGED areas
  BY <1>0, <1>1
<1>2. ASSUME NEW v \in Space, NEW s \in Seq(AreaChoices), areas' = [areas EXCEPT ![v] = s]
      PROVE  areas' \in [Space -> Seq(AreaChoices)]
  BY <1>0, <1>2
<1>3. CASE SetupStack
  <2>1. PICK ar \in AreaChoices : areas' = [areas EXCEPT ![INIT] = <<ar>> \o areas[INIT]]
    BY <1>3 DEF SetupStack
  <2>2. <<ar>> \o areas[INIT] \in Seq(AreaChoices)
    BY <1>0, AreaLists
  <2> QED
    BY <1>0, <1>2, <2>1, <2>2
<1>4. ASSUME NEW v \in Space, vmem_clone(v) PROVE areas' \in [Space -> Seq(AreaChoices)]
  <2>1. areas' = [areas EXCEPT ![v] = Reverse(areas[cur])]
    BY <1>4 DEF vmem_clone
  <2>2. Reverse(areas[cur]) \in Seq(AreaChoices)
    BY <1>0, AreaLists
  <2> QED
    BY <1>2, <2>1, <2>2
<1>5. ASSUME NEW v \in Space, ForkFail(v) \/ vmem_destroy(v)
      PROVE  areas' \in [Space -> Seq(AreaChoices)]
  <2>1. areas' = [areas EXCEPT ![v] = <<>>]
    BY <1>5 DEF ForkFail, vmem_destroy
  <2>2. <<>> \in Seq(AreaChoices)
    BY <1>0, AreaLists
  <2> QED
    BY <1>2, <2>1, <2>2
<1>6. ASSUME NEW v \in Space, vmem_alloc_pages(v)
      PROVE  areas' \in [Space -> Seq(AreaChoices)]
  <2>1. areas' = areas \/ \E ar \in AreaChoices : areas' = [areas EXCEPT ![v] = <<ar>> \o areas[v]]
    BY <1>6 DEF vmem_alloc_pages
  <2>2. \A ar \in AreaChoices : <<ar>> \o areas[v] \in Seq(AreaChoices)
    BY <1>0, AreaLists
  <2> QED
    BY <1>0, <1>2, <2>1, <2>2
<1>7. ASSUME NEW v \in Space, vmem_free_pages(v)
      PROVE  areas' \in [Space -> Seq(AreaChoices)]
  <2>1. \/ areas' = areas
        \/ \E n \in 1 .. Len(areas[v]) : areas' = [areas EXCEPT ![v] = RemoveAt(areas[v], n)]
    BY <1>7 DEF vmem_free_pages, First
  <2>2. \A n \in 1 .. Len(areas[v]) : RemoveAt(areas[v], n) \in Seq(AreaChoices)
    BY <1>0, AreaLists
  <2> QED
    BY <1>0, <1>2, <2>1, <2>2
<1>8. CASE SetupInit \/ setup_vmem \/ SetupThread \/ SetupSched \/ SetupSchedFail
  BY <1>1, <1>8 DEF SetupInit, setup_vmem, SetupThread, SetupSched, SetupSchedFail
<1>9. ASSUME NEW v \in Space, CloneStep(v) \/ CloneDone(v) \/ vmem_switch_to(v)
      PROVE  areas' \in [Space -> Seq(AreaChoices)]
  BY <1>1, <1>9 DEF CloneStep, CloneDone, vmem_switch_to
<1>10. ASSUME NEW a \in UserPages, FaultOutside(a) \/ vmem_handle_pf(a)
       PROVE  areas' \in [Space -> Seq(AreaChoices)]
  BY <1>1, <1>10 DEF FaultOutside, vmem_handle_pf
<1>11. CASE UNCHANGED vars
  BY <1>1, <1>11 DEF vars
<1> QED
  BY <1>3, <1>4, <1>5, <1>6, <1>7, <1>8, <1>9, <1>10, <1>11 DEF Next, Boot

LEMMA CountersStep ==
    ASSUME Types, [Next]_vars
    PROVE  /\ cur' \in Space /\ setup' \in 0 .. 7 /\ job' \in [Space -> Space \cup {NONE}]
           /\ calls' \in 0 .. MaxCalls /\ failed' \subseteq Space /\ mem' = mem
<1>0. /\ cur \in Space /\ setup \in 0 .. 7 /\ job \in [Space -> Space \cup {NONE}]
      /\ calls \in 0 .. MaxCalls /\ failed \subseteq Space
      /\ BOOT \in Space /\ SCHED \in Space /\ INIT \in Space /\ MaxCalls \in Nat
  BY VmemAssumption DEF Types, Space, INIT, SCHED, BOOT
<1>1. CASE SetupInit
  <2>1. setup' \in {setup, 1}
    BY <1>1 DEF SetupInit
  <2>2. UNCHANGED <<cur, job, calls, failed, mem>>
    BY <1>1 DEF SetupInit
  <2> QED
    BY <1>0, <2>1, <2>2
<1>2. CASE setup_vmem
  <2>1. setup \in 1 .. 3 /\ setup' = setup + 1
    BY <1>2 DEF setup_vmem
  <2>2. UNCHANGED <<cur, job, calls, failed, mem>>
    BY <1>2 DEF setup_vmem
  <2> QED
    BY <1>0, <2>1, <2>2
<1>3. CASE SetupStack
  BY <1>0, <1>3 DEF SetupStack
<1>4. CASE SetupThread
  <2>1. setup' \in {setup, 6}
    BY <1>4 DEF SetupThread
  <2>2. UNCHANGED <<cur, job, calls, failed, mem>>
    BY <1>4 DEF SetupThread
  <2> QED
    BY <1>0, <2>1, <2>2
<1>5. CASE SetupSched
  BY <1>0, <1>5 DEF SetupSched
<1>6. CASE SetupSchedFail
  BY <1>0, <1>6 DEF SetupSchedFail
<1>7. ASSUME NEW v \in Space,
             \/ vmem_clone(v) \/ CloneStep(v) \/ CloneDone(v) \/ ForkFail(v)
             \/ vmem_switch_to(v) \/ vmem_destroy(v) \/ vmem_alloc_pages(v) \/ vmem_free_pages(v)
      PROVE  /\ cur' \in Space /\ setup' \in 0 .. 7 /\ job' \in [Space -> Space \cup {NONE}]
             /\ calls' \in 0 .. MaxCalls /\ failed' \subseteq Space /\ mem' = mem
  <2>1. CASE vmem_clone(v)
    BY <1>0, <2>1 DEF vmem_clone
  <2>2. CASE CloneStep(v)
    BY <1>0, <2>2 DEF CloneStep
  <2>3. CASE CloneDone(v)
    BY <1>0, <2>3 DEF CloneDone
  <2>4. CASE ForkFail(v)
    BY <1>0, <2>4 DEF ForkFail
  <2>5. CASE vmem_switch_to(v)
    BY <1>0, <2>5 DEF vmem_switch_to
  <2>6. CASE vmem_destroy(v)
    BY <1>0, <2>6 DEF vmem_destroy
  <2>7. CASE vmem_alloc_pages(v)
    BY <1>0, <2>7 DEF vmem_alloc_pages
  <2>8. CASE vmem_free_pages(v)
    BY <1>0, <2>8 DEF vmem_free_pages
  <2> QED
    BY <1>7, <2>1, <2>2, <2>3, <2>4, <2>5, <2>6, <2>7, <2>8
<1>8. ASSUME NEW a \in UserPages, FaultOutside(a) \/ vmem_handle_pf(a)
      PROVE  /\ cur' \in Space /\ setup' \in 0 .. 7 /\ job' \in [Space -> Space \cup {NONE}]
             /\ calls' \in 0 .. MaxCalls /\ failed' \subseteq Space /\ mem' = mem
  BY <1>0, <1>8 DEF FaultOutside, vmem_handle_pf
<1>9. CASE UNCHANGED vars
  BY <1>0, <1>9 DEF vars
<1> QED
  BY <1>1, <1>2, <1>3, <1>4, <1>5, <1>6, <1>7, <1>8, <1>9 DEF Next, Boot

\* Frames, pointers and tables keep their types, and no frame is used twice.
Owned ==
    /\ free \subseteq mem
    /\ root \in [Space -> Frame \cup {STATIC, NONE}]
    /\ kstack \in [Space -> Frame \cup {NONE}]
    /\ DOMAIN entry = Space /\ \A v \in Space : TablesOK(entry[v])
    /\ Exclusive

\* Steps that leave the frames alone.
LEMMA OwnedSame ==
    ASSUME Types, Exclusive, UNCHANGED <<mem, root, kstack, free>>,
           DOMAIN entry' = Space, \A w \in Space : entry'[w] = entry[w]
    PROVE  Owned'
<1>1. \A f, v, x : v \in Space => (Refers(v, x, f)' <=> Refers(v, x, f))
  BY DEF Refers
<1>2. Exclusive'
  BY <1>1 DEF Exclusive
<1>3. \A w \in Space : TablesOK(entry'[w])
  BY DEF Types
<1> QED
  BY <1>2, <1>3 DEF Types, Owned

LEMMA OwnedMap ==
    ASSUME Types, Exclusive, NEW v \in Space, MapStep(v)
    PROVE  Owned'
<1>1. PICK k \in Keys : \E fr, frame, fl, r : Maps(v, k, fr, frame, fl, r)
  BY DEF MapStep
<1>2. PICK fr, frame, fl, r : Maps(v, k, fr, frame, fl, r)
  BY <1>1
<1>3. UNCHANGED <<mem, root, kstack>>
  BY DEF MapStep
<1>4. Exclusive'
  BY <1>2, <1>3, MapFrames
<1>5. /\ free' \subseteq free /\ DOMAIN entry' = Space
      /\ (\A w \in Space : TablesOK(entry[w]))'
  BY <1>2, MapOthers
<1> QED
  BY <1>3, <1>4, <1>5 DEF Types, Owned

LEMMA OwnedStep ==
    ASSUME Types, Exclusive, [Next]_vars
    PROVE  Owned'
<1>0. /\ BOOT \in Space /\ SCHED \in Space /\ INIT \in Space
      /\ free \subseteq mem /\ root \in [Space -> Frame \cup {STATIC, NONE}]
      /\ kstack \in [Space -> Frame \cup {NONE}] /\ DOMAIN entry = Space
  BY VmemAssumption DEF Types, Space, INIT, SCHED, BOOT
<1>1. CASE UNCHANGED <<mem, root, kstack, free, entry>>
  BY <1>0, <1>1, OwnedSame
<1>2. ASSUME NEW v \in Space, vmem_init(v), UNCHANGED <<mem, kstack>> PROVE Owned'
  <2>1. /\ Exclusive' /\ free' \subseteq free /\ root' \in [Space -> Frame \cup {STATIC, NONE}]
        /\ DOMAIN entry' = Space /\ (\A w \in Space : TablesOK(entry[w]))'
    BY <1>2, InitFrames
  <2> QED
    BY <1>0, <1>2, <2>1 DEF Owned
<1>3. ASSUME NEW v \in Space, allocate_kstack(v), UNCHANGED <<mem, root, entry>> PROVE Owned'
  <2>1. Exclusive' /\ free' \subseteq free /\ kstack' \in [Space -> Frame \cup {NONE}]
    BY <1>3, StackFrames
  <2>2. (\A w \in Space : TablesOK(entry[w]))'
    BY <1>3 DEF Types
  <2> QED
    BY <1>0, <1>3, <2>1, <2>2 DEF Owned
<1>4. CASE SetupInit
  <2>1. UNCHANGED <<mem, kstack>> /\ (vmem_init(INIT) \/ UNCHANGED <<free, root, entry>>)
    BY <1>4 DEF SetupInit
  <2> QED
    BY <1>0, <1>1, <1>2, <2>1
<1>5. CASE setup_vmem
  BY <1>0, <1>5, SetupMaps, OwnedMap
<1>6. CASE SetupThread
  <2>1. UNCHANGED <<mem, root, entry>> /\ (allocate_kstack(INIT) \/ UNCHANGED <<free, kstack>>)
    BY <1>6 DEF SetupThread
  <2> QED
    BY <1>0, <1>1, <1>3, <2>1
<1>7. CASE SetupSched
  <2>1. UNCHANGED <<mem, kstack>> /\ (vmem_init(SCHED) \/ UNCHANGED <<free, root, entry>>)
    BY <1>7 DEF SetupSched
  <2> QED
    BY <1>0, <1>1, <1>2, <2>1
<1>8. CASE SetupSchedFail
  BY <1>0, <1>8, SchedFailMaps, OwnedMap, OwnedSame
<1>9. ASSUME NEW v \in Space, vmem_clone(v) PROVE Owned'
  <2>1. UNCHANGED <<mem, kstack>> /\ vmem_init(v)
    BY <1>9 DEF vmem_clone
  <2> QED
    BY <1>2, <2>1
<1>10. ASSUME NEW v \in Space, CloneStep(v) PROVE Owned'
  BY <1>10, CloneMaps, OwnedMap
<1>11. ASSUME NEW v \in Space, CloneDone(v) PROVE Owned'
  <2>1. UNCHANGED <<mem, root, entry>> /\ (allocate_kstack(v) \/ UNCHANGED <<free, kstack>>)
    BY <1>11 DEF CloneDone
  <2> QED
    BY <1>1, <1>3, <2>1
<1>12. ASSUME NEW v \in Space, ForkFail(v) PROVE Owned'
  <2>1. Exclusive' /\ free' \subseteq free
    BY <1>12, ForkFailFrames
  <2>2. /\ root' = [root EXCEPT ![v] = NONE] /\ entry' = [entry EXCEPT ![v] = <<>>]
        /\ kstack' = kstack /\ mem' = mem
    BY <1>12 DEF ForkFail
  <2>3. /\ root' \in [Space -> Frame \cup {STATIC, NONE}] /\ kstack' \in [Space -> Frame \cup {NONE}]
        /\ DOMAIN entry' = Space /\ (\A w \in Space : TablesOK(entry[w]))'
    BY <2>2, Emptied
  <2> QED
    BY <1>0, <2>1, <2>2, <2>3 DEF Owned
<1>13. ASSUME NEW v \in Space, vmem_destroy(v) PROVE Owned'
  <2>1. Exclusive' /\ free' \subseteq mem'
    BY <1>13, DestroyFrames
  <2>2. /\ root' = [root EXCEPT ![v] = NONE] /\ entry' = [entry EXCEPT ![v] = <<>>]
        /\ kstack' = [kstack EXCEPT ![v] = NONE]
    BY <1>13 DEF vmem_destroy
  <2>3. /\ root' \in [Space -> Frame \cup {STATIC, NONE}] /\ kstack' \in [Space -> Frame \cup {NONE}]
        /\ DOMAIN entry' = Space /\ (\A w \in Space : TablesOK(entry[w]))'
    BY <2>2, Emptied
  <2> QED
    BY <2>1, <2>3 DEF Owned
<1>14. ASSUME NEW v \in Space, vmem_free_pages(v) PROVE Owned'
  <2>1. /\ Exclusive' /\ free' \subseteq mem'
        /\ DOMAIN entry' = Space /\ (\A w \in Space : TablesOK(entry[w]))'
    BY <1>14, FreePagesFrames
  <2>2. UNCHANGED <<root, kstack>>
    BY <1>14, FreePages
  <2> QED
    BY <1>0, <2>1, <2>2 DEF Owned
<1>15. ASSUME NEW a \in UserPages, vmem_handle_pf(a) PROVE Owned'
  BY <1>15, FaultMaps, OwnedMap
<1>16. CASE SetupStack
  BY <1>1, <1>16 DEF SetupStack
<1>17. ASSUME NEW v \in Space, vmem_switch_to(v) \/ vmem_alloc_pages(v) PROVE Owned'
  BY <1>1, <1>17 DEF vmem_switch_to, vmem_alloc_pages
<1>18. ASSUME NEW a \in UserPages, FaultOutside(a) PROVE Owned'
  BY <1>1, <1>18 DEF FaultOutside
<1>19. CASE UNCHANGED vars
  BY <1>1, <1>19 DEF vars
<1> QED
  BY <1>4, <1>5, <1>6, <1>7, <1>8, <1>9, <1>10, <1>11, <1>12, <1>13, <1>14, <1>15, <1>16,
     <1>17, <1>18, <1>19 DEF Next, Boot

\* The page tables of boot.asm are well formed.
LEMMA BootTables == TablesOK(BootEntries) /\ {Kernel1gb, Kernel2mb} \subseteq Leaves(BootEntries)
<1>1. \A k \in {EarlyLow, <<4, 1>>, At(PageOf(Kernel2mb), 3), Kernel1gb, Kernel2mb} : k \in Keys
  <2>1. EarlyLow \in Keys /\ <<4, 1>> \in Keys
    <3>1. Span[1] = 1
      BY DEF Span
    <3> QED
      BY <3>1 DEF EarlyLow, Keys, Levels
  <2>2. At(PageOf(Kernel2mb), 3) \in Keys
    BY FixedKeys, PageOfKey, AtKey DEF Levels
  <2> QED
    BY <2>1, <2>2, FixedKeys
<1>2. FrameCount \in Nat
  BY VmemAssumption
<1>3. STATIC \notin Frame
  BY <1>2 DEF Frame, STATIC
<1>4. \A k \in DOMAIN BootEntries :
         /\ k \in Keys /\ BootEntries[k].frame = STATIC /\ PTE_PRESENT \in BootEntries[k].flags
         /\ k \in {Kernel1gb, Kernel2mb} => PTE_PAGE_SIZE \in BootEntries[k].flags
  BY <1>1 DEF BootEntries
<1>5. {Kernel1gb, Kernel2mb} \subseteq DOMAIN BootEntries
  BY DEF BootEntries
<1> QED
  BY <1>3, <1>4, <1>5 DEF TablesOK, EntryOK, Leaves, IsPage

LEMMA InitOwned == Init => Types /\ Exclusive
<1> SUFFICES ASSUME Init PROVE Types /\ Exclusive
  OBVIOUS
<1>0. /\ FrameCount \in Nat /\ FreeAtBoot \subseteq 0 .. FrameCount /\ MaxCalls \in Nat
      /\ BOOT \in Space /\ INIT \in Space
  BY VmemAssumption DEF Space, INIT, BOOT
<1>1. PICK n \in FreeAtBoot : mem = 1 .. n
  BY DEF Init
<1>2. mem \subseteq Frame /\ free \subseteq mem
  <2>1. n \in 0 .. FrameCount
    BY <1>0
  <2> QED
    BY <1>0, <1>1, <2>1 DEF Init, Frame
<1>3. /\ root \in [Space -> Frame \cup {STATIC, NONE}] /\ \A v \in Space : root[v] \in {STATIC, NONE}
      /\ kstack \in [Space -> Frame \cup {NONE}] /\ \A v \in Space : kstack[v] = NONE
  BY DEF Init
<1>4. DOMAIN entry = Space /\ \A v \in Space : entry[v] = BootEntries \/ DOMAIN entry[v] = {}
  BY DEF Init
<1>5. \A v \in Space : TablesOK(entry[v])
  BY <1>4, BootTables DEF TablesOK
<1>6. areas \in [Space -> Seq(AreaChoices)]
  BY DEF Init
<1>7. /\ cur \in Space /\ setup \in 0 .. 7 /\ job \in [Space -> Space \cup {NONE}]
      /\ calls \in 0 .. MaxCalls /\ failed \subseteq Space
  BY <1>0 DEF Init
<1>8. Types
  BY <1>2, <1>3, <1>4, <1>5, <1>6, <1>7 DEF Types
<1>9. \A k \in DOMAIN BootEntries : BootEntries[k].frame = STATIC
  BY DEF BootEntries
<1>10. \A f \in Frame : \A v \in Space : \A x : ~ Refers(v, x, f)
  BY <1>3, <1>4, <1>8, <1>9, FreeFinite DEF Refers
<1> QED
  BY <1>8, <1>10 DEF Exclusive

LEMMA OwnedNext ==
    ASSUME Types, Exclusive, [Next]_vars
    PROVE  Types' /\ Exclusive'
<1>1. Owned'
  BY OwnedStep
<1>2. /\ cur' \in Space /\ setup' \in 0 .. 7 /\ job' \in [Space -> Space \cup {NONE}]
      /\ calls' \in 0 .. MaxCalls /\ failed' \subseteq Space /\ mem' = mem
  BY CountersStep
<1>3. areas' \in [Space -> Seq(AreaChoices)]
  BY AreasStep
<1>4. mem' \subseteq Frame
  BY <1>2 DEF Types
<1> QED
  BY <1>1, <1>2, <1>3, <1>4 DEF Owned, Types

LEMMA OwnedInvariant == Spec => [](Types /\ Exclusive)
<1>1. Types /\ Exclusive /\ [Next]_vars => (Types /\ Exclusive)'
  BY OwnedNext
<1> QED
  BY <1>1, InitOwned, PTL DEF Spec

\* Every reachable state is well typed: there is no way to write an entry that its
\* level does not have, to clear PTE_PRESENT, or to free a frame that the
\* allocator was not given, whatever is mapped, cloned, unmapped and destroyed.
THEOREM VmemTypes == Spec => []TypeOK
<1>1. Types => TypeOK
  <2> SUFFICES ASSUME Types PROVE TypeOK
    OBVIOUS
  <2>1. ASSUME NEW v \in Space, NEW k \in DOMAIN entry[v]
        PROVE  /\ k[1] \in Levels /\ k[2] \in 0 .. 2 * Span[5 - k[1]] - 1
               /\ entry[v][k].frame \in Frame \cup {STATIC, BOGUS}
               /\ PTE_PRESENT \in entry[v][k].flags
    <3>1. EntryOK(k, entry[v][k])
      BY DEF Types, TablesOK
    <3>2. k[1] \in Levels /\ k[2] \in Nat /\ k[2] < 2 * Span[5 - k[1]]
      BY <3>1 DEF EntryOK, Keys
    <3>3. PICK n \in Nat : n = Span[5 - k[1]]
      BY <3>2, SpanDef
    <3>4. k[2] \in 0 .. 2 * n - 1
      BY <3>2, <3>3
    <3> QED
      BY <3>1, <3>2, <3>3, <3>4 DEF EntryOK
  <2> QED
    BY <2>1 DEF Types, TypeOK
<1> QED
  BY <1>1, OwnedInvariant, PTL

\* What ExclusiveFrames counts are the places that refer to the frame.
LEMMA RefsRefer ==
    ASSUME Types, NEW f \in Frame
    PROVE  Refs(f) = {p \in Space \X UNION {{<<0, 0>>, <<0, 1>>} \cup DOMAIN entry[v] : v \in Space} :
                        Refers(p[1], p[2], f)}
<1> DEFINE X == UNION {{<<0, 0>>, <<0, 1>>} \cup DOMAIN entry[v] : v \in Space}
           P == {p \in Space \X X : Refers(p[1], p[2], f)}
<1>1. \A v \in Space : <<0, 0>> \in X /\ <<0, 1>> \in X /\ DOMAIN entry[v] \subseteq X
  OBVIOUS
<1>2. ASSUME NEW v \in Space, NEW x PROVE <<v, x>> \in P <=> Refers(v, x, f)
  <2>1. Refers(v, x, f) => x \in X
    BY <1>1 DEF Refers
  <2> HIDE DEF X
  <2> QED
    BY <2>1
<1>3. ASSUME NEW v \in Space, NEW x
      PROVE  <<v, x>> \in Refs(f) <=> Refers(v, x, f)
  <2>1. ASSUME x \in DOMAIN entry[v], entry[v][x].frame = f
        PROVE  ~ IsPage(entry[v], x) \/ PTE_ALLOC \in entry[v][x].flags
    <3>1. EntryOK(x, entry[v][x])
      BY <2>1 DEF Types, TablesOK
    <3> QED
      BY <2>1, <3>1 DEF EntryOK, IsPage
  <2> QED
    BY <2>1 DEF Refs, Refers
<1>4. \A p \in Refs(f) : \E v \in Space : \E x : p = <<v, x>>
  BY DEF Refs
<1>5. \A p \in P : \E v \in Space : \E x : p = <<v, x>>
  <2> HIDE DEF X
  <2> QED
    OBVIOUS
<1> HIDE DEF P
<1>6. \A p : p \in Refs(f) <=> p \in P
  BY <1>2, <1>3, <1>4, <1>5
<1>7. Refs(f) = P
  BY <1>6
<1> QED
  BY <1>7 DEF P

\* A frame is one page table, one kernel stack, one page of one address space that
\* was allocated on demand, or free, in every reachable state: clones share no
\* memory that their tasks were given, and neither vmem_destroy nor
\* vmem_free_pages frees what is still mapped.
THEOREM VmemExclusive == Spec => []ExclusiveFrames
<1>1. Types /\ Exclusive => ExclusiveFrames
  <2> SUFFICES ASSUME Types, Exclusive, NEW f \in Frame
               PROVE  Cardinality(Refs(f)) <= IF f \in free THEN 0 ELSE 1
    BY DEF ExclusiveFrames
  <2>1. ASSUME NEW p \in Refs(f), NEW q \in Refs(f) PROVE f \notin free /\ p = q
    <3>1. PICK v \in Space, x \in UNION {{<<0, 0>>, <<0, 1>>} \cup DOMAIN entry[u] : u \in Space} :
             p = <<v, x>> /\ Refers(v, x, f)
      BY RefsRefer
    <3>2. PICK w \in Space, y \in UNION {{<<0, 0>>, <<0, 1>>} \cup DOMAIN entry[u] : u \in Space} :
             q = <<w, y>> /\ Refers(w, y, f)
      BY RefsRefer
    <3> QED
      BY <3>1, <3>2 DEF Exclusive
  <2>2. CASE Refs(f) = {}
    BY <2>2, FS_EmptySet
  <2>3. CASE Refs(f) # {}
    <3>1. PICK p \in Refs(f) : TRUE
      BY <2>3
    <3>2. Refs(f) = {p} /\ f \notin free
      BY <2>1
    <3>3. Cardinality(Refs(f)) = 1
      BY <3>2, FS_Singleton
    <3> QED
      BY <3>2, <3>3
  <2> QED
    BY <2>2, <2>3
<1> QED
  BY <1>1, OwnedInvariant, PTL

-----------------------------------------------------------------------------
(* The life of an address space. *)

\* A space that does not exist has no entries and its task no stack; the steps of
\* setup_init_task and sched_start come in order; only forks are under way after
\* them; and CR3 holds a space that is complete.
Life ==
    /\ \A v \in Space : root[v] = NONE => DOMAIN entry[v] = {}
    /\ \A v \in Space : root[v] = NONE \/ job[v] # NONE => kstack[v] = NONE
    /\ \A v \in Space : job[v] # NONE => root[v] # NONE
    /\ setup = 0 => root[INIT] = NONE
    /\ setup \in 1 .. 6 => root[INIT] # NONE
    /\ setup = 1 => DOMAIN entry[INIT] = {}
    /\ setup \in 0 .. 5 => kstack[INIT] = NONE
    /\ setup \in 0 .. 6 =>
          /\ cur = BOOT /\ \A v \in Space : v # SCHED => job[v] = NONE
          /\ job[SCHED] = NONE => root[SCHED] = NONE
    /\ setup \in 0 .. 5 => job[SCHED] = NONE
    /\ cur >= INIT => root[cur] # NONE /\ job[cur] = NONE

\* The spaces of the scheduler and of boot are not those of tasks.
LEMMA Numbers ==
    /\ BOOT \in Space /\ SCHED \in Space /\ INIT \in Space /\ Space \subseteq Nat
    /\ BOOT # SCHED /\ BOOT # INIT /\ SCHED # INIT /\ ~ (BOOT >= INIT) /\ ~ (SCHED >= INIT)
    /\ INIT >= INIT /\ NONE \notin Space
  BY VmemAssumption DEF Space, INIT, SCHED, BOOT, NONE

LEMMA LifeInit == Init => Life
<1> SUFFICES ASSUME Init PROVE Life
  OBVIOUS
<1>1. /\ \A v \in Space : root[v] = IF v = BOOT THEN STATIC ELSE NONE
      /\ \A v \in Space : kstack[v] = NONE /\ job[v] = NONE
      /\ \A v \in Space : v # BOOT => DOMAIN entry[v] = {}
      /\ setup = 0 /\ cur = BOOT /\ STATIC # NONE
  BY DEF Init, STATIC, NONE
<1> QED
  BY <1>1, Numbers DEF Life

\* Mapping pages in a space that exists.
LEMMA LifeMap ==
    ASSUME Types, Life, NEW v \in Space, MapStep(v), root[v] # NONE,
           setup' = 1 => v # INIT, UNCHANGED job,
           setup' = setup \/ (setup \in 1 .. 3 /\ setup' = setup + 1)
    PROVE  Life'
<1>1. UNCHANGED <<root, kstack, cur, job>> /\ \A w \in Space : w # v => entry'[w] = entry[w]
  BY MapOthers DEF MapStep
<1>2. \A w \in Space : root'[w] = NONE => DOMAIN entry'[w] = {}
  BY <1>1 DEF Life
<1>3. setup' = 1 => DOMAIN entry'[INIT] = {}
  <2> SUFFICES ASSUME setup' = 1 PROVE DOMAIN entry'[INIT] = {}
    OBVIOUS
  <2>1. setup = 1 /\ v # INIT
    BY DEF Types
  <2> QED
    BY <1>1, <2>1, Numbers DEF Life
<1>4. setup \in 0 .. 7
  BY DEF Types
<1>5. CASE setup' = setup
  BY <1>1, <1>2, <1>3, <1>5 DEF Life
<1>6. CASE setup \in 1 .. 3 /\ setup' = setup + 1
  <2>1. setup' \in 2 .. 4 /\ setup \in 1 .. 3
    BY <1>6
  <2>2. /\ setup' # 0 /\ setup' \in 1 .. 6 /\ setup' # 1 /\ setup' \in 0 .. 5 /\ setup' \in 0 .. 6
        /\ setup \in 1 .. 6 /\ setup \in 0 .. 5 /\ setup \in 0 .. 6
    BY <2>1
  <2> QED
    BY <1>1, <1>2, <2>2 DEF Life
<1> QED
  BY <1>5, <1>6

\* Where vmem_init and allocate_kstack are called, they overwrite nothing.
LEMMA LifeStep ==
    ASSUME Types, Life, [Next]_vars
    PROVE  Life'
<1>0. /\ setup \in 0 .. 7 /\ cur \in Space /\ DOMAIN entry = Space
      /\ root \in [Space -> Frame \cup {STATIC, NONE}] /\ kstack \in [Space -> Frame \cup {NONE}]
      /\ job \in [Space -> Space \cup {NONE}] /\ NONE \notin Frame
  BY FreeFinite DEF Types
<1>1. ASSUME NEW v \in Space, vmem_init(v)
      PROVE  /\ root'[v] # NONE /\ DOMAIN entry'[v] = {}
             /\ \A w \in Space : w # v => root'[w] = root[w] /\ entry'[w] = entry[w]
  <2>1. Nth(free, 1) \in Frame
    BY <1>1, FreeFinite, NthFirst DEF vmem_init
  <2>2. root' = [root EXCEPT ![v] = Nth(free, 1)] /\ entry' = [entry EXCEPT ![v] = <<>>]
    BY <1>1 DEF vmem_init
  <2> QED
    BY <1>0, <2>1, <2>2
<1>2. ASSUME NEW v \in Space, allocate_kstack(v)
      PROVE  \A w \in Space : w # v => kstack'[w] = kstack[w]
  BY <1>0, <1>2 DEF allocate_kstack
<1>3. CASE SetupInit
  <2>1. UNCHANGED <<kstack, job, cur>> /\ setup = 0
    BY <1>3 DEF SetupInit
  <2>2. CASE vmem_init(INIT) /\ setup' = 1
    <3>1. setup' = 1 /\ setup = 0 /\ setup' \in 1 .. 6 /\ setup' \in 0 .. 5 /\ setup' \in 0 .. 6
          /\ setup \in 0 .. 5 /\ setup \in 0 .. 6
      BY <2>1, <2>2
    <3>2. /\ root'[INIT] # NONE /\ DOMAIN entry'[INIT] = {}
          /\ \A w \in Space : w # INIT => root'[w] = root[w] /\ entry'[w] = entry[w]
      BY <1>1, <2>2, Numbers
    <3> QED
      BY <2>1, <3>1, <3>2, Numbers DEF Life
  <2>3. CASE UNCHANGED <<root, entry, setup>>
    BY <2>1, <2>3 DEF Life
  <2> QED
    BY <1>3, <2>2, <2>3 DEF SetupInit
<1>4. CASE setup_vmem
  <2>1. setup \in 1 .. 3 /\ setup' = setup + 1 /\ UNCHANGED job
    BY <1>4 DEF setup_vmem
  <2>2. root[INIT] # NONE /\ setup' # 1
    BY <2>1 DEF Life
  <2> QED
    BY <1>4, <2>1, <2>2, SetupMaps, LifeMap, Numbers
<1>5. CASE SetupStack
  <2>1. UNCHANGED <<root, kstack, entry, job, cur>> /\ setup = 4 /\ setup' = 5
    BY <1>5 DEF SetupStack
  <2> QED
    BY <2>1 DEF Life
<1>6. CASE SetupThread
  <2>1. UNCHANGED <<root, entry, job, cur>> /\ setup = 5
    BY <1>6 DEF SetupThread
  <2>2. CASE allocate_kstack(INIT) /\ setup' = 6
    <3>1. \A w \in Space : w # INIT => kstack'[w] = kstack[w]
      BY <1>2, <2>2, Numbers
    <3>2. root[INIT] # NONE /\ job[INIT] = NONE
      BY <2>1, Numbers DEF Life
    <3>3. \A v \in Space : root[v] = NONE \/ job[v] # NONE => kstack'[v] = NONE
      BY <3>1, <3>2 DEF Life
    <3> QED
      BY <2>1, <2>2, <3>3 DEF Life
  <2>3. CASE UNCHANGED <<kstack, setup>>
    BY <2>1, <2>3 DEF Life
  <2> QED
    BY <1>6, <2>2, <2>3 DEF SetupThread
<1>7. CASE SetupSched
  <2>1. UNCHANGED <<kstack, cur>> /\ setup = 6 /\ job[SCHED] = NONE
    BY <1>7 DEF SetupSched
  <2>2. CASE vmem_init(SCHED) /\ job' = [job EXCEPT ![SCHED] = BOOT] /\ setup' = setup
    <3>1. /\ root'[SCHED] # NONE /\ DOMAIN entry'[SCHED] = {}
          /\ \A w \in Space : w # SCHED => root'[w] = root[w] /\ entry'[w] = entry[w]
      BY <1>1, <2>2, Numbers
    <3>2. job'[SCHED] # NONE /\ \A w \in Space : w # SCHED => job'[w] = job[w]
      BY <1>0, <2>2, Numbers
    <3>3. root[SCHED] = NONE /\ cur = BOOT
      BY <2>1 DEF Life
    <3> QED
      BY <2>1, <2>2, <3>1, <3>2, <3>3, Numbers DEF Life
  <2>3. CASE UNCHANGED <<root, entry, job>> /\ setup' = 7
    BY <2>1, <2>3 DEF Life
  <2> QED
    BY <1>7, <2>2, <2>3 DEF SetupSched
<1>8. CASE SetupSchedFail
  <2>1. UNCHANGED <<root, kstack, cur>> /\ setup' = 7 /\ job' = [job EXCEPT ![SCHED] = NONE]
        /\ job[SCHED] = cur
    BY <1>8 DEF SetupSchedFail
  <2>2. job'[SCHED] = NONE /\ \A w \in Space : w # SCHED => job'[w] = job[w]
    BY <1>0, <2>1, Numbers
  <2>3. \A w \in Space : w # SCHED => entry'[w] = entry[w]
    BY <1>8, SchedFailMaps, MapOthers, Numbers DEF MapStep
  <2>4. root[SCHED] # NONE
    BY <1>0, <2>1, Numbers DEF Life
  <2> QED
    BY <1>0, <2>1, <2>2, <2>3, <2>4, Numbers DEF Life
<1>9. ASSUME NEW v \in Space, vmem_clone(v) PROVE Life'
  <2>1. /\ UNCHANGED <<kstack, cur, setup>> /\ setup = 7 /\ cur >= INIT /\ root[v] = NONE
        /\ vmem_init(v) /\ job' = [job EXCEPT ![v] = cur]
    BY <1>9 DEF vmem_clone, Booted, Exists
  <2>2. /\ root'[v] # NONE /\ DOMAIN entry'[v] = {}
        /\ \A w \in Space : w # v => root'[w] = root[w] /\ entry'[w] = entry[w]
    BY <1>1, <2>1
  <2>3. \A w \in Space : w # v => job'[w] = job[w]
    BY <1>0, <2>1
  <2>4. kstack[v] = NONE /\ v # cur
    BY <2>1 DEF Life
  <2> QED
    BY <1>0, <2>1, <2>2, <2>3, <2>4 DEF Life
<1>10. ASSUME NEW v \in Space, CloneStep(v) PROVE Life'
  <2>1. UNCHANGED <<job, setup, cur>> /\ job[v] = cur
    BY <1>10 DEF CloneStep
  <2>2. root[v] # NONE
    BY <1>0, <2>1, Numbers DEF Life
  <2>3. setup' = 1 => v # INIT
    <3> SUFFICES ASSUME setup = 1, v = INIT PROVE FALSE
      BY <2>1
    <3>1. setup \in 0 .. 6
      OBVIOUS
    <3> QED
      BY <1>0, <2>1, <3>1, Numbers DEF Life
  <2> QED
    BY <1>10, <2>1, <2>2, <2>3, CloneMaps, LifeMap
<1>11. ASSUME NEW v \in Space, CloneDone(v) PROVE Life'
  <2>1. UNCHANGED <<root, entry, cur>> /\ job[v] = cur /\ job' = [job EXCEPT ![v] = NONE]
    BY <1>11 DEF CloneDone
  <2>2. job'[v] = NONE /\ \A w \in Space : w # v => job'[w] = job[w]
    BY <1>0, <2>1
  <2>3. root[v] # NONE /\ job[v] # NONE
    BY <1>0, <2>1, Numbers DEF Life
  <2>4. CASE v = SCHED /\ setup' = 7 /\ UNCHANGED kstack
    BY <2>1, <2>2, <2>3, <2>4 DEF Life
  <2>5. CASE v # SCHED /\ allocate_kstack(v) /\ setup' = setup
    <3>1. setup = 7
      <4>1. setup \in 0 .. 6 => job[v] = NONE
        BY <2>5 DEF Life
      <4> QED
        BY <1>0, <2>3, <4>1
    <3>2. \A w \in Space : w # v => kstack'[w] = kstack[w]
      BY <1>2, <2>5
    <3> QED
      BY <2>1, <2>2, <2>3, <2>5, <3>1, <3>2 DEF Life
  <2> QED
    BY <1>11, <2>4, <2>5 DEF CloneDone
<1>12. ASSUME NEW v \in Space, ForkFail(v) PROVE Life'
  <2>1. /\ UNCHANGED <<kstack, cur, setup>> /\ job[v] = cur /\ v # SCHED
        /\ job' = [job EXCEPT ![v] = NONE]
        /\ root' = [root EXCEPT ![v] = NONE] /\ entry' = [entry EXCEPT ![v] = <<>>]
    BY <1>12 DEF ForkFail
  <2>2. /\ job'[v] = NONE /\ root'[v] = NONE /\ DOMAIN entry'[v] = {}
        /\ \A w \in Space : w # v => job'[w] = job[w] /\ root'[w] = root[w] /\ entry'[w] = entry[w]
    BY <1>0, <2>1
  <2>3. job[v] # NONE /\ kstack[v] = NONE
    BY <1>0, <2>1, Numbers DEF Life
  <2>4. setup = 7
    <3>1. setup \in 0 .. 6 => job[v] = NONE
      BY <2>1 DEF Life
    <3> QED
      BY <1>0, <2>3, <3>1
  <2>5. cur >= INIT => v # cur
    BY <2>3 DEF Life
  <2> QED
    BY <1>0, <2>1, <2>2, <2>3, <2>4, <2>5 DEF Life
<1>13. ASSUME NEW v \in Space, vmem_destroy(v) PROVE Life'
  <2>1. /\ UNCHANGED <<job, cur, setup>> /\ cur = SCHED /\ v >= INIT /\ job[v] = NONE
        /\ root' = [root EXCEPT ![v] = NONE] /\ entry' = [entry EXCEPT ![v] = <<>>]
        /\ kstack' = [kstack EXCEPT ![v] = NONE]
    BY <1>13 DEF vmem_destroy, Task
  <2>2. /\ root'[v] = NONE /\ DOMAIN entry'[v] = {} /\ kstack'[v] = NONE
        /\ \A w \in Space : w # v =>
              root'[w] = root[w] /\ entry'[w] = entry[w] /\ kstack'[w] = kstack[w]
    BY <1>0, <2>1
  <2>3. setup = 7
    <3>1. setup \in 0 .. 6 => cur = BOOT
      BY DEF Life
    <3> QED
      BY <1>0, <2>1, <3>1, Numbers
  <2> QED
    BY <2>1, <2>2, <2>3, Numbers DEF Life
<1>14. ASSUME NEW v \in Space, vmem_switch_to(v) PROVE Life'
  <2>1. UNCHANGED <<root, kstack, entry, job, setup>> /\ setup = 7 /\ cur' = v
    BY <1>14 DEF vmem_switch_to, Booted
  <2>2. v >= INIT => root[v] # NONE /\ job[v] = NONE
    BY <1>14, Numbers DEF vmem_switch_to, Task, Exists
  <2> QED
    BY <2>1, <2>2 DEF Life
<1>15. ASSUME NEW v \in Space, vmem_free_pages(v) PROVE Life'
  <2>1. UNCHANGED <<root, kstack, cur, job, setup>> /\ setup = 7
    BY <1>15 DEF vmem_free_pages, Booted
  <2>2. \A w \in Space : DOMAIN entry'[w] \subseteq DOMAIN entry[w]
    BY <1>15, FreePages
  <2> QED
    BY <2>1, <2>2 DEF Life
<1>16. ASSUME NEW a \in UserPages, vmem_handle_pf(a) PROVE Life'
  <2>1. UNCHANGED <<job, setup, cur>> /\ setup = 7 /\ cur >= INIT
    BY <1>16 DEF vmem_handle_pf, Booted
  <2>2. root[cur] # NONE /\ setup' # 1
    BY <2>1 DEF Life
  <2> QED
    BY <1>0, <1>16, <2>1, <2>2, FaultMaps, LifeMap
<1>17. ASSUME UNCHANGED <<root, kstack, entry, job, setup, cur>> PROVE Life'
  BY <1>17 DEF Life
<1>18. ASSUME NEW v \in Space, vmem_alloc_pages(v) PROVE Life'
  BY <1>17, <1>18 DEF vmem_alloc_pages
<1>19. ASSUME NEW a \in UserPages, FaultOutside(a) PROVE Life'
  BY <1>17, <1>19 DEF FaultOutside
<1>20. CASE UNCHANGED vars
  BY <1>17, <1>20 DEF vars
<1> QED
  BY <1>3, <1>4, <1>5, <1>6, <1>7, <1>8, <1>9, <1>10, <1>11, <1>12, <1>13, <1>14, <1>15,
     <1>16, <1>18, <1>19, <1>20 DEF Next, Boot

-----------------------------------------------------------------------------
(* No frame is lost. *)

\* Nothing has failed, and every frame is free or referred to.
Good == panic = "no" /\ failed = {}
Held(f) == f \in free \/ \E v \in Space : \E x : Refers(v, x, f)
Kept == Good => \A f \in mem : Held(f)

\* What has failed stays so.
LEMMA GoodBefore ==
    ASSUME [Next]_vars, Good'
    PROVE  Good
<1>1. CASE UNCHANGED vars
  BY <1>1 DEF vars, Good
<1>2. CASE Boot
  <2>1. panic = "no"
    BY <1>2 DEF Boot, SetupInit, setup_vmem, SetupStack, SetupThread, SetupSched, SetupSchedFail, Running
  <2>2. failed' = failed \/ failed' = {SCHED} \/ failed' = failed \cup {SCHED}
    BY <1>2 DEF Boot, SetupInit, setup_vmem, SetupStack, SetupThread, SetupSched, SetupSchedFail
  <2> QED
    BY <2>1, <2>2 DEF Good
<1>3. ASSUME NEW v \in Space,
             \/ vmem_clone(v) \/ CloneStep(v) \/ CloneDone(v) \/ ForkFail(v)
             \/ vmem_switch_to(v) \/ vmem_destroy(v) \/ vmem_alloc_pages(v) \/ vmem_free_pages(v)
      PROVE  Good
  <2>1. panic = "no"
    BY <1>3 DEF vmem_clone, CloneStep, CloneDone, ForkFail, vmem_switch_to, vmem_destroy,
                vmem_alloc_pages, vmem_free_pages, Running
  <2>2. failed' = failed \/ failed' = failed \cup {v}
    BY <1>3 DEF vmem_clone, CloneStep, CloneDone, ForkFail, vmem_switch_to, vmem_destroy,
                vmem_alloc_pages, vmem_free_pages
  <2> QED
    BY <2>1, <2>2 DEF Good
<1>4. ASSUME NEW a \in UserPages, FaultOutside(a) \/ vmem_handle_pf(a) PROVE Good
  BY <1>4 DEF FaultOutside, vmem_handle_pf, Running, Good
<1> QED
  BY <1>1, <1>2, <1>3, <1>4 DEF Next

\* vmem_map_page loses no frame when it succeeds: a table or the page has it.
LEMMA KeptMap ==
    ASSUME Types, Exclusive, NEW v \in Space, MapStep(v), Good', NEW f \in Frame, Held(f)
    PROVE  Held(f)'
<1>1. PICK k \in Keys : \E fr, frame, fl, r :
          Maps(v, k, fr, frame, fl, r) /\ (panic' = "no" /\ failed' = {} => r.res = "ok")
  BY DEF MapStep
<1>2. PICK fr, frame, fl, r : Maps(v, k, fr, frame, fl, r) /\ r.res = "ok"
  BY <1>1 DEF Good
<1>3. /\ entry'[v] = r.entry /\ \A w \in Space : w # v => entry'[w] = entry[w]
      /\ MapResult(entry[v], fr, k, frame, fl, r)
      /\ UNCHANGED <<root, kstack>>
  BY <1>2, MapOthers DEF MapStep
<1>4. Supply(fr, frame, k, fl) /\ free' = r.free
  BY <1>2 DEF Maps
<1>5. \A x \in DOMAIN entry'[v] : entry'[v][x].frame = f => Held(f)'
  BY DEF Held, Refers
<1>6. CASE f \in free
  <2>1. CASE f \in r.free
    BY <1>4, <2>1 DEF Held
  <2>2. CASE f \in fr /\ f \notin r.free
    <3>1. PICK e \in New(entry[v], fr, k) : f = MadeFrame(entry[v], fr, k, e[1])
      BY <1>3, <2>2 DEF MapResult
    <3>2. e \in DOMAIN r.entry /\ r.entry[e].frame = f
      BY <1>3, <3>1 DEF MapResult
    <3> QED
      BY <1>3, <1>5, <3>2
  <2>3. CASE f \notin fr
    <3>1. f = frame
      BY <1>4, <1>6, <2>3 DEF Supply
    <3>2. k \in DOMAIN r.entry /\ r.entry[k].frame = f
      BY <1>2, <1>3, <3>1 DEF MapResult
    <3> QED
      BY <1>3, <1>5, <3>2
  <2> QED
    BY <2>1, <2>2, <2>3
<1>7. ASSUME NEW w \in Space, NEW x, Refers(w, x, f) PROVE Held(f)'
  <2>1. CASE w # v \/ x \notin DOMAIN entry[w] \/ entry[w][x].frame # f
    <3>1. Refers(w, x, f)'
      BY <1>3, <1>7, <2>1 DEF Refers
    <3> QED
      BY <3>1 DEF Held
  <2>2. CASE w = v /\ x \in DOMAIN entry[v] /\ entry[v][x].frame = f
    <3>1. EntryOK(x, entry[v][x])
      BY <2>2 DEF Types, TablesOK
    <3>2. x # k
      BY <1>2, <1>3, <2>2, <3>1 DEF MapResult, EntryOK
    <3>3. x \in DOMAIN r.entry /\ r.entry[x].frame = f
      BY <1>3, <2>2, <3>2 DEF MapResult
    <3> QED
      BY <1>3, <1>5, <3>3
  <2> QED
    BY <2>1, <2>2
<1> QED
  BY <1>6, <1>7 DEF Held

\* vmem_init and allocate_kstack take a frame for a pointer that has none.
LEMMA KeptInit ==
    ASSUME Types, Life, NEW v \in Space, vmem_init(v), root[v] = NONE, kstack' = kstack,
           NEW f \in Frame, Held(f)
    PROVE  Held(f)'
<1>1. PICK g : g = Nth(free, 1)
  OBVIOUS
<1>2. root' = [root EXCEPT ![v] = g] /\ free' = free \ {g} /\ entry' = [entry EXCEPT ![v] = <<>>]
  BY <1>1 DEF vmem_init
<1>3. /\ root'[v] = g
      /\ \A w \in Space : w # v => root'[w] = root[w] /\ entry'[w] = entry[w]
  BY <1>2 DEF Types
<1>4. CASE f \in free
  <2>1. CASE f = g
    <3>1. Refers(v, <<0, 0>>, f)'
      BY <1>3, <2>1 DEF Refers
    <3> QED
      BY <3>1 DEF Held
  <2>2. CASE f # g
    BY <1>2, <1>4, <2>2 DEF Held
  <2> QED
    BY <2>1, <2>2
<1>5. ASSUME NEW w \in Space, NEW x, Refers(w, x, f) PROVE Held(f)'
  <2>1. w # v \/ (x = <<0, 1>> /\ kstack[w] = f)
    BY <1>5, FreeFinite DEF Refers, Life
  <2>2. Refers(w, x, f)'
    BY <1>3, <1>5, <2>1 DEF Refers
  <2> QED
    BY <2>2 DEF Held
<1> QED
  BY <1>4, <1>5 DEF Held

LEMMA KeptStack ==
    ASSUME Types, NEW v \in Space, allocate_kstack(v), kstack[v] = NONE,
           root' = root, entry' = entry, NEW f \in Frame, Held(f)
    PROVE  Held(f)'
<1>1. PICK g : g = Nth(free, 1)
  OBVIOUS
<1>2. kstack' = [kstack EXCEPT ![v] = g] /\ free' = free \ {g}
  BY <1>1 DEF allocate_kstack
<1>3. kstack'[v] = g /\ \A w \in Space : w # v => kstack'[w] = kstack[w]
  BY <1>2 DEF Types
<1>4. CASE f \in free
  <2>1. CASE f = g
    <3>1. Refers(v, <<0, 1>>, f)'
      BY <1>3, <2>1 DEF Refers
    <3> QED
      BY <3>1 DEF Held
  <2>2. CASE f # g
    BY <1>2, <1>4, <2>2 DEF Held
  <2> QED
    BY <2>1, <2>2
<1>5. ASSUME NEW w \in Space, NEW x, Refers(w, x, f) PROVE Held(f)'
  <2>1. w # v \/ ~ (x = <<0, 1>> /\ kstack[w] = f)
    BY FreeFinite
  <2>2. Refers(w, x, f)'
    BY <1>3, <1>5, <2>1 DEF Refers
  <2> QED
    BY <2>2 DEF Held
<1> QED
  BY <1>4, <1>5 DEF Held

\* vmem_destroy frees every frame of the space.
LEMMA KeptDestroy ==
    ASSUME Types, NEW v \in Space, vmem_destroy(v), NEW f \in Frame, Held(f)
    PROVE  Held(f)'
<1>1. /\ root' = [root EXCEPT ![v] = NONE] /\ entry' = [entry EXCEPT ![v] = <<>>]
      /\ kstack' = [kstack EXCEPT ![v] = NONE]
      /\ free' = free \cup (FramesOf(v) \cap Frame)
  BY DEF vmem_destroy
<1>2. \A w \in Space : w # v => /\ entry'[w] = entry[w] /\ root'[w] = root[w]
                                /\ kstack'[w] = kstack[w]
  BY <1>1, Emptied
<1>3. CASE f \in free
  BY <1>1, <1>3 DEF Held
<1>4. ASSUME NEW w \in Space, NEW x, Refers(w, x, f) PROVE Held(f)'
  <2>1. CASE w = v
    <3>1. f \in FramesOf(v)
      BY <1>4, <2>1, OwnedFrames
    <3> QED
      BY <1>1, <3>1 DEF Held
  <2>2. CASE w # v
    <3>1. Refers(w, x, f)'
      BY <1>2, <1>4, <2>2 DEF Refers
    <3> QED
      BY <3>1 DEF Held
  <2> QED
    BY <2>1, <2>2
<1> QED
  BY <1>3, <1>4 DEF Held

\* vmem_free_pages frees the frames of the pages it unmaps.
LEMMA KeptFreePages ==
    ASSUME Types, UserFrames, NEW v \in Space, vmem_free_pages(v), NEW f \in Frame, Held(f)
    PROVE  Held(f)'
<1>1. UNCHANGED <<root, kstack>> /\ AreaCalls
  BY FreePages DEF vmem_free_pages
<1>2. CASE UNCHANGED <<free, entry>>
  BY <1>1, <1>2 DEF Held, Refers
<1>3. ASSUME NEW ar \in AreaChoices,
             /\ free' = free \cup (unmap_frees(v, ar) \cap Frame)
             /\ DOMAIN entry' = Space
             /\ \A w \in Space : w # v => entry'[w] = entry[w]
             /\ DOMAIN entry'[v] = DOMAIN entry[v] \ Unmapped(v, ar)
             /\ \A k \in DOMAIN entry'[v] : entry'[v][k] = entry[v][k]
      PROVE  Held(f)'
  <2>1. CASE f \in free
    BY <1>3, <2>1 DEF Held
  <2>2. ASSUME NEW w \in Space, NEW x, Refers(w, x, f) PROVE Held(f)'
    <3>1. CASE w = v /\ x \in Unmapped(v, ar) /\ entry[v][x].frame = f
      <4>1. x \in DOMAIN entry[v] /\ x[1] = 1
        BY <3>1 DEF Unmapped
      <4>2. EntryOK(x, entry[v][x])
        BY <4>1 DEF Types, TablesOK
      <4>3. VMEM_ALLOC \in entry[v][x].flags
        BY <1>1, <3>1, <4>1, <4>2 DEF UserFrames, EntryOK, VMEM_ALLOC, PTE_USER
      <4>4. f \in unmap_frees(v, ar)
        BY <3>1, <4>3 DEF unmap_frees
      <4> QED
        BY <1>3, <4>4 DEF Held
    <3>2. CASE ~ (w = v /\ x \in Unmapped(v, ar) /\ entry[v][x].frame = f)
      <4>1. Refers(w, x, f)'
        BY <1>1, <1>3, <2>2, <3>2 DEF Refers
      <4> QED
        BY <4>1 DEF Held
    <3> QED
      BY <3>1, <3>2
  <2> QED
    BY <2>1, <2>2 DEF Held
<1> QED
  BY <1>2, <1>3, FreePages

\* Space v is emptied, or loses nothing but entries of level 1.
Shrinks(v) ==
    /\ DOMAIN entry'[v] \subseteq DOMAIN entry[v]
    /\ \A k \in DOMAIN entry'[v] : entry'[v][k] = entry[v][k]
    /\ DOMAIN entry'[v] = {} \/ \A k \in DOMAIN entry[v] : k[1] # 1 => k \in DOMAIN entry'[v]

\* Which entries a step can leave: those that were there, and those of a page that
\* is mapped.
LEMMA EntriesStep ==
    ASSUME Types, [Next]_vars
    PROVE  \/ \E v \in Space : MapStep(v)
           \/ \A v \in Space : Shrinks(v)
<1>0. DOMAIN entry = Space
  BY DEF Types
<1>1. ASSUME NEW v \in Space, entry' = [entry EXCEPT ![v] = <<>>]
      PROVE  \A w \in Space : Shrinks(w)
  <2>1. DOMAIN entry'[v] = {} /\ \A w \in Space : w # v => entry'[w] = entry[w]
    BY <1>0, <1>1
  <2> QED
    BY <2>1 DEF Shrinks
<1>2. CASE entry' = entry
  BY <1>2 DEF Shrinks
<1>3. CASE SetupInit
  <2>1. entry' = entry \/ entry' = [entry EXCEPT ![INIT] = <<>>]
    BY <1>3 DEF SetupInit, vmem_init
  <2> QED
    BY <1>1, <1>2, <2>1, Numbers
<1>4. CASE SetupSched
  <2>1. entry' = entry \/ entry' = [entry EXCEPT ![SCHED] = <<>>]
    BY <1>4 DEF SetupSched, vmem_init
  <2> QED
    BY <1>1, <1>2, <2>1, Numbers
<1>5. CASE setup_vmem
  BY <1>5, SetupMaps, Numbers
<1>6. CASE SetupSchedFail
  BY <1>6, SchedFailMaps, Numbers DEF Shrinks
<1>7. CASE SetupStack \/ SetupThread
  <2>1. entry' = entry
    BY <1>7 DEF SetupStack, SetupThread
  <2> QED
    BY <1>2, <2>1
<1>8. ASSUME NEW v \in Space, vmem_clone(v) \/ ForkFail(v) \/ vmem_destroy(v)
      PROVE  entry' = [entry EXCEPT ![v] = <<>>]
  BY <1>8 DEF vmem_clone, vmem_init, ForkFail, vmem_destroy
<1>9. ASSUME NEW v \in Space, CloneDone(v) \/ vmem_switch_to(v) \/ vmem_alloc_pages(v)
      PROVE  entry' = entry
  BY <1>9 DEF CloneDone, vmem_switch_to, vmem_alloc_pages
<1>10. ASSUME NEW v \in Space, CloneStep(v) PROVE MapStep(v)
  BY <1>10, CloneMaps
<1>11. ASSUME NEW v \in Space, vmem_free_pages(v)
       PROVE  \A w \in Space : Shrinks(w)
  BY <1>11, FreePages DEF Unmapped, Shrinks
<1>12. ASSUME NEW a \in UserPages, FaultOutside(a) PROVE entry' = entry
  BY <1>12 DEF FaultOutside
<1>13. ASSUME NEW a \in UserPages, vmem_handle_pf(a) PROVE \E v \in Space : MapStep(v)
  BY <1>13, FaultMaps
<1>14. CASE UNCHANGED vars
  BY <1>14, <1>2 DEF vars
<1>15. ASSUME NEW v \in Space,
             \/ vmem_clone(v) \/ CloneStep(v) \/ CloneDone(v) \/ ForkFail(v)
             \/ vmem_switch_to(v) \/ vmem_destroy(v) \/ vmem_alloc_pages(v) \/ vmem_free_pages(v)
       PROVE \/ \E w \in Space : MapStep(w)
             \/ \A w \in Space : Shrinks(w)
  BY <1>1, <1>8, <1>9, <1>10, <1>11, <1>15, <1>2
<1> QED
  BY <1>3, <1>4, <1>5, <1>6, <1>7, <1>12, <1>13, <1>14, <1>15, <1>2 DEF Next, Boot

\* The pages that were allocated on demand are pages of user programs.
LEMMA UserFramesStep ==
    ASSUME Types, UserAreas, UserFrames, [Next]_vars
    PROVE  UserFrames'
<1> SUFFICES ASSUME AreaCalls, NEW w \in Space, NEW e \in DOMAIN entry'[w],
                    e[1] = 1, PTE_ALLOC \in entry'[w][e].flags
             PROVE  PTE_USER \in entry'[w][e].flags
  BY DEF UserFrames
<1>1. CASE e \in DOMAIN entry[w] /\ entry'[w][e] = entry[w][e]
  BY <1>1 DEF UserFrames
<1>2. ASSUME NEW v \in Space, MapStep(v) PROVE PTE_USER \in entry'[w][e].flags
  <2>1. PICK k \in Keys : \E fr, frame, fl, r :
            /\ Maps(v, k, fr, frame, fl, r)
            /\ k[1] = 1 /\ VMEM_ALLOC \in fl => VMEM_USER \in fl
    BY <1>2 DEF MapStep
  <2>2. PICK fr, frame, fl, r : /\ Maps(v, k, fr, frame, fl, r)
                                /\ k[1] = 1 /\ VMEM_ALLOC \in fl => VMEM_USER \in fl
    BY <2>1
  <2>3. /\ entry'[v] = r.entry /\ \A x \in Space : x # v => entry'[x] = entry[x]
        /\ MapResult(entry[v], fr, k, frame, fl, r)
    BY <2>2, MapOthers
  <2>4. CASE w # v
    BY <1>1, <2>3, <2>4
  <2>5. CASE w = v
    <3>1. e \notin New(entry[v], fr, k) /\ e \notin Path(k)
      <4>1. k[1] \in Levels
        BY PageOfKey
      <4>2. \A x \in New(entry[v], fr, k) : x[1] > k[1]
        BY <2>3 DEF MapResult
      <4>3. \A x \in Path(k) : x[1] \in k[1] + 1 .. 4
        BY <4>1 DEF Path, At
      <4> QED
        BY <4>1, <4>2, <4>3 DEF Levels
    <3>2. CASE e = k /\ r.res = "ok"
      <4>1. entry'[w][e].flags = vmem_convert_flags(fl) \cup {PTE_PRESENT}
        <5>1. r.entry[k].flags = vmem_convert_flags(fl) \cup {PTE_PRESENT}
                                   \cup (IF k[1] > 1 THEN {PTE_PAGE_SIZE} ELSE {})
          BY <2>3, <3>2 DEF MapResult
        <5>2. ~ (k[1] > 1)
          BY <3>2
        <5> QED
          BY <2>3, <2>5, <3>2, <5>1, <5>2
      <4>2. PTE_ALLOC \in vmem_convert_flags(fl)
        BY <4>1 DEF PTE_ALLOC, PTE_PRESENT
      <4> QED
        BY <2>2, <3>2, <4>1, <4>2, Converted
    <3>3. CASE e \in DOMAIN entry[v] /\ (e # k \/ r.res # "ok")
      <4>1. r.entry[e].flags = entry[v][e].flags \cup
                                   (IF e \in Path(k) THEN vmem_convert_flags(fl) ELSE {})
        BY <2>3, <3>3 DEF MapResult
      <4>2. entry'[w][e].flags = entry[w][e].flags
        BY <2>3, <2>5, <3>1, <4>1
      <4> QED
        BY <2>5, <3>3, <4>2 DEF UserFrames
    <3> QED
      BY <2>3, <2>5, <3>1, <3>2, <3>3 DEF MapResult
  <2> QED
    BY <2>4, <2>5
<1> QED
  BY <1>1, <1>2, EntriesStep DEF Shrinks

\* As long as nothing fails, no step loses a frame.
LEMMA KeptStep ==
    ASSUME Types, Exclusive, Life, UserFrames, Kept, [Next]_vars
    PROVE  Kept'
<1> SUFFICES ASSUME Good', NEW f \in mem' PROVE Held(f)'
  BY DEF Kept
<1>0. f \in Frame /\ Held(f)
  BY CountersStep, GoodBefore DEF Types, Kept
<1>1. CASE UNCHANGED <<free, root, kstack, entry>>
  BY <1>0, <1>1 DEF Held, Refers
<1>2. CASE SetupInit
  <2>1. /\ kstack' = kstack /\ setup = 0
        /\ vmem_init(INIT) \/ UNCHANGED <<free, root, entry>>
    BY <1>2 DEF SetupInit
  <2>2. root[INIT] = NONE
    BY <2>1 DEF Life
  <2> QED
    BY <1>0, <1>1, <2>1, <2>2, KeptInit, Numbers
<1>3. CASE setup_vmem
  BY <1>0, <1>3, SetupMaps, KeptMap, Numbers
<1>4. CASE SetupThread
  <2>1. /\ root' = root /\ entry' = entry /\ setup = 5
        /\ allocate_kstack(INIT) \/ UNCHANGED <<free, kstack>>
    BY <1>4 DEF SetupThread
  <2>2. kstack[INIT] = NONE
    BY <2>1 DEF Life
  <2> QED
    BY <1>0, <1>1, <2>1, <2>2, KeptStack, Numbers
<1>5. CASE SetupSched
  <2>1. /\ kstack' = kstack /\ setup = 6 /\ job[SCHED] = NONE
        /\ vmem_init(SCHED) \/ UNCHANGED <<free, root, entry>>
    BY <1>5 DEF SetupSched
  <2>2. root[SCHED] = NONE
    BY <2>1 DEF Life
  <2> QED
    BY <1>0, <1>1, <2>1, <2>2, KeptInit, Numbers
<1>6. CASE SetupSchedFail
  <2>1. failed' # {}
    BY <1>6 DEF SetupSchedFail
  <2> QED
    BY <2>1 DEF Good
<1>7. ASSUME NEW v \in Space, vmem_clone(v) PROVE Held(f)'
  <2>1. kstack' = kstack /\ vmem_init(v) /\ root[v] = NONE
    BY <1>7 DEF vmem_clone, Exists
  <2> QED
    BY <1>0, <2>1, KeptInit
<1>8. ASSUME NEW v \in Space, CloneStep(v) PROVE Held(f)'
  BY <1>0, <1>8, CloneMaps, KeptMap
<1>9. ASSUME NEW v \in Space, CloneDone(v) PROVE Held(f)'
  <2>1. /\ root' = root /\ entry' = entry /\ job[v] = cur
        /\ allocate_kstack(v) \/ UNCHANGED <<free, kstack>>
    BY <1>9 DEF CloneDone
  <2>2. kstack[v] = NONE
    BY <2>1, Numbers DEF Life, Types
  <2> QED
    BY <1>0, <1>1, <2>1, <2>2, KeptStack
<1>10. ASSUME NEW v \in Space, ForkFail(v) PROVE Held(f)'
  <2>1. failed' # {}
    BY <1>10 DEF ForkFail
  <2> QED
    BY <2>1 DEF Good
<1>11. ASSUME NEW v \in Space, vmem_destroy(v) PROVE Held(f)'
  BY <1>0, <1>11, KeptDestroy
<1>12. ASSUME NEW v \in Space, vmem_free_pages(v) PROVE Held(f)'
  BY <1>0, <1>12, KeptFreePages
<1>13. ASSUME NEW a \in UserPages, vmem_handle_pf(a) PROVE Held(f)'
  BY <1>0, <1>13, FaultMaps, KeptMap
<1>14. CASE SetupStack
  BY <1>1, <1>14 DEF SetupStack
<1>15. ASSUME NEW v \in Space, vmem_switch_to(v) \/ vmem_alloc_pages(v) PROVE Held(f)'
  BY <1>1, <1>15 DEF vmem_switch_to, vmem_alloc_pages
<1>16. ASSUME NEW a \in UserPages, FaultOutside(a) PROVE Held(f)'
  BY <1>1, <1>16 DEF FaultOutside
<1>17. CASE UNCHANGED vars
  BY <1>1, <1>17 DEF vars
<1> QED
  BY <1>2, <1>3, <1>4, <1>5, <1>6, <1>7, <1>8, <1>9, <1>10, <1>11, <1>12, <1>13, <1>14,
     <1>15, <1>16, <1>17 DEF Next, Boot

\* As long as no clone has run out of memory and the kernel has not stopped, every
\* frame that the allocator was given at boot is free or some address space refers
\* to it, so that its destruction frees it: what vmem_init, allocate_kstack and
\* vmem_map_page take is never overwritten, and vmem_destroy and vmem_free_pages
\* free all that they take away.  Areas that are allocated and freed must have
\* VMEM_USER, since vmem_unmap_page tests the wrong bit.
THEOREM VmemNoLeak == ASSUME UserAreas PROVE Spec => []NoLeak
<1> DEFINE IInv == Types /\ Exclusive /\ Life /\ UserFrames /\ Kept
<1>1. Init => IInv
  <2> SUFFICES ASSUME Init PROVE UserFrames /\ Kept
    BY InitOwned, LifeInit
  <2>1. DOMAIN entry = Space /\ \A v \in Space : entry[v] = BootEntries \/ DOMAIN entry[v] = {}
    BY DEF Init
  <2>2. \A k \in DOMAIN BootEntries : PTE_ALLOC \notin BootEntries[k].flags
    BY DEF BootEntries, PTE_ALLOC, PTE_PRESENT, PTE_WRITEABLE, PTE_PAGE_SIZE
  <2>3. UserFrames
    BY <2>1, <2>2 DEF UserFrames
  <2>4. free = mem
    BY DEF Init
  <2> QED
    BY <2>3, <2>4 DEF Kept, Held
<1>2. IInv /\ [Next]_vars => IInv'
  <2> SUFFICES ASSUME Types, Exclusive, Life, UserFrames, Kept, [Next]_vars PROVE IInv'
    OBVIOUS
  <2>1. Life' /\ UserFrames' /\ Kept'
    BY LifeStep, UserFramesStep, KeptStep
  <2>2. Types' /\ Exclusive'
    BY OwnedNext
  <2> QED
    BY <2>1, <2>2
<1>3. IInv => NoLeak
  <2> SUFFICES ASSUME IInv, panic = "no", failed = {}, NEW f \in mem, f \notin free
               PROVE  Refs(f) # {}
    BY DEF NoLeak
  <2>1. PICK v \in Space : \E x : Refers(v, x, f)
    BY DEF Kept, Held, Good
  <2>2. PICK x : Refers(v, x, f)
    BY <2>1
  <2>3. f \in Frame
    BY DEF Types
  <2>4. <<v, x>> \in Refs(f)
    <3>1. x \in UNION {{<<0, 0>>, <<0, 1>>} \cup DOMAIN entry[u] : u \in Space}
      BY <2>2 DEF Refers
    <3>2. PICK X : X = UNION {{<<0, 0>>, <<0, 1>>} \cup DOMAIN entry[u] : u \in Space}
      OBVIOUS
    <3>3. Refs(f) = {p \in Space \X X : Refers(p[1], p[2], f)}
      BY <2>3, <3>2, RefsRefer
    <3> QED
      BY <2>2, <3>1, <3>2, <3>3
  <2> QED
    BY <2>4
<1> QED
  BY <1>1, <1>2, <1>3, PTL DEF Spec

-----------------------------------------------------------------------------
(* Permissions. *)

\* An entry of an upper level covers a whole number of those below.
LEMMA SpanMultiple ==
    ASSUME NEW l \in Levels, NEW m \in Levels, l < m
    PROVE  \E c \in Nat \ {0} : Span[m] = Span[l] * c
<1>1. PICK F \in Nat \ {0, 1} : F = FANOUT
  BY VmemAssumption
<1>2. PICK G \in Nat \ {0} : G = F * F
  OBVIOUS
<1>3. PICK H \in Nat \ {0} : H = F * G /\ H = G * F
  OBVIOUS
<1>4. Span = <<1, F, G, H>>
  BY <1>1, <1>2, <1>3 DEF Span
<1>5. Span[1] = 1 /\ Span[2] = F /\ Span[3] = G /\ Span[4] = H
  BY <1>4
<1>6. l \in 1 .. 4 /\ m \in 1 .. 4
  BY DEF Levels
<1>7. CASE l = 1
  <2>1. Span[m] \in Nat \ {0}
    BY SpanDef
  <2>2. Span[m] = 1 * Span[m]
    BY <2>1
  <2> QED
    BY <1>5, <1>7, <2>1, <2>2
<1>8. CASE l = 2 /\ m = 3
  BY <1>2, <1>5, <1>8
<1>9. CASE l = 2 /\ m = 4
  BY <1>3, <1>5, <1>9
<1>10. CASE l = 3 /\ m = 4
  BY <1>3, <1>5, <1>10
<1> QED
  BY <1>6, <1>7, <1>8, <1>9, <1>10

\* The way to the first page of an entry is the way to every page below it.
LEMMA SamePath ==
    ASSUME NEW p \in Nat, NEW l \in Levels, NEW m \in Levels, l < m
    PROVE  At(PageOf(At(p, l)), m) = At(p, m)
<1>1. PICK n \in Nat \ {0} : n = Span[l]
  BY SpanDef
<1>2. PICK N \in Nat \ {0} : N = Span[m]
  BY SpanDef
<1>3. PICK c \in Nat \ {0} : N = n * c
  BY <1>1, <1>2, SpanMultiple
<1>4. PICK q \in Nat : q = p \div n /\ n * q <= p /\ p < n * q + n
  BY Euclid
<1>5. PICK Q \in Nat : Q = p \div N /\ N * Q <= p /\ p < N * Q + N
  BY Euclid
<1>6. PICK d \in Nat : d = c * Q
  OBVIOUS
<1>7. N * Q = n * d
  BY <1>3, <1>6
<1>8. n * d \in Nat /\ n * q \in Nat
  OBVIOUS
<1>9. n * d < n * q + n
  BY <1>4, <1>5, <1>7, <1>8
<1>10. n * d <= n * q
  BY <1>9, Products
<1>11. PICK b \in Nat : b = n * q
  BY <1>8
<1>12. N * Q <= b /\ b < N * Q + N
  BY <1>4, <1>5, <1>7, <1>8, <1>10, <1>11
<1>13. b \div N = Q
  BY <1>12, Quotients
<1>14. At(p, l) = <<l, q>>
  BY <1>1, <1>4 DEF At
<1>15. PageOf(At(p, l)) = b
  BY <1>1, <1>11, <1>14 DEF PageOf
<1>16. At(b, m) = <<m, Q>> /\ At(p, m) = <<m, Q>>
  BY <1>2, <1>5, <1>13 DEF At
<1> QED
  BY <1>15, <1>16

\* TablesPermit for one address space.
Permit(ent) ==
    \A k \in Leaves(ent) : \A l \in k[1] + 1 .. 4 :
        /\ At(PageOf(k), l) \in DOMAIN ent
        /\ ent[k].flags \ {PTE_PAGE_SIZE} \subseteq ent[At(PageOf(k), l)].flags

\* vmem_map_page gives the tables on its way the permissions of its page, also
\* those that are large pages and have tables of their own above them.
LEMMA PermitMap ==
    ASSUME NEW ent, TablesOK(ent), Permit(ent), NEW k \in Keys, NEW fr, NEW frame, NEW fl, NEW r,
           MapResult(ent, fr, k, frame, fl, r), ~ (k[1] = 3 /\ k \in Leaves(ent))
    PROVE  Permit(r.entry)
<1> DEFINE raw == vmem_convert_flags(fl)
<1>0. k[1] \in 1 .. 4 /\ PageOf(k) \in Nat /\ PageOf(k) < 2 * Span[4]
  BY PageOfKey DEF Levels
<1>1. PTE_PAGE_SIZE \notin raw \cup {PTE_PRESENT}
  BY Converted
<1>2. \A x \in Path(k) : x[1] \in k[1] + 1 .. 4 /\ x = At(PageOf(k), x[1])
  BY <1>0, AtKey DEF Path, Levels
<1>3. ASSUME NEW x \in DOMAIN ent, x # k \/ r.res # "ok"
      PROVE  /\ r.entry[x].flags = ent[x].flags \cup (IF x \in Path(k) THEN raw ELSE {})
             /\ x \in DOMAIN r.entry /\ x \in Keys /\ PTE_PRESENT \in ent[x].flags
             /\ PTE_PAGE_SIZE \in r.entry[x].flags => PTE_PAGE_SIZE \in ent[x].flags
  <2>1. /\ r.entry[x].flags = ent[x].flags \cup (IF x \in Path(k) THEN raw ELSE {})
        /\ x \in DOMAIN r.entry
    BY <1>3 DEF MapResult
  <2>2. EntryOK(x, ent[x])
    BY DEF TablesOK
  <2> QED
    BY <1>1, <2>1, <2>2 DEF EntryOK
<1>4. k \in DOMAIN ent => r.res # "ok"
  BY DEF MapResult, Leaves, IsPage
<1>5. ASSUME NEW e \in Leaves(r.entry), NEW l \in e[1] + 1 .. 4
      PROVE  /\ At(PageOf(e), l) \in DOMAIN r.entry
             /\ r.entry[e].flags \ {PTE_PAGE_SIZE} \subseteq r.entry[At(PageOf(e), l)].flags
  <2>1. e \in DOMAIN r.entry /\ (e[1] = 1 \/ PTE_PAGE_SIZE \in r.entry[e].flags)
    BY DEF Leaves, IsPage
  <2>2. CASE e \in New(ent, fr, k)
    <3>1. e[1] > k[1] /\ r.entry[e].flags = raw \cup {PTE_PRESENT}
      BY <2>2 DEF MapResult
    <3> QED
      BY <1>0, <1>1, <2>1, <3>1
  <2>3. CASE e = k /\ r.res = "ok"
    <3>1. PICK a : a = At(PageOf(k), l)
      OBVIOUS
    <3>2. a \in Path(k) /\ a \in DOMAIN ent \cup New(ent, fr, k)
      BY <2>3, <3>1 DEF MapResult, Path
    <3>3. r.entry[k].flags = raw \cup {PTE_PRESENT} \cup (IF k[1] > 1 THEN {PTE_PAGE_SIZE} ELSE {})
      BY <2>3 DEF MapResult
    <3>4. r.entry[k].flags \ {PTE_PAGE_SIZE} \subseteq raw \cup {PTE_PRESENT}
      BY <3>3
    <3>5. CASE a \in New(ent, fr, k)
      <4>1. a \in DOMAIN r.entry /\ r.entry[a].flags = raw \cup {PTE_PRESENT}
        BY <3>5 DEF MapResult
      <4> QED
        BY <2>3, <3>1, <3>4, <4>1
    <3>6. CASE a \in DOMAIN ent
      <4>1. a # k
        BY <1>0, <1>2, <3>2
      <4>2. a \in DOMAIN r.entry /\ r.entry[a].flags = ent[a].flags \cup raw /\ PTE_PRESENT \in ent[a].flags
        BY <1>3, <3>2, <3>6, <4>1
      <4> QED
        BY <2>3, <3>1, <3>4, <4>2
    <3> QED
      BY <3>2, <3>5, <3>6
  <2>4. CASE e \in DOMAIN ent /\ (e # k \/ r.res # "ok")
    <3>1. /\ r.entry[e].flags = ent[e].flags \cup (IF e \in Path(k) THEN raw ELSE {})
          /\ PTE_PAGE_SIZE \in r.entry[e].flags => PTE_PAGE_SIZE \in ent[e].flags
      BY <1>3, <2>4
    <3>2. e \in Leaves(ent)
      BY <2>1, <2>4, <3>1 DEF Leaves, IsPage
    <3>3. PICK a : a = At(PageOf(e), l)
      OBVIOUS
    <3>4. a \in DOMAIN ent /\ ent[e].flags \ {PTE_PAGE_SIZE} \subseteq ent[a].flags
      BY <3>2, <3>3 DEF Permit
    <3>5. a # k \/ r.res # "ok"
      BY <1>4, <3>4
    <3>6. a \in DOMAIN r.entry /\ r.entry[a].flags = ent[a].flags \cup (IF a \in Path(k) THEN raw ELSE {})
      BY <1>3, <3>4, <3>5
    <3>7. e \in Path(k) => a \in Path(k)
      <4> SUFFICES ASSUME e \in Path(k) PROVE a \in Path(k)
        OBVIOUS
      <4>1. e[1] \in k[1] + 1 .. 4 /\ e = At(PageOf(k), e[1])
        BY <1>2
      <4>2. e[1] \in Levels /\ l \in Levels /\ e[1] < l /\ l \in k[1] + 1 .. 4
        BY <1>0, <4>1 DEF Levels
      <4>3. At(PageOf(At(PageOf(k), e[1])), l) = At(PageOf(k), l)
        BY <1>0, <4>2, SamePath
      <4>4. a = At(PageOf(k), l)
        BY <3>3, <4>1, <4>3
      <4> QED
        BY <4>2, <4>4 DEF Path
    <3>8. r.entry[e].flags \ {PTE_PAGE_SIZE} \subseteq r.entry[a].flags
      BY <3>1, <3>4, <3>6, <3>7
    <3> QED
      BY <3>3, <3>6, <3>8
  <2> QED
    BY <2>1, <2>2, <2>3, <2>4 DEF MapResult
<1> QED
  BY <1>5 DEF Permit

LEMMA PermitStep ==
    ASSUME Types, Life, TablesPermit, [Next]_vars
    PROVE  TablesPermit'
<1>1. TablesPermit <=> \A v \in Space \ {BOOT} : Permit(entry[v])
  BY DEF TablesPermit, Permit
<1>2. TablesPermit' <=> \A v \in Space \ {BOOT} : Permit(entry'[v])
  BY DEF TablesPermit, Permit
<1>3. ASSUME NEW v \in Space, MapStep(v), NEW w \in Space \ {BOOT} PROVE Permit(entry'[w])
  <2>1. PICK k \in Keys : \E fr, frame, fl, r :
            /\ Maps(v, k, fr, frame, fl, r)
            /\ k[1] = 3 /\ k \in Leaves(entry[v]) => setup = 1 /\ v = INIT
    BY <1>3 DEF MapStep
  <2>2. PICK fr, frame, fl, r :
            /\ Maps(v, k, fr, frame, fl, r)
            /\ k[1] = 3 /\ k \in Leaves(entry[v]) => setup = 1 /\ v = INIT
    BY <2>1
  <2>3. /\ entry'[v] = r.entry /\ \A x \in Space : x # v => entry'[x] = entry[x]
        /\ MapResult(entry[v], fr, k, frame, fl, r)
    BY <2>2, MapOthers
  <2>4. ~ (k[1] = 3 /\ k \in Leaves(entry[v]))
    BY <2>2 DEF Life, Leaves
  <2>5. TablesOK(entry[v])
    BY DEF Types
  <2>6. CASE w = v
    <3>1. Permit(entry[v])
      BY <1>1, <2>6
    <3>2. Permit(r.entry)
      BY <2>3, <2>4, <2>5, <3>1, PermitMap
    <3> QED
      BY <2>3, <2>6, <3>2
  <2>7. CASE w # v
    BY <1>1, <2>3, <2>7
  <2> QED
    BY <2>6, <2>7
<1>4. ASSUME NEW v \in Space \ {BOOT}, Shrinks(v) PROVE Permit(entry'[v])
  <2> SUFFICES ASSUME NEW e \in Leaves(entry'[v]), NEW l \in e[1] + 1 .. 4
               PROVE  /\ At(PageOf(e), l) \in DOMAIN entry'[v]
                      /\ entry'[v][e].flags \ {PTE_PAGE_SIZE} \subseteq entry'[v][At(PageOf(e), l)].flags
    BY DEF Permit
  <2>1. PICK a : a = At(PageOf(e), l)
    OBVIOUS
  <2>2. e \in Leaves(entry[v]) /\ e \in DOMAIN entry[v] /\ e \in DOMAIN entry'[v] /\ entry'[v][e] = entry[v][e]
    BY <1>4 DEF Shrinks, Leaves, IsPage
  <2>3. a \in DOMAIN entry[v] /\ entry[v][e].flags \ {PTE_PAGE_SIZE} \subseteq entry[v][a].flags
    BY <1>1, <2>1, <2>2 DEF Permit
  <2>4. a[1] # 1
    <3>1. EntryOK(e, entry[v][e])
      BY <2>2 DEF Types, TablesOK
    <3>2. e[1] \in 1 .. 4
      BY <3>1, PageOfKey DEF EntryOK, Levels
    <3>3. a[1] = l
      BY <2>1 DEF At
    <3> QED
      BY <3>2, <3>3
  <2>5. a \in DOMAIN entry'[v] /\ entry'[v][a] = entry[v][a]
    BY <1>4, <2>2, <2>3, <2>4 DEF Shrinks
  <2> QED
    BY <2>1, <2>2, <2>3, <2>5
<1> QED
  BY <1>2, <1>3, <1>4, EntriesStep

\* The tables on the way to a page grant what its own entry grants, for every
\* sequence of mappings: vmem_ensure_next_table adds the flags of the new page to
\* tables that were made for others, and no step takes them away again.
THEOREM VmemTablesPermit == Spec => []TablesPermit
<1> DEFINE IInv == Types /\ Exclusive /\ Life /\ TablesPermit
<1>1. Init => IInv
  <2> SUFFICES ASSUME Init PROVE TablesPermit
    BY InitOwned, LifeInit
  <2>1. \A v \in Space \ {BOOT} : DOMAIN entry[v] = {}
    BY DEF Init
  <2> QED
    BY <2>1 DEF TablesPermit, Leaves
<1>2. IInv /\ [Next]_vars => IInv'
  BY OwnedNext, LifeStep, PermitStep
<1> QED
  BY <1>1, <1>2, PTL DEF Spec

-----------------------------------------------------------------------------
(* The kernel is mapped. *)

Mapped(ent) == {Kernel1gb, Kernel2mb} \subseteq Leaves(ent)

Complete(v) == v = BOOT \/ Task(v) \/ (v = SCHED /\ SCHED \notin failed)

\* Which spaces map the kernel: that of boot, the init task's as far as setup_vmem
\* has got, and after sched_start every complete one.  A clone is made from one of
\* these.
Kernel ==
    /\ Mapped(entry[BOOT]) /\ job[BOOT] = NONE /\ \A v \in Space : job[v] # SCHED
    /\ setup \in 0 .. 6 => \A v \in Space : v >= INIT /\ v # INIT => root[v] = NONE
    /\ panic = "no" /\ setup \in 2 .. 6 => Kernel1gb \in Leaves(entry[INIT])
    /\ panic = "no" /\ setup \in 3 .. 6 => Kernel2mb \in Leaves(entry[INIT])
    /\ setup = 7 => \A v \in Space : Complete(v) => Mapped(entry[v])

\* Mapping a page unmaps none, and removing level 1 entries no large one.
LEMMA LeavesKept ==
    ASSUME Types, NEW v \in Space, NEW w \in Space,
           \/ MapStep(v)
           \/ \A k \in DOMAIN entry[w] :
                 k[1] # 1 => k \in DOMAIN entry'[w] /\ entry'[w][k] = entry[w][k]
    PROVE  /\ Kernel1gb \in Leaves(entry[w]) => Kernel1gb \in Leaves(entry'[w])
           /\ Kernel2mb \in Leaves(entry[w]) => Kernel2mb \in Leaves(entry'[w])
<1>1. CASE MapStep(v)
  <2>1. PICK k \in Keys : \E fr, frame, fl, r : Maps(v, k, fr, frame, fl, r)
    BY <1>1 DEF MapStep
  <2>2. PICK fr, frame, fl, r : Maps(v, k, fr, frame, fl, r)
    BY <2>1
  <2>3. /\ entry'[v] = r.entry /\ \A x \in Space : x # v => entry'[x] = entry[x]
        /\ MapResult(entry[v], fr, k, frame, fl, r)
    BY <2>2, MapOthers
  <2>4. ASSUME NEW e \in Leaves(entry[v]) PROVE e \in Leaves(r.entry)
    <3>1. e \in DOMAIN entry[v] /\ (e[1] = 1 \/ PTE_PAGE_SIZE \in entry[v][e].flags)
      BY DEF Leaves, IsPage
    <3>2. e \in DOMAIN r.entry
      BY <2>3, <3>1 DEF MapResult
    <3>3. CASE e = k /\ r.res = "ok"
      <4>1. r.entry[k].flags = vmem_convert_flags(fl) \cup {PTE_PRESENT}
                                 \cup (IF k[1] > 1 THEN {PTE_PAGE_SIZE} ELSE {})
        BY <2>3, <3>3 DEF MapResult
      <4>2. k[1] = 1 \/ k[1] > 1
        BY PageOfKey DEF Levels
      <4> QED
        BY <3>2, <3>3, <4>1, <4>2 DEF Leaves, IsPage
    <3>4. CASE e # k \/ r.res # "ok"
      <4>1. entry[v][e].flags \subseteq r.entry[e].flags
        BY <2>3, <3>1, <3>4 DEF MapResult
      <4> QED
        BY <3>1, <3>2, <4>1 DEF Leaves, IsPage
    <3> QED
      BY <3>3, <3>4
  <2>5. CASE w = v
    BY <2>3, <2>4, <2>5
  <2>6. CASE w # v
    BY <2>3, <2>6
  <2> QED
    BY <2>5, <2>6
<1>2. CASE \A k \in DOMAIN entry[w] :
              k[1] # 1 => k \in DOMAIN entry'[w] /\ entry'[w][k] = entry[w][k]
  <2>1. ASSUME NEW e \in Leaves(entry[w]), e[1] # 1 PROVE e \in Leaves(entry'[w])
    <3>1. e \in DOMAIN entry[w] /\ PTE_PAGE_SIZE \in entry[w][e].flags
      BY <2>1 DEF Leaves, IsPage
    <3>2. e \in DOMAIN entry'[w] /\ entry'[w][e] = entry[w][e]
      BY <1>2, <2>1, <3>1
    <3> QED
      BY <3>1, <3>2 DEF Leaves, IsPage
  <2>2. Kernel1gb[1] # 1 /\ Kernel2mb[1] # 1
    BY FixedKeys
  <2> QED
    BY <2>1, <2>2
<1> QED
  BY <1>1, <1>2

\* setup_vmem maps the kernel, or the kernel stops.
LEMMA SetupMapped ==
    ASSUME Types, setup_vmem, panic' = "no"
    PROVE  /\ setup = 1 => Kernel1gb \in Leaves(entry'[INIT])
           /\ setup = 2 => Kernel2mb \in Leaves(entry'[INIT])
<1>1. setup \in 1 .. 3 /\ DOMAIN entry = Space
  BY DEF setup_vmem, Types
<1>2. PICK page : page = SetupPages[setup]
  OBVIOUS
<1>3. PICK r : r = map_page(entry[INIT], free, page.key, STATIC, page.flags)
  OBVIOUS
<1>4. /\ entry' = [entry EXCEPT ![INIT] = r.entry]
      /\ panic' = IF r.res = "ok" THEN panic ELSE "init task"
  BY <1>2, <1>3, Zenon DEF setup_vmem
<1>5. page.key \in Keys /\ (setup \in {1, 2} => page.key[1] > 1)
  BY <1>1, <1>2, FixedKeys DEF SetupPages
<1>6. r.res = "ok" /\ entry'[INIT] = r.entry
  BY <1>1, <1>4, Numbers
<1>7. MapResult(entry[INIT], free, page.key, STATIC, page.flags, r)
  BY <1>3, <1>5, FreeFinite, MapPage
<1>8. ASSUME setup \in {1, 2} PROVE page.key \in Leaves(r.entry)
  <2>1. page.key \in DOMAIN r.entry
    BY <1>6, <1>7 DEF MapResult
  <2>2. r.entry[page.key].flags = vmem_convert_flags(page.flags) \cup {PTE_PRESENT}
                                    \cup (IF page.key[1] > 1 THEN {PTE_PAGE_SIZE} ELSE {})
    BY <1>6, <1>7 DEF MapResult
  <2>3. PTE_PAGE_SIZE \in r.entry[page.key].flags
    BY <1>5, <1>8, <2>2
  <2> QED
    BY <2>1, <2>3 DEF Leaves, IsPage
<1>9. (setup = 1 => page.key = Kernel1gb) /\ (setup = 2 => page.key = Kernel2mb)
  BY <1>2 DEF SetupPages
<1> QED
  BY <1>6, <1>8, <1>9

\* CR3 holds a complete space, or the scheduler's.
LEMMA CurMapped ==
    ASSUME Types, Life, Kernel
    PROVE  /\ cur = SCHED => setup = 7
           /\ cur = SCHED \/ Mapped(entry[cur])
           /\ SCHED \notin failed => Mapped(entry[cur])
<1>1. cur \in Space /\ setup \in 0 .. 7
  BY DEF Types
<1>2. CASE setup \in 0 .. 6
  <2>1. cur = BOOT
    BY <1>2 DEF Life
  <2> QED
    BY <2>1, Numbers DEF Kernel
<1>3. CASE setup = 7
  <2>1. cur = BOOT \/ cur = SCHED \/ cur >= INIT
    BY <1>1, Numbers DEF Space, BOOT, SCHED, INIT
  <2>2. cur >= INIT => Task(cur)
    BY DEF Life, Task, Exists
  <2>3. (cur = SCHED \/ Complete(cur)) /\ (SCHED \notin failed => Complete(cur))
    BY <2>1, <2>2 DEF Complete
  <2> QED
    BY <1>1, <1>3, <2>3 DEF Kernel
<1> QED
  BY <1>1, <1>2, <1>3

\* The init task is the only one before sched_start, and it maps the kernel.
LEMMA TasksMapped ==
    ASSUME Types, Life, Kernel, panic = "no", setup \in 0 .. 5 => FALSE, NEW v \in Space, Task(v)
    PROVE  Mapped(entry[v])
<1>1. setup = 6 \/ setup = 7
  BY DEF Types
<1>2. CASE setup = 7
  BY <1>2 DEF Kernel, Complete
<1>3. CASE setup = 6
  <2>1. v = INIT
    BY <1>3 DEF Kernel, Task, Exists
  <2>2. setup \in 2 .. 6 /\ setup \in 3 .. 6
    BY <1>3
  <2> QED
    BY <2>1, <2>2 DEF Kernel, Mapped
<1> QED
  BY <1>1, <1>2, <1>3

\* After sched_start it is enough that a complete space was complete before, and
\* that the step has kept its large pages.
LEMMA KernelKept ==
    ASSUME Kernel, setup = 7, setup' = 7,
           \A w \in Space : Complete(w)' =>
               Complete(w) /\ (Mapped(entry[w]) => Mapped(entry'[w])),
           job'[BOOT] = NONE, \A w \in Space : job'[w] # SCHED
    PROVE  Kernel'
<1>1. \A w \in Space : Complete(w)' => Mapped(entry'[w])
  BY DEF Kernel
<1>2. Complete(BOOT)'
  BY DEF Complete
<1>3. Mapped(entry'[BOOT])
  BY <1>1, <1>2, Numbers
<1> QED
  BY <1>1, <1>3 DEF Kernel

\* Before that, the steps that leave the entries alone, or those of another space.
LEMMA KernelSame ==
    ASSUME Types, Kernel, setup # 7, setup' # 7,
           NEW v \in Space, v # BOOT, v # INIT,
           MapStep(v) \/ \A w \in Space : w # v => entry'[w] = entry[w],
           setup' = setup \/ (setup \in 4 .. 5 /\ setup' = setup + 1),
           panic' = "no" => panic = "no", \A w \in Space : w # v => root'[w] = root[w],
           ~ (v >= INIT), job'[BOOT] = NONE, \A w \in Space : job'[w] # SCHED
    PROVE  Kernel'
<1>1. \A w \in Space : w # v =>
         /\ Kernel1gb \in Leaves(entry[w]) => Kernel1gb \in Leaves(entry'[w])
         /\ Kernel2mb \in Leaves(entry[w]) => Kernel2mb \in Leaves(entry'[w])
  BY LeavesKept
<1>2. Mapped(entry'[BOOT])
  BY <1>1, Numbers DEF Kernel, Mapped
<1>3. setup \in 0 .. 7
  BY DEF Types
<1>4. /\ setup' \in 2 .. 6 => setup \in 2 .. 6
      /\ setup' \in 3 .. 6 => setup \in 3 .. 6
      /\ setup' \in 0 .. 6 => setup \in 0 .. 6
  BY <1>3
<1>5. setup' \in 0 .. 6 => \A w \in Space : w >= INIT /\ w # INIT => root'[w] = NONE
  BY <1>4 DEF Kernel
<1> QED
  BY <1>1, <1>2, <1>4, <1>5, Numbers DEF Kernel

LEMMA KernelStep ==
    ASSUME Types, Life, Kernel, [Next]_vars
    PROVE  Kernel'
<1>0. /\ setup \in 0 .. 7 /\ cur \in Space /\ DOMAIN entry = Space
      /\ root \in [Space -> Frame \cup {STATIC, NONE}] /\ job \in [Space -> Space \cup {NONE}]
      /\ job[BOOT] = NONE /\ \A w \in Space : job[w] # SCHED
  BY DEF Types, Kernel
<1>1. ASSUME NEW v \in Space, vmem_init(v)
      PROVE  \A w \in Space : w # v => entry'[w] = entry[w] /\ root'[w] = root[w]
  BY <1>0, <1>1 DEF vmem_init
<1>2. CASE SetupInit
  <2>1. /\ UNCHANGED job /\ setup = 0 /\ setup' \in {0, 1} /\ panic = "no"
        /\ vmem_init(INIT) \/ UNCHANGED <<root, entry>>
    BY <1>2 DEF SetupInit, Running
  <2>2. \A w \in Space : w # INIT => entry'[w] = entry[w] /\ root'[w] = root[w]
    BY <1>1, <2>1, Numbers
  <2>3. Mapped(entry'[BOOT])
    BY <2>2, Numbers DEF Kernel
  <2>4. \A v \in Space : v >= INIT /\ v # INIT => root'[v] = NONE
    BY <2>1, <2>2 DEF Kernel
  <2> QED
    BY <1>0, <2>1, <2>3, <2>4 DEF Kernel
<1>3. CASE setup_vmem
  <2>1. UNCHANGED job /\ setup \in 1 .. 3 /\ setup' = setup + 1 /\ panic = "no"
    BY <1>3 DEF setup_vmem, Running
  <2>2. MapStep(INIT)
    BY <1>3, SetupMaps
  <2>3. \A w \in Space :
           /\ Kernel1gb \in Leaves(entry[w]) => Kernel1gb \in Leaves(entry'[w])
           /\ Kernel2mb \in Leaves(entry[w]) => Kernel2mb \in Leaves(entry'[w])
    BY <2>2, LeavesKept, Numbers
  <2>4. Mapped(entry'[BOOT])
    BY <2>3, Numbers DEF Kernel, Mapped
  <2>5. ASSUME panic' = "no", setup' \in 2 .. 6 PROVE Kernel1gb \in Leaves(entry'[INIT])
    <3>1. CASE setup = 1
      BY <1>3, <2>5, <3>1, SetupMapped
    <3>2. CASE setup \in 2 .. 3
      <4>1. setup \in 2 .. 6
        BY <3>2
      <4> QED
        BY <2>1, <2>3, <4>1, Numbers DEF Kernel
    <3> QED
      BY <2>1, <3>1, <3>2
  <2>6. ASSUME panic' = "no", setup' \in 3 .. 6 PROVE Kernel2mb \in Leaves(entry'[INIT])
    <3>1. CASE setup = 2
      BY <1>3, <2>6, <3>1, SetupMapped
    <3>2. CASE setup = 3
      <4>1. setup \in 3 .. 6
        BY <3>2
      <4> QED
        BY <2>1, <2>3, <4>1, Numbers DEF Kernel
    <3> QED
      BY <2>1, <2>6, <3>1, <3>2
  <2>7. setup' # 7 /\ setup \in 0 .. 6
    BY <2>1
  <2>8. root' = root
    BY <2>2 DEF MapStep
  <2> QED
    BY <1>0, <2>1, <2>4, <2>5, <2>6, <2>7, <2>8 DEF Kernel
<1>4. CASE SetupStack \/ SetupThread
  <2>1. /\ UNCHANGED <<root, entry, job>> /\ setup \in 4 .. 5 /\ panic = "no"
        /\ setup' = setup \/ setup' = setup + 1
    <3>1. CASE SetupStack
      BY <3>1 DEF SetupStack, Running
    <3>2. CASE SetupThread
      <4>1. setup = 5 /\ setup' \in {setup, 6} /\ UNCHANGED <<root, entry, job>> /\ panic = "no"
        BY <3>2 DEF SetupThread, Running
      <4> QED
        BY <4>1
    <3> QED
      BY <1>4, <3>1, <3>2
  <2>2. setup # 7 /\ setup' # 7
    BY <2>1
  <2> QED
    BY <1>0, <2>1, <2>2, KernelSame, Numbers
<1>5. CASE SetupSched
  <2>1. setup = 6 /\ panic = "no" /\ cur = BOOT
    BY <1>0, <1>5 DEF SetupSched, Running, Life
  <2>2. CASE vmem_init(SCHED) /\ job' = [job EXCEPT ![SCHED] = BOOT] /\ setup' = setup
    <3>1. \A w \in Space : w # SCHED => entry'[w] = entry[w] /\ root'[w] = root[w]
      BY <1>1, <2>2, Numbers
    <3>2. job'[BOOT] = NONE /\ \A w \in Space : job'[w] # SCHED
      BY <1>0, <2>2, Numbers
    <3>3. setup # 7 /\ setup' # 7
      BY <2>1, <2>2
    <3> QED
      BY <2>1, <2>2, <3>1, <3>2, <3>3, KernelSame, Numbers
  <2>3. CASE UNCHANGED <<entry, job, root>> /\ setup' = 7 /\ failed' = {SCHED}
    <3>1. ASSUME NEW w \in Space, Complete(w)' PROVE Mapped(entry'[w])
      <4>1. w = BOOT \/ Task(w)
        BY <2>3, <3>1 DEF Complete, Task, Exists
      <4>2. Mapped(entry[w])
        BY <2>1, <4>1, TasksMapped DEF Kernel
      <4> QED
        BY <2>3, <4>2
    <3>2. Mapped(entry'[BOOT])
      BY <2>3 DEF Kernel
    <3> QED
      BY <1>0, <2>3, <3>1, <3>2 DEF Kernel
  <2> QED
    BY <1>5, <2>2, <2>3 DEF SetupSched
<1>6. CASE SetupSchedFail
  <2>1. /\ UNCHANGED root /\ job[SCHED] = cur /\ setup' = 7 /\ panic = "no"
        /\ job' = [job EXCEPT ![SCHED] = NONE] /\ failed' = failed \cup {SCHED}
    BY <1>6 DEF SetupSchedFail, Running
  <2>2. setup \in 0 .. 5 => FALSE
    BY <1>0, <2>1, Numbers DEF Life
  <2>3. /\ job'[BOOT] = NONE /\ \A w \in Space : job'[w] # SCHED
        /\ \A w \in Space : w # SCHED => job'[w] = job[w]
    BY <1>0, <2>1, Numbers
  <2>4. \A w \in Space : Mapped(entry[w]) => Mapped(entry'[w])
    BY <1>6, SchedFailMaps, LeavesKept, Numbers DEF Mapped
  <2>5. ASSUME NEW w \in Space, Complete(w)' PROVE Mapped(entry'[w])
    <3>1. w = BOOT \/ (w >= INIT /\ root[w] # NONE /\ job[w] = NONE)
      BY <2>1, <2>3, <2>5, Numbers DEF Complete, Task, Exists
    <3>2. Mapped(entry[w])
      BY <2>1, <2>2, <3>1, TasksMapped DEF Kernel, Task, Exists
    <3> QED
      BY <2>4, <3>2
  <2>6. Mapped(entry'[BOOT])
    BY <2>4, Numbers DEF Kernel
  <2> QED
    BY <2>1, <2>3, <2>5, <2>6 DEF Kernel
<1>7. ASSUME NEW v \in Space, vmem_clone(v) PROVE Kernel'
  <2>1. /\ setup = 7 /\ setup' = 7 /\ vmem_init(v) /\ cur >= INIT /\ v >= INIT
        /\ job' = [job EXCEPT ![v] = cur] /\ failed' = failed
    BY <1>7 DEF vmem_clone, Booted
  <2>2. \A w \in Space : w # v => entry'[w] = entry[w] /\ root'[w] = root[w]
    BY <1>1, <2>1
  <2>3. /\ job'[BOOT] = NONE /\ \A w \in Space : job'[w] # SCHED
        /\ job'[v] # NONE /\ \A w \in Space : w # v => job'[w] = job[w]
    BY <1>0, <2>1, Numbers
  <2>4. ASSUME NEW w \in Space, Complete(w)'
        PROVE  Complete(w) /\ (Mapped(entry[w]) => Mapped(entry'[w]))
    <3>1. w # v
      BY <2>1, <2>3, <2>4, Numbers DEF Complete, Task
    <3> QED
      BY <2>1, <2>2, <2>3, <2>4, <3>1 DEF Complete, Task, Exists
  <2> QED
    BY <2>1, <2>3, <2>4, KernelKept
<1>8. ASSUME NEW v \in Space, CloneStep(v) PROVE Kernel'
  <2>1. UNCHANGED <<root, job, setup, failed>> /\ job[v] = cur /\ panic = "no"
    BY <1>8 DEF CloneStep, Running
  <2>2. MapStep(v)
    BY <1>8, CloneMaps
  <2>3. CASE setup = 7
    <3>1. ASSUME NEW w \in Space, Complete(w)'
          PROVE  Complete(w) /\ (Mapped(entry[w]) => Mapped(entry'[w]))
      <4>1. Mapped(entry[w]) => Mapped(entry'[w])
        BY <2>2, LeavesKept DEF Mapped
      <4> QED
        BY <2>1, <3>1, <4>1 DEF Complete, Task, Exists
    <3> QED
      BY <1>0, <2>1, <2>3, <3>1, KernelKept
  <2>4. CASE setup # 7
    <3>1. v = SCHED
      <4>1. setup \in 0 .. 6
        BY <1>0, <2>4
      <4> QED
        BY <1>0, <2>1, <4>1, Numbers DEF Life
    <3>2. \A w \in Space : w # SCHED => root'[w] = root[w]
      BY <2>1
    <3> QED
      BY <1>0, <2>1, <2>2, <2>4, <3>1, <3>2, KernelSame, Numbers
  <2> QED
    BY <2>3, <2>4
<1>9. ASSUME NEW v \in Space, CloneDone(v) PROVE Kernel'
  <2>1. /\ UNCHANGED <<root, entry, cur, failed>> /\ job[v] = cur /\ panic = "no"
        /\ job' = [job EXCEPT ![v] = NONE] /\ ToClone(v) = {}
        /\ (v = SCHED /\ setup' = 7) \/ (v # SCHED /\ setup' = setup)
    BY <1>9 DEF CloneDone, Running
  <2>2. setup \in 0 .. 5 => FALSE
    BY <1>0, <2>1, Numbers DEF Life
  <2>3. setup' = 7
    <3>1. v # SCHED => setup \notin 0 .. 6
      BY <1>0, <2>1, Numbers DEF Life
    <3> QED
      BY <1>0, <2>1, <3>1
  <2>4. /\ job'[BOOT] = NONE /\ \A w \in Space : job'[w] # SCHED
        /\ \A w \in Space : w # v => job'[w] = job[w]
    BY <1>0, <2>1, Numbers
  <2>5. Mapped(entry[v])
    <3>1. Mapped(entry[cur])
      BY <1>0, <2>1, CurMapped
    <3>2. Leaves(entry[cur]) \subseteq Leaves(entry[v])
      BY <2>1 DEF ToClone
    <3> QED
      BY <3>1, <3>2 DEF Mapped
  <2>6. ASSUME NEW w \in Space, Complete(w)' PROVE Mapped(entry[w])
    <3>1. CASE w = v
      BY <2>5, <3>1
    <3>2. CASE w # v /\ (w = BOOT \/ Task(w))
      BY <2>1, <2>2, <3>2, TasksMapped DEF Kernel
    <3>3. CASE w # v /\ w = SCHED /\ SCHED \notin failed
      <4>1. setup = 7
        BY <2>1, <2>3, <3>3
      <4> QED
        BY <3>3, <4>1 DEF Kernel, Complete
    <3> QED
      BY <2>1, <2>4, <2>6, <3>1, <3>2, <3>3 DEF Complete, Task, Exists
  <2> QED
    BY <2>1, <2>3, <2>4, <2>6 DEF Kernel
<1>10. ASSUME NEW v \in Space, ForkFail(v) PROVE Kernel'
  <2>1. /\ UNCHANGED <<cur, setup>> /\ job[v] = cur /\ v # SCHED /\ failed' = failed \cup {v}
        /\ job' = [job EXCEPT ![v] = NONE]
        /\ root' = [root EXCEPT ![v] = NONE] /\ entry' = [entry EXCEPT ![v] = <<>>]
    BY <1>10 DEF ForkFail
  <2>2. setup = 7 /\ v # BOOT
    <3>1. setup \notin 0 .. 6
      BY <1>0, <2>1, Numbers DEF Life
    <3> QED
      BY <1>0, <2>1, <3>1, Numbers
  <2>3. /\ job'[BOOT] = NONE /\ \A w \in Space : job'[w] # SCHED
        /\ root'[v] = NONE
        /\ \A w \in Space : w # v => job'[w] = job[w] /\ root'[w] = root[w] /\ entry'[w] = entry[w]
    BY <1>0, <2>1, <2>2, Numbers
  <2>4. ASSUME NEW w \in Space, Complete(w)'
        PROVE  Complete(w) /\ (Mapped(entry[w]) => Mapped(entry'[w]))
    <3>1. w # v
      BY <2>1, <2>2, <2>3, <2>4 DEF Complete, Task, Exists
    <3> QED
      BY <2>1, <2>3, <2>4, <3>1 DEF Complete, Task, Exists
  <2> QED
    BY <2>1, <2>2, <2>3, <2>4, KernelKept
<1>11. ASSUME NEW v \in Space, vmem_destroy(v) PROVE Kernel'
  <2>1. /\ UNCHANGED <<job, setup, failed>> /\ cur = SCHED /\ v >= INIT
        /\ root' = [root EXCEPT ![v] = NONE] /\ entry' = [entry EXCEPT ![v] = <<>>]
    BY <1>11 DEF vmem_destroy, Task
  <2>2. setup = 7
    BY <2>1, CurMapped
  <2>3. /\ root'[v] = NONE
        /\ \A w \in Space : w # v => root'[w] = root[w] /\ entry'[w] = entry[w]
    BY <1>0, <2>1
  <2>4. ASSUME NEW w \in Space, Complete(w)'
        PROVE  Complete(w) /\ (Mapped(entry[w]) => Mapped(entry'[w]))
    <3>1. w # v
      BY <2>1, <2>3, <2>4, Numbers DEF Complete, Task, Exists
    <3> QED
      BY <2>1, <2>3, <2>4, <3>1 DEF Complete, Task, Exists
  <2> QED
    BY <1>0, <2>1, <2>2, <2>4, KernelKept
<1>12. ASSUME NEW v \in Space, vmem_free_pages(v) PROVE Kernel'
  <2>1. UNCHANGED <<job, setup, failed, root>> /\ setup = 7
    BY <1>12 DEF vmem_free_pages, Booted
  <2>2. ASSUME NEW w \in Space PROVE Mapped(entry[w]) => Mapped(entry'[w])
    <3>1. \A k \in DOMAIN entry[w] : k[1] # 1 => k \in DOMAIN entry'[w] /\ entry'[w][k] = entry[w][k]
      BY <1>12, FreePages DEF Unmapped
    <3> QED
      BY <3>1, LeavesKept DEF Mapped
  <2>3. ASSUME NEW w \in Space, Complete(w)'
        PROVE  Complete(w) /\ (Mapped(entry[w]) => Mapped(entry'[w]))
    BY <2>1, <2>2, <2>3 DEF Complete, Task, Exists
  <2> QED
    BY <1>0, <2>1, <2>3, KernelKept
<1>13. ASSUME NEW a \in UserPages, vmem_handle_pf(a) PROVE Kernel'
  <2>1. UNCHANGED <<job, setup, failed, root>> /\ setup = 7
    BY <1>13 DEF vmem_handle_pf, Booted
  <2>2. ASSUME NEW w \in Space PROVE Mapped(entry[w]) => Mapped(entry'[w])
    BY <1>13, FaultMaps, LeavesKept DEF Mapped
  <2>3. ASSUME NEW w \in Space, Complete(w)'
        PROVE  Complete(w) /\ (Mapped(entry[w]) => Mapped(entry'[w]))
    BY <2>1, <2>2, <2>3 DEF Complete, Task, Exists
  <2> QED
    BY <1>0, <2>1, <2>3, KernelKept
<1>14. ASSUME UNCHANGED <<job, setup, failed, root, entry>>, panic' = "no" => panic = "no"
       PROVE  Kernel'
  BY <1>14 DEF Kernel, Complete, Task, Exists
<1>15. ASSUME NEW v \in Space, vmem_switch_to(v) \/ vmem_alloc_pages(v) PROVE Kernel'
  BY <1>14, <1>15 DEF vmem_switch_to, vmem_alloc_pages, Running
<1>16. ASSUME NEW a \in UserPages, FaultOutside(a) PROVE Kernel'
  BY <1>14, <1>16 DEF FaultOutside, Running
<1>17. CASE UNCHANGED vars
  BY <1>14, <1>17 DEF vars
<1> QED
  BY <1>2, <1>3, <1>4, <1>5, <1>6, <1>7, <1>8, <1>9, <1>10, <1>11, <1>12, <1>13, <1>15, <1>16,
     <1>17 DEF Next, Boot

\* Every address space that CR3 is loaded with maps the kernel, whatever clones of
\* tasks run out of memory: a clone is switched to only after every page of its
\* source is in it, and its source maps the kernel.  The scheduler's own space is
\* the exception that sched_start makes when vmem_init_from_current fails.
THEOREM VmemKernelMapped == Spec => []KernelMapped
<1> DEFINE IInv == Types /\ Exclusive /\ Life /\ Kernel
<1>1. Init => IInv
  <2> SUFFICES ASSUME Init PROVE Kernel
    BY InitOwned, LifeInit
  <2>1. /\ entry[BOOT] = BootEntries /\ setup = 0 /\ \A v \in Space : job[v] = NONE
        /\ \A v \in Space : v # BOOT => root[v] = NONE
    BY Numbers DEF Init
  <2>2. Mapped(entry[BOOT])
    BY <2>1, BootTables DEF Mapped
  <2> QED
    BY <2>1, <2>2, Numbers DEF Kernel
<1>2. IInv /\ [Next]_vars => IInv'
  BY OwnedNext, LifeStep, KernelStep
<1>3. IInv => KernelMapped
  BY CurMapped DEF KernelMapped, Mapped, Leaves
<1> QED
  BY <1>1, <1>2, <1>3, PTL DEF Spec
=============================================================================
