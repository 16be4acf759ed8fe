------------------------------ MODULE AreaList ------------------------------
(***************************************************************************)
(* The areas of address spaces in memory: the object allocator (mm/obj.c)  *)
(* that vmem_area_t objects come from, and the lists that mm/vmem.c links  *)
(* them into (utils/list.c).  The first word of an area object is both the *)
(* next of its list node and, while it is free, the allocator's link.      *)
(*                                                                         *)
(* A caller is a kernel path inside one of vmem_init, vmem_alloc_pages,    *)
(* vmem_free_pages, vmem_clone and vmem_destroy.  One CPU: a caller runs   *)
(* while every other is stopped at a point of SwitchPoints.  The code runs *)
(* with interrupts enabled and excludes none; the smaller sets say which   *)
(* preemptions the allocator survives.                                     *)
(***************************************************************************)
EXTENDS List, Sequences, FiniteSets

CONSTANTS
    Vm,            \* vmem_t structures
    Areas,         \* bound: records start (in pages), size (in pages), flags
    PAGE_SIZE,     \* bytes in a page, scaled down
    PerPage,       \* objects that fit into a page
    MaxPages,      \* bound: pages the frame allocator has left
    Callers,       \* kernel paths that may be inside the operations
    SwitchPoints   \* points at which another caller may get the CPU

Point == {"idle", "alloc_test", "alloc_refill", "alloc_read", "alloc_pop", "init_list", "area_link",
          "clone_next", "clone_link", "free_obj",
          "destroy_next", "destroy_free", "destroy_head", "panic"}

NoVm == "no vm"

ASSUME AreaAssumption ==
    /\ PAGE_SIZE \in Nat \ {0} /\ PerPage \in Nat \ {0} /\ MaxPages \in Nat
    /\ Areas \subseteq [start : Nat, size : Nat \ {0}, flags : STRING]
    /\ "idle" \in SwitchPoints /\ SwitchPoints \subseteq Point
    /\ {NoVm, "free"} \cap (Vm \cup Callers) = {} /\ Vm \cap Callers = {}

Object == 1 .. PerPage * MaxPages
NULL == 0

VARIABLES
    mem,        \* the next and prev words of the objects
    area,       \* start, size and flags of the objects
    next_free,  \* vmem_area_alloc.next_free
    pages,      \* pages requested by the allocator so far
    head,       \* vm->areas_list
    status,     \* of a vmem_t: "none", "new" (being built), "live", "dying"
    call        \* a caller's point and locals

heapVars == <<mem, area, next_free, pages>>
spaceVars == <<head, status>>
vars == <<mem, area, next_free, pages, head, status, call>>

NoArea == [start |-> 0, size |-> 1, flags |-> ""]

\* The point reached, where object_alloc returns to, the vmem_t worked on and
\* the one cloned, the area asked for, area_node or to_pop; no object allocated.
Frame(point, return, v, s, want, n) ==
    [pc |-> point, ret |-> return, vm |-> v, src |-> s, want |-> want, node |-> n, obj |-> NULL]

Idle == Frame("idle", "idle", NoVm, NoVm, NoArea, NULL)

Init ==
    /\ mem = [next |-> [o \in Object |-> NULL], prev |-> [o \in Object |-> NULL]]
    /\ area = [o \in Object |-> NoArea]
    /\ next_free = NULL
    /\ pages = 0
    /\ head = [v \in Vm |-> NULL]
    /\ status = [v \in Vm |-> "none"]
    /\ call = [c \in Callers |-> Idle]

\* c executes from this point: the others are stopped where they may be.
At(c, point) ==
    /\ call[c].pc = point
    /\ \A d \in Callers \ {c} : call[d].pc \in SwitchPoints

Goto(c, point) == call' = [call EXCEPT ![c].pc = point]

Return(c) == call' = [call EXCEPT ![c] = Idle]

\* No other caller works on v: an address space belongs to one task, and the
\* scheduler destroys it when that task is dead.
Unused(v) == \A c \in Callers : v \notin {call[c].vm, call[c].src}

-----------------------------------------------------------------------------
(***************************************************************************)
(* object_alloc and object_free.                                           *)
(***************************************************************************)

CallAlloc(c, return, v, s, want, n) ==
    call' = [call EXCEPT ![c] = Frame("alloc_test", return, v, s, want, n)]

\* The links that the refill loop writes through page number q; next_free is
\* left at the last object of the page.
Refill(q) ==
    [o \in Object |-> IF o \in (q - 1) * PerPage + 1 .. q * PerPage
                      THEN IF o = (q - 1) * PerPage + 1 THEN NULL ELSE o - 1
                      ELSE mem.next[o]]

\* Mutant: the refill loop writes one object more than fits.
LastOf_Past(q) == q * PerPage + 1

LastOf(q) == q * PerPage

AllocTest(c) ==
    /\ At(c, "alloc_test")
    /\ Goto(c, IF next_free = NULL THEN "alloc_refill" ELSE "alloc_read")
    /\ UNCHANGED <<heapVars, spaceVars>>

\* A page is requested and its objects replace the list, even one that another
\* caller has made since the test: those objects are lost.  A NULL from
\* frame_alloc is used as a page: a page fault outside every area, and a panic.
AllocRefill(c) ==
    /\ At(c, "alloc_refill")
    /\ \/ /\ pages < MaxPages
          /\ pages' = pages + 1
          /\ mem' = [next |-> Refill(pages + 1), prev |-> mem.prev]
          /\ next_free' = LastOf(pages + 1)
          /\ Goto(c, "alloc_read")
          /\ UNCHANGED area
       \/ /\ pages = MaxPages
          /\ Goto(c, "panic")
          /\ UNCHANGED heapVars
    /\ UNCHANGED spaceVars

AllocRead(c) ==
    /\ At(c, "alloc_read")
    /\ call' = [call EXCEPT ![c].obj = next_free, ![c].pc = "alloc_pop"]
    /\ UNCHANGED <<heapVars, spaceVars>>

\* Mutant: next_free is not advanced.
AllocPop_Stays(c) ==
    /\ At(c, "alloc_pop")
    /\ Goto(c, call[c].ret)
    /\ UNCHANGED <<heapVars, spaceVars>>

\* next_free is read again and advances to the word it points to; a NULL, left
\* by a caller that took the last object meanwhile, is a page fault.
AllocPop(c) ==
    /\ At(c, "alloc_pop")
    /\ \/ /\ next_free # NULL
          /\ next_free' = mem.next[next_free]
          /\ Goto(c, call[c].ret)
       \/ /\ next_free = NULL
          /\ Goto(c, "panic")
          /\ UNCHANGED next_free
    /\ UNCHANGED <<mem, area, pages, spaceVars>>

\* object_free: the object's link is cleared, not pointed to the old list.  Its
\* other words are written again before they are read, and forgotten here.
ObjectFree(o) ==
    /\ mem' = [next |-> [mem.next EXCEPT ![o] = NULL], prev |-> [mem.prev EXCEPT ![o] = NULL]]
    /\ area' = [area EXCEPT ![o] = NoArea]
    /\ next_free' = o
    /\ UNCHANGED pages

-----------------------------------------------------------------------------
(***************************************************************************)
(* vmem_init and vmem_clone.                                               *)
(***************************************************************************)

InitCall(c) ==
    /\ At(c, "idle")
    /\ \E v \in Vm :
          /\ status[v] = "none" /\ Unused(v)
          /\ status' = [status EXCEPT ![v] = "new"]
          /\ CallAlloc(c, "init_list", v, NoVm, NoArea, NULL)
    /\ UNCHANGED <<heapVars, head>>

CloneCall(c) ==
    /\ At(c, "idle")
    /\ \E s, v \in Vm :
          /\ status[s] = "live" /\ Unused(s)
          /\ status[v] = "none" /\ Unused(v)
          /\ status' = [status EXCEPT ![v] = "new"]
          /\ CallAlloc(c, "init_list", v, s, NoArea, NULL)
    /\ UNCHANGED <<heapVars, head>>

\* The loop of vmem_clone looks at area n of s.
CloneAt(c, v, s, n) ==
    call' = [call EXCEPT ![c] = Frame("clone_next", "idle", v, s, NoArea, n)]

\* The list head is initialized; vmem_init ends here, vmem_clone goes on.
InitList(c) ==
    /\ At(c, "init_list")
    /\ LET v == call[c].vm  s == call[c].src  o == call[c].obj IN
       /\ mem' = ListInit(mem, o)
       /\ head' = [head EXCEPT ![v] = o]
       /\ \/ /\ s = NoVm
             /\ status' = [status EXCEPT ![v] = "live"]
             /\ Return(c)
          \/ /\ s # NoVm
             /\ CloneAt(c, v, s, mem.next[head[s]])
             /\ UNCHANGED status
    /\ UNCHANGED <<area, next_free, pages>>

CloneNext(c) ==
    /\ At(c, "clone_next")
    /\ call[c].node # head[call[c].src]
    /\ CallAlloc(c, "clone_link", call[c].vm, call[c].src, NoArea, call[c].node)
    /\ UNCHANGED <<heapVars, spaceVars>>

\* The loop has come back to the head and vmem_clone_pages has copied the
\* pages, or has failed: what the copy holds by then is never freed.
CloneEnd(c) ==
    /\ At(c, "clone_next")
    /\ call[c].node = head[call[c].src]
    /\ \/ /\ status' = [status EXCEPT ![call[c].vm] = "live"]
          /\ UNCHANGED head
       \/ /\ status' = [status EXCEPT ![call[c].vm] = "none"]
          /\ head' = [head EXCEPT ![call[c].vm] = NULL]
    /\ Return(c)
    /\ UNCHANGED heapVars

\* Mutant: the copy is linked behind the area it is a copy of.
CloneLink_InSource(c) ==
    /\ At(c, "clone_link")
    /\ LET n == call[c].node  o == call[c].obj IN
       /\ area' = [area EXCEPT ![o] = area[n]]
       /\ mem' = ListInsertAfter(ListInit(mem, o), n, o)
       /\ CloneAt(c, call[c].vm, call[c].src, mem.next[n])
    /\ UNCHANGED <<next_free, pages, spaceVars>>

CloneLink(c) ==
    /\ At(c, "clone_link")
    /\ LET n == call[c].node  o == call[c].obj IN
       /\ area' = [area EXCEPT ![o] = area[n]]
       /\ mem' = ListInsertAfter(ListInit(mem, o), head[call[c].vm], o)
       /\ CloneAt(c, call[c].vm, call[c].src, mem'.next[n])
    /\ UNCHANGED <<next_free, pages, spaceVars>>

-----------------------------------------------------------------------------
(***************************************************************************)
(* vmem_alloc_pages and vmem_free_pages.                                   *)
(***************************************************************************)

\* The nodes from h on, h excluded, up to the one that leads back to h; at
\* most every object, so that a broken list can be walked too.
Walk(h) ==
    LET follow == [o \in Object \cup {NULL} |-> IF o = NULL THEN NULL ELSE mem.next[o]]
        step[k \in 0 .. PerPage * MaxPages] == IF k = 0 THEN h ELSE follow[step[k - 1]]
        length == Cardinality({k \in 1 .. PerPage * MaxPages :
                                  \A j \in 1 .. k : step[j] \notin {h, NULL}})
    IN  [k \in 1 .. length |-> step[k]]

WalkSet(h) == LET w == Walk(h) IN {w[k] : k \in DOMAIN w}

\* The test of vmem_intersects: the size of the new area is not multiplied
\* by the page size.
Overlaps(new, old) ==
    ~ \/ new.start * PAGE_SIZE + new.size <= old.start * PAGE_SIZE
      \/ (old.start + old.size) * PAGE_SIZE <= new.start * PAGE_SIZE

Intersects(v, new) == \E n \in WalkSet(head[v]) : Overlaps(new, area[n])

AllocPagesCall(c) ==
    /\ At(c, "idle")
    /\ \E v \in Vm, a \in Areas :
          /\ status[v] = "live" /\ Unused(v)
          /\ \/ ~ Intersects(v, a) /\ CallAlloc(c, "area_link", v, NoVm, a, NULL)
             \/ Intersects(v, a) /\ Goto(c, "panic")
    /\ UNCHANGED <<heapVars, spaceVars>>

AreaLink(c) ==
    /\ At(c, "area_link")
    /\ area' = [area EXCEPT ![call[c].obj] = call[c].want]
    /\ mem' = ListInsertAfter(ListInit(mem, call[c].obj), head[call[c].vm], call[c].obj)
    /\ Return(c)
    /\ UNCHANGED <<next_free, pages, spaceVars>>

\* Extraction of n by c, which goes on at a point; an empty list is refused
\* by the assertion in list_extract.
Extract(c, v, n, point) ==
    \/ /\ ListEmpty(mem, n)
       /\ Goto(c, "panic")
       /\ UNCHANGED mem
    \/ /\ ~ ListEmpty(mem, n)
       /\ mem' = ListExtract(mem, n)
       /\ call' = [call EXCEPT ![c] = Frame(point, "idle", v, NoVm, NoArea, n)]

\* The first area with this start and this end is taken; no such area is an
\* alloc-free mismatch.
FreePagesCall(c) ==
    /\ At(c, "idle")
    /\ \E v \in Vm, a \in Areas :
          LET w == Walk(head[v])
              hits == {k \in DOMAIN w : area[w[k]].start = a.start /\ area[w[k]].size = a.size}
          IN  /\ status[v] = "live" /\ Unused(v)
              /\ \/ /\ hits = {}
                    /\ Goto(c, "panic")
                    /\ UNCHANGED mem
                 \/ \E k \in hits :
                       /\ \A j \in hits : k <= j
                       /\ Extract(c, v, w[k], "free_obj")
    /\ UNCHANGED <<area, next_free, pages, spaceVars>>

FreeObj(c) ==
    /\ At(c, "free_obj")
    /\ ObjectFree(call[c].node)
    /\ Return(c)
    /\ UNCHANGED spaceVars

-----------------------------------------------------------------------------
(***************************************************************************)
(* vmem_destroy.                                                           *)
(***************************************************************************)

DestroyCall(c) ==
    /\ At(c, "idle")
    /\ \E v \in Vm :
          /\ status[v] = "live" /\ Unused(v)
          /\ status' = [status EXCEPT ![v] = "dying"]
          /\ call' = [call EXCEPT ![c] = Frame("destroy_next", "idle", v, NoVm, NoArea, NULL)]
    /\ UNCHANGED <<heapVars, head>>

DestroyNext(c) ==
    /\ At(c, "destroy_next")
    /\ LET h == head[call[c].vm] IN
       \/ /\ ListEmpty(mem, h)
          /\ Goto(c, "destroy_head")
          /\ UNCHANGED mem
       \/ /\ ~ ListEmpty(mem, h)
          /\ Extract(c, call[c].vm, mem.next[h], "destroy_free")
    /\ UNCHANGED <<area, next_free, pages, spaceVars>>

DestroyFree(c) ==
    /\ At(c, "destroy_free")
    /\ ObjectFree(call[c].node)
    /\ call' = [call EXCEPT ![c] = Frame("destroy_next", "idle", call[c].vm, NoVm, NoArea, NULL)]
    /\ UNCHANGED spaceVars

DestroyHead(c) ==
    /\ At(c, "destroy_head")
    /\ ObjectFree(head[call[c].vm])
    /\ head' = [head EXCEPT ![call[c].vm] = NULL]
    /\ status' = [status EXCEPT ![call[c].vm] = "none"]
    /\ Return(c)

Step(c) ==
    \/ AllocTest(c) \/ AllocRefill(c) \/ AllocRead(c) \/ AllocPop(c)
    \/ InitCall(c) \/ InitList(c)
    \/ CloneCall(c) \/ CloneNext(c) \/ CloneLink(c) \/ CloneEnd(c)
    \/ AllocPagesCall(c) \/ AreaLink(c)
    \/ FreePagesCall(c) \/ FreeObj(c)
    \/ DestroyCall(c) \/ DestroyNext(c) \/ DestroyFree(c) \/ DestroyHead(c)

Next == \E c \in Callers : Step(c)

Spec == Init /\ [][Next]_vars

-----------------------------------------------------------------------------
(***************************************************************************)
(* Properties.                                                             *)
(***************************************************************************)

TypeOK ==
    /\ mem \in [next : [Object -> Object \cup {NULL}], prev : [Object -> Object \cup {NULL}]]
    /\ area \in [Object -> Areas \cup {NoArea}]
    /\ next_free \in Object \cup {NULL}
    /\ pages \in 0 .. MaxPages
    /\ head \in [Vm -> Object \cup {NULL}]
    /\ status \in [Vm -> {"none", "new", "live", "dying"}]
    /\ \A c \in Callers : call[c].pc \in Point /\ call[c].ret \in Point

\* The objects from next_free on.
FreeList == IF next_free = NULL THEN {} ELSE {next_free} \cup WalkSet(next_free)

\* Whoever holds objects: the free list, the list of an address space, a
\* caller that has just got one or is about to free one.
Holds(h) ==
    IF h = "free" THEN FreeList
    ELSE IF h \in Vm THEN IF head[h] = NULL THEN {} ELSE {head[h]} \cup WalkSet(head[h])
    ELSE CASE call[h].pc \in {"init_list", "area_link", "clone_link"} -> {call[h].obj}
           [] call[h].pc \in {"free_obj", "destroy_free"} -> {call[h].node}
           [] OTHER -> {}

\* An object is free, or part of one address space's list, or in the hands of
\* one caller, never two of these: object_alloc hands out nothing that is in
\* use although the word that links free objects is the list node's next.
NoDoubleAlloc ==
    \A g, h \in {"free"} \cup Vm \cup Callers : g # h => Holds(g) \cap Holds(h) = {}

\* The list of every address space is a ring in both directions, whatever
\* other caller was let in (list_insert_after, list_extract).
RingsIntact == \A v \in Vm : head[v] # NULL => WellLinked(mem, Holds(v))

\* What a user of the address spaces sees of this.
AbsAreas ==
    [v \in Vm |->
        IF status[v] # "live" THEN <<>>
        ELSE LET w == Walk(head[v]) IN
             [k \in DOMAIN w |-> area[w[k]]]]

Abs == INSTANCE AreaSpec WITH exists <- {v \in Vm : status[v] = "live"}, areas <- AbsAreas

\* The operations implement sequences of areas: vmem_clone copies every area
\* once, in the opposite order, and no operation changes the areas of an
\* address space it was not called for.
AreasAreSequences == Abs!SSpec

\* "Linked list of free objects": while nobody is inside an operation, every
\* object of the requested pages that no address space uses is on the list.
FreeListed ==
    (\A c \in Callers : call[c].pc = "idle") =>
        UNION {Holds(h) : h \in {"free"} \cup Vm} = 1 .. pages * PerPage
=============================================================================
