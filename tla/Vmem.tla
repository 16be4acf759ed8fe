-------------------------------- MODULE Vmem --------------------------------
(***************************************************************************)
(* Address spaces (mm/vmem.c) and the way the scheduler, fork and the page *)
(* fault handler use them.                                                 *)
(*                                                                         *)
(* A virtual address is a page number.  FANOUT stands for the 512 entries  *)
(* of a table: entry <<l, i>> of level l (1 = PTE ... 4 = PML4E) covers    *)
(* the pages i * Span[l] ... and, when it is not a page itself,            *)
(* points to the table of the entries <<l - 1, i * FANOUT>> ... .  An      *)
(* address space is the function of its present entries, each a frame and  *)
(* a set of flag bits; the bits are those of paging.h and vmem.h, because  *)
(* the two encodings differ.                                               *)
(*                                                                         *)
(* A fork clones its address space with interrupts enabled, one leaf entry *)
(* per step; other tasks run in between.  Boot and page faults do not      *)
(* interleave with anything.  The frame allocator and the object allocator *)
(* are called in whole steps: their own preemption is the subject of       *)
(* FrameAlloc and AreaList.                                                *)
(***************************************************************************)
EXTENDS Integers, FiniteSets, SequencesExt

CONSTANTS
    FANOUT,        \* entries per page table
    FrameCount,    \* frames that there are
    FreeAtBoot,    \* how many of them may be left for address spaces
    MaxVm,         \* address spaces: 0 .. MaxVm
    UserPages,     \* pages that user programs touch
    AreaChoices,   \* areas [start, size, flags] that are requested
    MaxAreas,      \* bound: areas of one address space
    MaxCalls,      \* bound: forks, and areas freed, in a run
    AreaCalls      \* whether areas are allocated and freed after boot

Frame == 1 .. FrameCount
Space == 0 .. MaxVm

BOOT  == 0        \* the page tables of boot.asm and early.c, in CR3 at first
SCHED == 1        \* sched_vmem
INIT  == 2        \* the init task's; the others are those of forked tasks
NONE  == -1

\* Frames that the frame allocator does not manage (kernel image, device
\* memory, static page tables), and VIRT_TO_PHYS(NULL).
STATIC == 0
BOGUS  == -1

\* Bit numbers of vmem.h and of paging.h.
VMEM_USER  == 0
VMEM_WRITE == 1
VMEM_ALLOC == 2
PTE_PRESENT   == 0
PTE_WRITEABLE == 1
PTE_USER      == 2
PTE_PAGE_SIZE == 7
PTE_ALLOC     == 10

PAGE_SIZE == 4096
Levels == 1 .. 4

\* How many pages an entry of each level covers.
Span == <<1, FANOUT, FANOUT * FANOUT, FANOUT * FANOUT * FANOUT>>

\* The entry of level l on the way to page a.
At(a, l) == <<l, a \div Span[l]>>
\* The first page that entry k covers.
PageOf(k) == Span[k[1]] * k[2]

\* One page of each size that the kernel maps for itself, in the upper half,
\* and the page of user code.  The PML4 of boot.asm has an entry for the lower
\* half, whose table is empty since unmap_early.
HIGHER_HALF == Span[4]
Kernel2mb == <<2, HIGHER_HALF \div Span[2]>>
Kernel1gb == <<3, HIGHER_HALF \div Span[3] + 1>>
UserCode  == <<1, 0>>
EarlyLow  == <<4, 0>>

ASSUME VmemAssumption ==
    /\ FANOUT \in Nat \ {0, 1}
    /\ FrameCount \in Nat /\ FreeAtBoot \subseteq 0 .. FrameCount
    /\ MaxVm \in Nat /\ MaxVm >= INIT
    /\ UserPages \subseteq 0 .. HIGHER_HALF - 1
    /\ \A ar \in AreaChoices : ar.start + ar.size <= HIGHER_HALF
    /\ MaxAreas \in Nat /\ MaxCalls \in Nat /\ AreaCalls \in BOOLEAN

VARIABLES
    free,     \* frames the frame allocator has left
    root,     \* vm->pml4, NONE for an address space that does not exist
    kstack,   \* arch_thread.kstack_top of the task that the space belongs to
    entry,    \* entry[v]: the present entries of the page tables
    areas,    \* vm->areas_list, first element first
    cur,      \* curr_vmem, and CR3
    setup,    \* steps of setup_init_task and sched_start that are done
    job,      \* job[v]: the address space v is being cloned from, or NONE
    calls,    \* forks, and areas freed, so far
    mem,      \* frames the frame allocator was given at boot
    failed,   \* history: address spaces whose clone ran out of memory
    panic     \* why the kernel has stopped, or "no"

vars == <<free, root, kstack, entry, areas, cur, setup, job, calls, mem, failed, panic>>

-----------------------------------------------------------------------------
(* Flags *)

vmem_convert_flags(fl) ==
    {b \in {PTE_USER, PTE_WRITEABLE, PTE_ALLOC} :
        \/ b = PTE_USER /\ VMEM_USER \in fl
        \/ b = PTE_WRITEABLE /\ VMEM_WRITE \in fl
        \/ b = PTE_ALLOC /\ VMEM_ALLOC \in fl}

vmem_unconvert_flags(fl) ==
    {b \in {VMEM_USER, VMEM_WRITE, VMEM_ALLOC} :
        \/ b = VMEM_USER /\ PTE_USER \in fl
        \/ b = VMEM_WRITE /\ PTE_WRITEABLE \in fl
        \/ b = VMEM_ALLOC /\ PTE_ALLOC \in fl}

-----------------------------------------------------------------------------
(* Page tables *)

IsPage(ent, k) == k[1] = 1 \/ PTE_PAGE_SIZE \in ent[k].flags
Leaves(ent) == {k \in DOMAIN ent : IsPage(ent, k)}

\* Frames that page tables consist of, and frames marked PTE_ALLOC.
TableFrames(ent) == {ent[k].frame : k \in DOMAIN ent \ Leaves(ent)}
AllocFrames(ent) == {ent[k].frame : k \in {x \in DOMAIN ent :
                                             x[1] = 1 /\ PTE_ALLOC \in ent[x].flags}}

\* The n-th frame that frame_alloc returns from the set fr.
Nth(fr, n) == CHOOSE f \in fr : Cardinality({g \in fr : g < f}) = n - 1

\* Levels whose entry has to be created before entry k can be written.
Missing(ent, k) == {l \in k[1] + 1 .. 4 : At(PageOf(k), l) \notin DOMAIN ent}
\* Those for which the frames fr are enough: the upper ones come first.
Made(ent, fr, k) == {l \in Missing(ent, k) :
                        Cardinality({m \in Missing(ent, k) : m >= l}) <= Cardinality(fr)}
MadeFrame(ent, fr, k, l) == Nth(fr, Cardinality({m \in Missing(ent, k) : m >= l}))

\* Mutant: the flags of a table that is there already are left as they are.
ensure_tables_KeepFlags(ent, fr, k, raw) ==
    LET made == {At(PageOf(k), l) : l \in Made(ent, fr, k)} IN
    [e \in DOMAIN ent \cup made |->
        IF e \in made
        THEN [frame |-> MadeFrame(ent, fr, k, e[1]), flags |-> raw \cup {PTE_PRESENT}]
        ELSE ent[e]]

\* vmem_ensure_next_table from the PML4 down to the table that holds k.
ensure_tables(ent, fr, k, raw) ==
    LET path == {At(PageOf(k), l) : l \in k[1] + 1 .. 4}
        made == {At(PageOf(k), l) : l \in Made(ent, fr, k)}
    IN  [e \in DOMAIN ent \cup made |->
            IF e \in made
            THEN [frame |-> MadeFrame(ent, fr, k, e[1]), flags |-> raw \cup {PTE_PRESENT}]
            ELSE [frame |-> ent[e].frame,
                  flags |-> ent[e].flags \cup (IF e \in path THEN raw ELSE {})]]

\* Mutant: the entry is written without PTE_PRESENT.
map_page_NotPresent(ent, fr, k, frame, fl) ==
    LET raw == vmem_convert_flags(fl)
        tables == ensure_tables(ent, fr, k, raw)
        size == IF k[1] > 1 THEN {PTE_PAGE_SIZE} ELSE {}
    IN  [entry |-> [e \in DOMAIN tables \cup {k} |->
                       IF e = k THEN [frame |-> frame, flags |-> raw \cup size]
                       ELSE tables[e]],
         free  |-> fr \ {MadeFrame(ent, fr, k, l) : l \in Made(ent, fr, k)},
         res   |-> "ok"]

\* vmem_map_page, vmem_map_page_2mb and vmem_map_page_1gb write entry k with the
\* frames fr at their disposal: the entries and frames they leave, and whether
\* they succeed, return -ENOMEM with the tables half made, or fail a kassert.
map_page(ent, fr, k, frame, fl) ==
    LET raw == vmem_convert_flags(fl)
        tables == ensure_tables(ent, fr, k, raw)
        size == IF k[1] > 1 THEN {PTE_PAGE_SIZE} ELSE {}
        ok == Made(ent, fr, k) = Missing(ent, k)
        taken == k \in DOMAIN ent /\ ~ (k[1] = 3 /\ PTE_PAGE_SIZE \in ent[k].flags)
    IN  [entry |-> IF ok /\ ~ taken
                   THEN [e \in DOMAIN tables \cup {k} |->
                           IF e = k THEN [frame |-> frame,
                                          flags |-> raw \cup size \cup {PTE_PRESENT}]
                           ELSE tables[e]]
                   ELSE tables,
         free  |-> fr \ {MadeFrame(ent, fr, k, l) : l \in Made(ent, fr, k)},
         res   |-> IF ~ ok THEN "ENOMEM" ELSE IF taken THEN "kassert" ELSE "ok"]

-----------------------------------------------------------------------------
(* Areas *)

AreaPages(ar) == ar.start .. ar.start + ar.size - 1

\* A search of a list ends at the first hit: a set of at most one.
First(hits) == {n \in hits : \A h \in hits : n <= h}

\* vmem_is_mapped: the first area that holds page a.
vmem_is_mapped(v, a) ==
    {areas[v][n] : n \in First({m \in 1 .. Len(areas[v]) : a \in AreaPages(areas[v][m])})}

\* vmem_intersects: the size of the new area is not multiplied by PAGE_SIZE.
vmem_intersects(v, start, size) ==
    \E n \in 1 .. Len(areas[v]) :
        LET ar == areas[v][n] IN
        ~ \/ start * PAGE_SIZE + size <= ar.start * PAGE_SIZE
          \/ (ar.start + ar.size) * PAGE_SIZE <= start * PAGE_SIZE

-----------------------------------------------------------------------------
(* Spaces *)

Exists(v) == root[v] # NONE
Forking(v) == \E w \in Space : job[w] = v
Task(v) == v >= INIT /\ Exists(v) /\ job[v] = NONE

\* The kernel has not stopped, and CR3 lets the CPU fetch its code.
Running == panic = "no" /\ {Kernel1gb, Kernel2mb} \subseteq DOMAIN entry[cur]

Booted == setup = 7

\* What boot.asm, early_setup_paging and unmap_early leave in CR3.
BootEntries ==
    [k \in {EarlyLow, <<4, 1>>, At(PageOf(Kernel2mb), 3), Kernel1gb, Kernel2mb} |->
        [frame |-> STATIC,
         flags |-> {PTE_PRESENT, PTE_WRITEABLE} \cup
                   (IF k \in {Kernel1gb, Kernel2mb} THEN {PTE_PAGE_SIZE} ELSE {})]]

Init ==
    /\ \E n \in FreeAtBoot : mem = 1 .. n
    /\ free = mem
    /\ root = [v \in Space |-> IF v = BOOT THEN STATIC ELSE NONE]
    /\ kstack = [v \in Space |-> NONE]
    /\ entry = [v \in Space |-> IF v = BOOT THEN BootEntries ELSE <<>>]
    /\ areas = [v \in Space |-> <<>>]
    /\ cur = BOOT
    /\ setup = 0
    /\ job = [v \in Space |-> NONE]
    /\ calls = 0
    /\ failed = {}
    /\ panic = "no"

\* vmem_init, when a frame is left for the PML4.  The head of the areas comes from
\* object_alloc, which now and then takes a frame for itself that it never gives
\* back, or panics (AreaList models it): free and mem do not count those.
vmem_init(v) ==
    /\ free # {}
    /\ root' = [root EXCEPT ![v] = Nth(free, 1)]
    /\ free' = free \ {Nth(free, 1)}
    /\ entry' = [entry EXCEPT ![v] = <<>>]

\* allocate_kstack, when a frame is left.
allocate_kstack(v) ==
    /\ free # {}
    /\ kstack' = [kstack EXCEPT ![v] = Nth(free, 1)]
    /\ free' = free \ {Nth(free, 1)}

-----------------------------------------------------------------------------
(* Boot: setup_init_task, then sched_start up to irq_enable. *)

SetupInit ==
    /\ Running /\ setup = 0
    /\ \/ vmem_init(INIT) /\ setup' = 1 /\ panic' = panic
       \/ free = {} /\ panic' = "init task" /\ UNCHANGED <<free, root, entry, setup>>
    /\ UNCHANGED <<mem, kstack, areas, cur, job, failed, calls>>

\* setup_vmem: what is mapped, in order.
SetupPages == << [key |-> Kernel1gb, flags |-> {VMEM_WRITE}],
                 [key |-> Kernel2mb, flags |-> {VMEM_WRITE}],
                 [key |-> UserCode,  flags |-> {VMEM_USER}] >>

setup_vmem ==
    /\ Running /\ setup \in 1 .. 3
    /\ LET page == SetupPages[setup]
           r == map_page(entry[INIT], free, page.key, STATIC, page.flags)
       IN  /\ entry' = [entry EXCEPT ![INIT] = r.entry]
           /\ free' = r.free
           /\ panic' = IF r.res = "ok" THEN panic ELSE "init task"
    /\ setup' = setup + 1
    /\ UNCHANGED <<mem, kstack, root, areas, cur, job, failed, calls>>

\* The area of the user stack.
SetupStack ==
    /\ Running /\ setup = 4
    /\ \E ar \in AreaChoices : areas' = [areas EXCEPT ![INIT] = <<ar>> \o @]
    /\ setup' = 5
    /\ UNCHANGED <<mem, kstack, free, root, entry, cur, job, failed, panic, calls>>

\* arch_thread_new: the kernel stack of the init task.
SetupThread ==
    /\ Running /\ setup = 5
    /\ \/ allocate_kstack(INIT) /\ setup' = 6 /\ panic' = panic
       \/ free = {} /\ panic' = "init task" /\ UNCHANGED <<free, kstack, setup>>
    /\ UNCHANGED <<mem, root, entry, areas, cur, job, failed, calls>>

\* vmem_init_from_current(&sched_vmem), whose result sched_start ignores.
SetupSched ==
    /\ Running /\ setup = 6 /\ job[SCHED] = NONE
    /\ \/ /\ vmem_init(SCHED)
          /\ job' = [job EXCEPT ![SCHED] = BOOT]
          /\ UNCHANGED <<setup, failed>>
       \/ /\ free = {}
          /\ setup' = 7
          /\ failed' = {SCHED}
          /\ UNCHANGED <<free, root, entry, job>>
    /\ UNCHANGED <<mem, kstack, areas, cur, panic, calls>>

-----------------------------------------------------------------------------
(* vmem_clone and vmem_clone_pages *)

\* sys_fork: vmem_init and the copy of the areas, which reverses their order.
\* The number of the child's space matters to no property: the first is taken.
\* Without a frame for the PML4 nothing happens.
vmem_clone(v) ==
    /\ Running /\ Booted
    /\ cur >= INIT /\ ~ Forking(cur)
    /\ v >= INIT /\ ~ Exists(v) /\ \A w \in INIT .. v - 1 : Exists(w)
    /\ calls < MaxCalls /\ calls' = calls + 1
    /\ vmem_init(v)
    /\ areas' = [areas EXCEPT ![v] = Reverse(areas[cur])]
    /\ job' = [job EXCEPT ![v] = cur]
    /\ UNCHANGED <<mem, kstack, cur, setup, failed, panic>>

\* Mutant: the loop over the PML4 stops at the upper half.
ToClone_LowerHalf(v) ==
    {k \in Leaves(entry[job[v]]) \ Leaves(entry[v]) : PageOf(k) < HIGHER_HALF}

\* Pages still to be cloned into v, and the one with the lowest address.
ToClone(v) == Leaves(entry[job[v]]) \ Leaves(entry[v])
NextLeaf(v) == CHOOSE k \in ToClone(v) : \A o \in ToClone(v) : PageOf(k) <= PageOf(o)

\* Mutant: every page is mapped to the frame of the source.
clone_page_Shared(v) ==
    LET k == NextLeaf(v)  pte == entry[job[v]][k] IN
    map_page(entry[v], free, k, pte.frame, vmem_unconvert_flags(pte.flags))

\* Mutant: the flags of the entry are passed on without being converted back.
clone_page_RawFlags(v) ==
    LET k == NextLeaf(v)
        pte == entry[job[v]][k]
        frame == IF free = {} THEN BOGUS ELSE Nth(free, 1)
    IN  IF k[1] = 1 /\ PTE_ALLOC \in pte.flags
        THEN map_page(entry[v], free \ {frame}, k, frame, pte.flags)
        ELSE map_page(entry[v], free, k, pte.frame, pte.flags)

\* The next page: a frame of its own if the source's was allocated on demand,
\* otherwise the same frame.
clone_page(v) ==
    LET k == NextLeaf(v)
        pte == entry[job[v]][k]
        fl == vmem_unconvert_flags(pte.flags)
    IN  IF k[1] = 1 /\ PTE_ALLOC \in pte.flags
        THEN IF free = {}
             THEN [entry |-> entry[v], free |-> free, res |-> "ENOMEM"]
             ELSE map_page(entry[v], free \ {Nth(free, 1)}, k, Nth(free, 1),
                           fl \cup {VMEM_ALLOC})
        ELSE map_page(entry[v], free, k, pte.frame, fl)

\* One leaf entry of vmem_clone_pages, executed in the source address space.
CloneStep(v) ==
    /\ Running /\ job[v] = cur
    /\ ToClone(v) # {}
    /\ LET r == clone_page(v) IN
          /\ r.res # "ENOMEM"
          /\ entry' = [entry EXCEPT ![v] = r.entry]
          /\ free' = r.free
          /\ panic' = IF r.res = "ok" THEN panic ELSE r.res
    /\ UNCHANGED <<mem, kstack, root, areas, cur, setup, job, failed, calls>>

\* sched_vmem is complete; so is the address space of a forked task, which
\* gets its kernel stack (arch_thread_clone_current).
CloneDone(v) ==
    /\ Running /\ job[v] = cur
    /\ ToClone(v) = {}
    /\ \/ v = SCHED /\ setup' = 7 /\ UNCHANGED <<free, kstack>>
       \/ v # SCHED /\ allocate_kstack(v) /\ setup' = setup
    /\ job' = [job EXCEPT ![v] = NONE]
    /\ UNCHANGED <<mem, root, entry, areas, cur, failed, panic, calls>>

\* -ENOMEM from vmem_init_from_current: sched_start goes on with the half-made
\* sched_vmem.
SetupSchedFail ==
    /\ Running /\ job[SCHED] = cur
    /\ ToClone(SCHED) # {}
    /\ clone_page(SCHED).res = "ENOMEM"
    /\ free' = clone_page(SCHED).free
    /\ entry' = [entry EXCEPT ![SCHED] = clone_page(SCHED).entry]
    /\ job' = [job EXCEPT ![SCHED] = NONE]
    /\ setup' = 7
    /\ failed' = failed \cup {SCHED}
    /\ UNCHANGED <<mem, kstack, root, areas, cur, panic, calls>>

\* -ENOMEM from vmem_clone or arch_thread_clone_current: fork gives up what it
\* has allocated for the child without freeing it.
ForkFail(v) ==
    /\ Running /\ job[v] = cur /\ v # SCHED
    /\ \/ ToClone(v) # {} /\ clone_page(v).res = "ENOMEM" /\ free' = clone_page(v).free
       \/ ToClone(v) = {} /\ free = {} /\ free' = free
    /\ root' = [root EXCEPT ![v] = NONE]
    /\ entry' = [entry EXCEPT ![v] = <<>>]
    /\ areas' = [areas EXCEPT ![v] = <<>>]
    /\ job' = [job EXCEPT ![v] = NONE]
    /\ failed' = failed \cup {v}
    /\ UNCHANGED <<mem, kstack, cur, setup, panic, calls>>

-----------------------------------------------------------------------------
(* vmem_switch_to, vmem_destroy and arch_thread_destroy, as the scheduler  *)
(* calls them.                                                             *)

vmem_switch_to(v) ==
    /\ Running /\ Booted
    /\ v # cur
    /\ v = SCHED \/ Task(v)
    /\ cur' = v
    /\ UNCHANGED <<mem, kstack, free, root, entry, areas, setup, job, failed, panic, calls>>

\* Mutant: the tables are freed, the pages allocated on demand are not.
FramesOf_TablesOnly(v) == TableFrames(entry[v]) \cup {root[v], kstack[v]}

\* What vmem_destroy and arch_thread_destroy give back.
FramesOf(v) == TableFrames(entry[v]) \cup AllocFrames(entry[v]) \cup {root[v], kstack[v]}

\* The scheduler has switched to sched_vmem.  A frame that no zone holds makes
\* frames_free panic.
vmem_destroy(v) ==
    /\ Running /\ cur = SCHED
    /\ Task(v) /\ ~ Forking(v)
    /\ free' = free \cup (FramesOf(v) \cap Frame)
    /\ panic' = IF FramesOf(v) \subseteq Frame THEN panic ELSE "frames_free"
    /\ root' = [root EXCEPT ![v] = NONE]
    /\ kstack' = [kstack EXCEPT ![v] = NONE]
    /\ entry' = [entry EXCEPT ![v] = <<>>]
    /\ areas' = [areas EXCEPT ![v] = <<>>]
    /\ UNCHANGED <<mem, cur, setup, job, failed, calls>>

-----------------------------------------------------------------------------
(* Areas and page faults *)

vmem_alloc_pages(v) ==
    /\ Running /\ Booted /\ AreaCalls
    /\ Task(v) /\ ~ Forking(v)
    /\ Len(areas[v]) < MaxAreas
    /\ \E ar \in AreaChoices :
          IF vmem_intersects(v, ar.start, ar.size)
          THEN panic' = "intersection" /\ areas' = areas
          ELSE panic' = panic /\ areas' = [areas EXCEPT ![v] = <<ar>> \o @]
    /\ UNCHANGED <<mem, kstack, free, root, entry, cur, setup, job, failed, calls>>

\* The entries of vmem_unmap_page that hold a frame to be freed: the bit tested
\* is VMEM_ALLOC, in an entry made of PTE_ bits.
Unmapped(v, ar) == {k \in DOMAIN entry[v] : k[1] = 1 /\ k[2] \in AreaPages(ar)}
unmap_frees(v, ar) == {entry[v][k].frame : k \in {x \in Unmapped(v, ar) :
                                                     VMEM_ALLOC \in entry[v][x].flags}}

vmem_free_pages(v) ==
    /\ Running /\ Booted /\ AreaCalls
    /\ Task(v) /\ ~ Forking(v)
    /\ calls < MaxCalls /\ calls' = calls + 1
    /\ \E ar \in AreaChoices :
          LET same == {n \in 1 .. Len(areas[v]) : /\ areas[v][n].start = ar.start
                                                 /\ areas[v][n].size = ar.size}
              given == unmap_frees(v, ar)
          IN  \/ \E n \in First(same) :
                    /\ areas' = [areas EXCEPT ![v] = RemoveAt(@, n)]
                    /\ entry' = [entry EXCEPT ![v] = Restrict(@, DOMAIN @ \ Unmapped(v, ar))]
                    /\ free' = free \cup (given \cap Frame)
                    /\ panic' = IF given \subseteq Frame THEN panic ELSE "frames_free"
              \/ same = {} /\ panic' = "mismatch" /\ UNCHANGED <<areas, entry, free>>
    /\ UNCHANGED <<mem, kstack, root, cur, setup, job, failed>>

\* A user program's access to page a faults: no entry, or not the permission.
Permits(v, a, bit) ==
    \A l \in Levels : At(a, l) \in DOMAIN entry[v] /\ bit \in entry[v][At(a, l)].flags
Faults(a) == ~ (Permits(cur, a, PTE_USER) /\ Permits(cur, a, PTE_WRITEABLE))

\* No area: vmem_handle_pf returns false and irq_handler panics.
FaultOutside(a) ==
    /\ Running /\ Booted
    /\ cur >= INIT /\ ~ Forking(cur)
    /\ Faults(a)
    /\ vmem_is_mapped(cur, a) = {}
    /\ panic' = "Unhandled IRQ"
    /\ UNCHANGED <<mem, kstack, free, root, entry, areas, cur, setup, job, failed, calls>>

\* A frame is allocated and mapped.  VIRT_TO_PHYS(NULL) is not NULL: without a
\* frame left, the test for it does not fire.
vmem_handle_pf(a) ==
    /\ Running /\ Booted
    /\ cur >= INIT /\ ~ Forking(cur)
    /\ Faults(a)
    /\ \E ar \in vmem_is_mapped(cur, a) :
          LET frame == IF free = {} THEN BOGUS ELSE Nth(free, 1)
              r == map_page(entry[cur], free \ {frame}, <<1, a>>, frame,
                            ar.flags \cup {VMEM_ALLOC})
          IN  /\ entry' = [entry EXCEPT ![cur] = r.entry]
              /\ free' = r.free
              /\ panic' = IF r.res = "ok" THEN panic ELSE r.res
    /\ UNCHANGED <<mem, kstack, root, areas, cur, setup, job, failed, calls>>

-----------------------------------------------------------------------------
Boot == SetupInit \/ setup_vmem \/ SetupStack \/ SetupThread \/ SetupSched \/ SetupSchedFail

Next ==
    \/ Boot
    \/ \E v \in Space :
          \/ vmem_clone(v) \/ CloneStep(v) \/ CloneDone(v) \/ ForkFail(v)
          \/ vmem_switch_to(v) \/ vmem_destroy(v)
          \/ vmem_alloc_pages(v) \/ vmem_free_pages(v)
    \/ \E a \in UserPages : FaultOutside(a) \/ vmem_handle_pf(a)

Spec == Init /\ [][Next]_vars

-----------------------------------------------------------------------------
(* Properties *)

\* Every entry is present, and its number is one that its level has.
TypeOK ==
    /\ free \subseteq mem
    /\ root \in [Space -> Frame \cup {STATIC, NONE}]
    /\ kstack \in [Space -> Frame \cup {NONE}]
    /\ \A v \in Space : \A k \in DOMAIN entry[v] :
          /\ k[1] \in Levels /\ k[2] \in 0 .. 2 * Span[5 - k[1]] - 1
          /\ entry[v][k].frame \in Frame \cup {STATIC, BOGUS}
          /\ PTE_PRESENT \in entry[v][k].flags
    /\ areas \in [Space -> Seq(AreaChoices)]
    /\ cur \in Space
    /\ setup \in 0 .. 7
    /\ job \in [Space -> Space \cup {NONE}]
    /\ calls \in 0 .. MaxCalls
    /\ mem \subseteq Frame
    /\ failed \subseteq Space

\* What refers to frame f: PML4 pointers, kernel stacks, table entries, pages
\* marked PTE_ALLOC.
Refs(f) ==
    {<<v, <<0, 0>>>> : v \in {x \in Space : root[x] = f}} \cup
    {<<v, <<0, 1>>>> : v \in {x \in Space : kstack[x] = f}} \cup
    UNION {{<<v, k>> : k \in {x \in DOMAIN entry[v] :
                /\ entry[v][x].frame = f
                /\ ~ IsPage(entry[v], x) \/ PTE_ALLOC \in entry[v][x].flags}} : v \in Space}

\* A frame is never used twice: one table, one private page of one address space
\* or one kernel stack, or free.  Forked tasks share no memory that either of them was given
\* on demand, and vmem_destroy frees nothing that is still in use.
ExclusiveFrames ==
    \A f \in Frame :
        Cardinality(Refs(f)) <= IF f \in free THEN 0 ELSE 1

\* "must be freed when vmem is destroyed": as long as no clone has run out of
\* memory, every frame is free or reachable from an address space.
NoLeak == panic = "no" /\ failed = {} => \A f \in mem : f \in free \/ Refs(f) # {}

\* The tables above a page grant what the page grants, so that the flags of an
\* area are the permissions its pages really have (vmem_ensure_next_table ors
\* the flags into tables that were made for other pages).
TablesPermit ==
    \A v \in Space \ {BOOT} : \A k \in Leaves(entry[v]) : \A l \in k[1] + 1 .. 4 :
        /\ At(PageOf(k), l) \in DOMAIN entry[v]
        /\ entry[v][k].flags \ {PTE_PAGE_SIZE} \subseteq entry[v][At(PageOf(k), l)].flags

\* Every address space that CR3 is loaded with maps the kernel, whatever clones
\* of tasks have failed (the scheduler's own may not: sched_start ignores it).
KernelMapped == SCHED \notin failed => {Kernel1gb, Kernel2mb} \subseteq DOMAIN entry[cur]

\* A completed clone has the pages of its source with their flags, the same
\* frame where the source's was not allocated on demand, and the same areas.
CloneFaithful ==
    [][\A v \in Space :
          /\ job[v] # NONE /\ job'[v] = NONE
          /\ root'[v] # NONE /\ (v = SCHED => SCHED \notin failed')
          =>
          LET new == entry'[v]  old == entry[job[v]] IN
            /\ Leaves(new) = Leaves(old)
            /\ \A k \in Leaves(new) :
                  /\ new[k].flags = old[k].flags
                  /\ new[k].frame = old[k].frame <=> PTE_ALLOC \notin old[k].flags
            /\ {areas'[v][n] : n \in DOMAIN areas'[v]} = {areas[job[v]][n] : n \in DOMAIN areas[job[v]]}]_vars
=============================================================================
