-------------------------------- MODULE Boot --------------------------------
(***************************************************************************)
(* From early_init to the first irq_enable: the kernel's early mapping,    *)
(* descriptor tables, the multiboot information, framebuffer and console,  *)
(* ACPI tables, local APIC and timer, and the zones of the frame           *)
(* allocator.  One CPU, interrupts disabled; what it reads is data of the  *)
(* boot loader and the firmware, chosen when it is first read and          *)
(* forgotten once nothing reads it any more.  The timer's counter and the  *)
(* PIT run by themselves.                                                  *)
(***************************************************************************)
EXTENDS Zones, Sequences, FiniteSets

CONSTANTS
    KernelPages,    \* sizes the kernel may have, in large pages
    PDES,           \* entries of a page directory
    KERNEL_SECTIONS_SIZE_IN_GB,    \* page directories for them
    Infos,          \* multiboot information: sequences of tags without the end tag
    SdtLists,       \* tables of the RSDT or XSDT: sequences of [sig, ok]
    Madts,          \* entries of the MADT: sequences of [type, size]
    MemMaps,        \* memory maps: sequences of [base, length, type]
    MaxElapsed      \* ticks after which the calibrating counter stops at 0

ASSUME BootAssumption ==
    /\ PDES \in Nat \ {0, 1} /\ KERNEL_SECTIONS_SIZE_IN_GB \in Nat \ {0}
    /\ KernelPages \subseteq 1 .. KERNEL_SECTIONS_SIZE_IN_GB * PDES
    /\ MaxElapsed \in Nat \ {0}
    /\ \A i \in Infos : i \in Seq([type : STRING, size : Nat]) /\ \A k \in DOMAIN i : i[k].size >= 8
    /\ \A l \in SdtLists : l \in Seq([sig : STRING, ok : BOOLEAN])
    /\ \A m \in Madts : m \in Seq([type : STRING, size : Nat]) /\ \A k \in DOMAIN m : m[k].size # 1
    /\ \A m \in MemMaps : m \in Seq([base : Nat, length : Nat, type : STRING])

VARIABLES
    pc,         \* the next step of early_init and kmain
    input,      \* the data of the boot loader that is being read
    early,      \* early page tables: [curr, pml4, pdpt, pgdirs]
    cpu,        \* [gdt, star, tr]
    idt,        \* [gates, vec, lidt]: irq_init's table, its next vector, whether it is loaded
    mb,         \* [iter, fb, memmap, rsdp_v1, rsdp_v2]: offsets, 0 is NULL
    cons_initialized,
    sdt,        \* acpi_lookup: its loop index, later the index of the MADT
    madt,       \* [entry, ioapic] of apic_init
    tmr,        \* [lvt, elapsed, pit, initcnt]
    alloc,      \* [next, zones, pgcnt] of frame_alloc_init
    irq_on

vars == <<pc, input, early, cpu, idt, mb, cons_initialized, sdt, madt, tmr, alloc, irq_on>>

NULL == 0

Goto(label) == pc' = label

\* A panic halts for good: interrupts are disabled.
panic == pc' = "panic"

-----------------------------------------------------------------------------
(* Tables made of records of various sizes, one behind the other. *)

\* The offsets of the records of s, and of the end behind the last one, when
\* the first one is at offset first.
Offsets(s, first, align) ==
    LET at[i \in 1 .. Len(s) + 1] ==
            IF i = 1 THEN first ELSE ROUNDUP(at[i - 1] + s[i - 1].size, align)
    IN  at

\* The record at each offset where there is one, the one past the end included.
RecordAt(s, first, align, off) ==
    {k \in 1 .. Len(s) + 1 : Offsets(s, first, align)[k] = off}

MB_TAG_ALIGNMENT == 8
MbHeader == 8       \* sizeof(mb_boot_info_header_t)
MadtHeader == 44    \* offset of first_entry
Vectors == <<6, 7, 8, 10, 11, 12, 13, 14, 32, 39>>
UDATA == 3          \* USER_DATA_SEG

\* The tags that mb_parse_boot_info keeps a pointer to.
Wanted == {"fb", "memmap", "rsdp_v1", "rsdp_v2"}

-----------------------------------------------------------------------------
NoTables == [curr |-> 0, pml4 |-> {}, pdpt |-> <<>>, pgdirs |-> <<>>]

Init ==
    /\ pc = "early"
    /\ input \in KernelPages
    /\ early = NoTables
    /\ cpu = [gdt |-> <<>>, star |-> 0, tr |-> 0]
    /\ idt = [gates |-> [v \in 0 .. 40 |-> {}], vec |-> 1, lidt |-> FALSE]
    /\ mb = [f \in Wanted \cup {"iter"} |-> NULL]
    /\ cons_initialized = FALSE
    /\ sdt = 0
    /\ madt = [entry |-> 0, ioapic |-> NULL]
    /\ tmr = [lvt |-> "disabled", elapsed |-> 0, pit |-> "idle", initcnt |-> 0]
    /\ alloc = [next |-> 1, zones |-> <<>>, pgcnt |-> 0]
    /\ irq_on = FALSE

\* f with the value at x, whether or not f is defined there.
Put(f, x, v) == [y \in DOMAIN f \cup {x} |-> IF y = x THEN v ELSE f[y]]

\* After the loop the PDPT is entered in the PML4, for the address after the last
\* page: behind the last directory that address is 0.
Pml4Entry(next) == IF next = input THEN {next \div (KERNEL_SECTIONS_SIZE_IN_GB * PDES)} ELSE {}

\* Mutant: the directory is looked up with the next address too.
EarlyMap_NextDir ==
    /\ pc = "early" /\ early.curr < input
    /\ LET curr == early.curr  next == curr + 1
       IN  early' = [curr |-> next, pml4 |-> Pml4Entry(next),
                     pdpt |-> Put(early.pdpt, next \div PDES, next \div PDES),
                     pgdirs |-> Put(early.pgdirs, <<next \div PDES, curr % PDES>>, curr)]
    /\ UNCHANGED <<pc, input, cpu, idt, mb, cons_initialized, sdt, madt, tmr, alloc, irq_on>>

\* One round of early_setup_paging's second loop: page curr goes into its page
\* directory; the directory is entered for the address after it.  Entries are
\* counted from the first one of the kernel's sections.
EarlyMap ==
    /\ pc = "early" /\ early.curr < input
    /\ LET curr == early.curr  next == curr + 1  pgdir_idx == curr \div PDES
       IN  early' = [curr |-> next, pml4 |-> Pml4Entry(next),
                     pdpt |-> Put(early.pdpt, next \div PDES, pgdir_idx),
                     pgdirs |-> Put(early.pgdirs, <<pgdir_idx, curr % PDES>>, curr)]
    /\ UNCHANGED <<pc, input, cpu, idt, mb, cons_initialized, sdt, madt, tmr, alloc, irq_on>>

\* jump_to_kernel_main, kmain, then arch_init up to irq_init.  The early tables
\* are not written again.  If the PML4 has no entry for the kernel the jump
\* faults, and there is no handler yet.
ArchInit ==
    /\ pc = "early" /\ early.curr = input
    /\ IF 0 \in early.pml4
       THEN /\ cpu' = [gdt |-> <<"kcode", "kdata", "udata", "ucode", "tss", "tss_high">>,
                       tr |-> 5, star |-> UDATA - 1]
            /\ Goto("idt")
       ELSE panic /\ UNCHANGED cpu
    /\ input' = <<>> /\ early' = NoTables
    /\ UNCHANGED <<idt, mb, cons_initialized, sdt, madt, tmr, alloc, irq_on>>

\* IDT_ENTRY: three dwords of the gate are written.  The fourth write is meant
\* for its reserved dword, but it clears the first dword of the next gate.
IDT_ENTRY(gates, v) == [gates EXCEPT ![v] = {0, 1, 2}, ![v + 1] = gates[v + 1] \ {0}]

\* Mutant: the gates are filled in from the last to the first.
IdtEntry_Descending ==
    /\ pc = "idt" /\ idt.vec <= Len(Vectors)
    /\ idt' = [gates |-> IDT_ENTRY(idt.gates, Vectors[Len(Vectors) + 1 - idt.vec]),
               vec |-> idt.vec + 1, lidt |-> idt.lidt]
    /\ UNCHANGED <<pc, input, early, cpu, mb, cons_initialized, sdt, madt, tmr, alloc, irq_on>>

\* One line of irq_init.
IdtEntry ==
    /\ pc = "idt" /\ idt.vec <= Len(Vectors)
    /\ idt' = [gates |-> IDT_ENTRY(idt.gates, Vectors[idt.vec]),
               vec |-> idt.vec + 1, lidt |-> idt.lidt]
    /\ UNCHANGED <<pc, input, early, cpu, mb, cons_initialized, sdt, madt, tmr, alloc, irq_on>>

Lidt ==
    /\ pc = "idt" /\ idt.vec > Len(Vectors)
    /\ idt' = [gates |-> idt.gates, vec |-> idt.vec, lidt |-> TRUE]
    /\ Goto("parse")
    /\ input' \in Infos
    /\ mb' = [mb EXCEPT !.iter = MbHeader]
    /\ UNCHANGED <<early, cpu, cons_initialized, sdt, madt, tmr, alloc, irq_on>>

-----------------------------------------------------------------------------
(* mb_parse_boot_info, fb_init, cons_init *)

\* The tag that begins at iter; what is read elsewhere is no tag.
TagsAtIter == RecordAt(input, MbHeader, MB_TAG_ALIGNMENT, mb.iter)

\* Mutant: the size is added without rounding up.
NextTag_Unaligned(iter, size) == iter + size

NextTag(iter, size) == ROUNDUP(iter + size, MB_TAG_ALIGNMENT)

ParseTag ==
    /\ pc = "parse"
    /\ \E k \in TagsAtIter \ {Len(input) + 1} :
          LET tag == input[k] IN
          mb' = [f \in Wanted \cup {"iter"} |->
                    IF f = "iter" THEN NextTag(mb.iter, tag.size)
                    ELSE IF f = tag.type THEN mb.iter ELSE mb[f]]
    /\ UNCHANGED <<pc, input, early, cpu, idt, cons_initialized, sdt, madt, tmr, alloc, irq_on>>

ParseEnd ==
    /\ pc = "parse" /\ Len(input) + 1 \in TagsAtIter
    /\ Goto("fb")
    /\ UNCHANGED <<input, early, cpu, idt, mb, cons_initialized, sdt, madt, tmr, alloc, irq_on>>

\* The framebuffer has to be a direct colour one with 32 bits per pixel.
FbInit ==
    /\ pc = "fb"
    /\ \/ mb.fb # NULL /\ Goto("cons")
       \/ panic
    /\ input' = <<>> /\ mb' = [mb EXCEPT !.iter = 0]
    /\ UNCHANGED <<early, cpu, idt, cons_initialized, sdt, madt, tmr, alloc, irq_on>>

ConsInit ==
    /\ pc = "cons"
    /\ cons_initialized' = TRUE
    /\ Goto("acpi")
    /\ UNCHANGED <<input, early, cpu, idt, mb, sdt, madt, tmr, alloc, irq_on>>

-----------------------------------------------------------------------------
(* acpi_init, acpi_lookup("APIC") *)

\* The RSDP's first checksum, for version 2 its second one too, and the one of
\* the table it points to may each be wrong.
AcpiInit ==
    /\ pc = "acpi"
    /\ \/ /\ mb.rsdp_v2 # NULL \/ mb.rsdp_v1 # NULL
          /\ input' \in SdtLists
          /\ sdt' = 1 /\ Goto("lookup")
       \/ panic /\ UNCHANGED <<input, sdt>>
    /\ UNCHANGED <<early, cpu, idt, mb, cons_initialized, madt, tmr, alloc, irq_on>>

IsMadt(i) == input[i].sig = "APIC"

LookupNext ==
    /\ pc = "lookup" /\ sdt <= Len(input) /\ ~IsMadt(sdt)
    /\ sdt' = sdt + 1
    /\ UNCHANGED <<pc, input, early, cpu, idt, mb, cons_initialized, madt, tmr, alloc, irq_on>>

\* Mutant: a table whose checksum is wrong is used.
LookupFound_NoCheck ==
    /\ pc = "lookup" /\ sdt <= Len(input) /\ IsMadt(sdt)
    /\ Goto("found")
    /\ UNCHANGED <<input, early, cpu, idt, mb, cons_initialized, sdt, madt, tmr, alloc, irq_on>>

LookupFound ==
    /\ pc = "lookup" /\ sdt <= Len(input) /\ IsMadt(sdt)
    /\ IF input[sdt].ok THEN Goto("found") ELSE panic
    /\ UNCHANGED <<input, early, cpu, idt, mb, cons_initialized, sdt, madt, tmr, alloc, irq_on>>

LookupNone ==
    /\ pc = "lookup" /\ sdt > Len(input)
    /\ panic
    /\ UNCHANGED <<input, early, cpu, idt, mb, cons_initialized, sdt, madt, tmr, alloc, irq_on>>

-----------------------------------------------------------------------------
(* apic_init *)

MadtStart ==
    /\ pc = "found"
    /\ input' \in Madts
    /\ madt' = [madt EXCEPT !.entry = MadtHeader]
    /\ sdt' = 0
    /\ Goto("madt")
    /\ UNCHANGED <<early, cpu, idt, mb, cons_initialized, tmr, alloc, irq_on>>

MadtEnd == Offsets(input, MadtHeader, 1)[Len(input) + 1]

\* The entry that is read at the walk's offset: one of size 0 hides the next.
MadtCurrent ==
    LET ks == RecordAt(input, MadtHeader, 1, madt.entry)
    IN  {k \in ks : \A j \in ks : k <= j}

\* Mutant: the walk does not move on after an I/O APIC.
MadtEntry_Stays ==
    /\ pc = "madt" /\ madt.entry < MadtEnd
    /\ \E k \in MadtCurrent :
          madt' = IF input[k].type = "ioapic" THEN [madt EXCEPT !.ioapic = madt.entry]
                  ELSE [madt EXCEPT !.entry = @ + input[k].size]
    /\ UNCHANGED <<pc, input, early, cpu, idt, mb, cons_initialized, sdt, tmr, alloc, irq_on>>

MadtEntry ==
    /\ pc = "madt" /\ madt.entry < MadtEnd
    /\ \E k \in MadtCurrent :
          madt' = [entry  |-> madt.entry + input[k].size,
                   ioapic |-> IF input[k].type = "ioapic" THEN madt.entry ELSE madt.ioapic]
    /\ UNCHANGED <<pc, input, early, cpu, idt, mb, cons_initialized, sdt, tmr, alloc, irq_on>>

\* Without an I/O APIC the kernel panics; else the local APIC is enabled with
\* its other sources of interrupts masked.
ApicEnable ==
    /\ pc = "madt" /\ madt.entry >= MadtEnd
    /\ IF madt.ioapic = NULL THEN panic ELSE Goto("timer")
    /\ input' = <<>>
    /\ madt' = [madt EXCEPT !.entry = 0]
    /\ UNCHANGED <<early, cpu, idt, mb, cons_initialized, sdt, tmr, alloc, irq_on>>

-----------------------------------------------------------------------------
(* apic_setup_timer *)

\* The PIT counts, the timer counts down from its largest value.
TimerStart ==
    /\ pc = "timer"
    /\ tmr' = [lvt |-> "oneshot", pit |-> "counting", elapsed |-> 0, initcnt |-> tmr.initcnt]
    /\ Goto("poll")
    /\ UNCHANGED <<input, early, cpu, idt, mb, cons_initialized, sdt, madt, alloc, irq_on>>

\* The timer's counter loses one; at 0 it stops.
BusTick ==
    /\ tmr.pit # "idle" /\ pc \in {"poll", "arm"} /\ tmr.elapsed < MaxElapsed
    /\ tmr' = [tmr EXCEPT !.elapsed = @ + 1]
    /\ UNCHANGED <<pc, input, early, cpu, idt, mb, cons_initialized, sdt, madt, alloc, irq_on>>

\* The PIT's ten milliseconds are over, however slow the bus is.
PitFire ==
    /\ tmr.pit = "counting"
    /\ tmr' = [tmr EXCEPT !.pit = "done"]
    /\ UNCHANGED <<pc, input, early, cpu, idt, mb, cons_initialized, sdt, madt, alloc, irq_on>>

\* The loop over the PIT's output ends; the timer's interrupt is masked, its
\* counter runs on.
TimerPolled ==
    /\ pc = "poll" /\ tmr.pit = "done"
    /\ tmr' = [tmr EXCEPT !.lvt = "disabled"]
    /\ Goto("arm")
    /\ UNCHANGED <<input, early, cpu, idt, mb, cons_initialized, sdt, madt, alloc, irq_on>>

CALLIBRATE_PERIOD == 10
APIC_TIMER_PERIOD == 10

TimerArm ==
    /\ pc = "arm"
    /\ LET cpu_bus_freq == (tmr.elapsed * 1000) \div CALLIBRATE_PERIOD
       IN  tmr' = [lvt |-> "periodic", pit |-> "idle", elapsed |-> 0,
                   initcnt |-> (cpu_bus_freq * APIC_TIMER_PERIOD) \div 1000]
    /\ Goto("dump")
    /\ UNCHANGED <<input, early, cpu, idt, mb, cons_initialized, sdt, madt, alloc, irq_on>>

-----------------------------------------------------------------------------
(* dump_memmap, frame_alloc_init *)

DumpMemmap ==
    /\ pc = "dump"
    /\ IF mb.memmap = NULL THEN panic /\ UNCHANGED input
       ELSE /\ input' \in MemMaps
            /\ Goto("frames")
    /\ UNCHANGED <<early, cpu, idt, mb, cons_initialized, sdt, madt, tmr, alloc, irq_on>>

Skipped(e) == ~Usable(e) \/ Region(e).pages < Pow2[MAX_ORDER]

SkipEntry ==
    /\ pc = "frames" /\ alloc.next <= Len(input) /\ Skipped(input[alloc.next])
    /\ alloc' = [alloc EXCEPT !.next = @ + 1]
    /\ UNCHANGED <<pc, input, early, cpu, idt, mb, cons_initialized, sdt, madt, tmr, irq_on>>

\* Mutant: the table of zones has no end.
ZoneAdd_NoLimit ==
    /\ pc = "frames" /\ alloc.next <= Len(input) /\ ~Skipped(input[alloc.next])
    /\ LET region == Region(input[alloc.next])
           zone == ZoneAt(region.base, region.pages)
       IN  alloc' = [next  |-> alloc.next + 1,
                     zones |-> Append(alloc.zones, zone),
                     pgcnt |-> alloc.pgcnt + zone.pages_count]
    /\ UNCHANGED <<pc, input, early, cpu, idt, mb, cons_initialized, sdt, madt, tmr, irq_on>>

\* zone_add, behind its two assertions.
ZoneAdd ==
    /\ pc = "frames" /\ alloc.next <= Len(input) /\ ~Skipped(input[alloc.next])
    /\ LET region == Region(input[alloc.next])
           zone == ZoneAt(region.base, region.pages)
       IN  IF region.pages > Pow2[MAX_ORDER] /\ Len(alloc.zones) < MAX_ZONE_COUNT
           THEN /\ alloc' = [next  |-> alloc.next + 1,
                             zones |-> Append(alloc.zones, zone),
                             pgcnt |-> alloc.pgcnt + zone.pages_count]
                /\ UNCHANGED pc
           ELSE panic /\ UNCHANGED alloc
    /\ UNCHANGED <<input, early, cpu, idt, mb, cons_initialized, sdt, madt, tmr, irq_on>>

FramesDone ==
    /\ pc = "frames" /\ alloc.next > Len(input)
    /\ Goto("sched")
    /\ UNCHANGED <<input, early, cpu, idt, mb, cons_initialized, sdt, madt, tmr, alloc, irq_on>>

\* sched_start: setup_init_task fails when there is no frame; a zone that has
\* frames at all has more than it needs.
SchedStart ==
    /\ pc = "sched"
    /\ IF alloc.pgcnt = 0 THEN panic /\ UNCHANGED irq_on
       ELSE irq_on' = TRUE /\ Goto("running")
    /\ UNCHANGED <<input, early, cpu, idt, mb, cons_initialized, sdt, madt, tmr, alloc>>

\* The rest is the scheduler, or the hlt loop of a panic.
Stopped == pc \in {"running", "panic"} /\ UNCHANGED vars

Kmain ==
    \/ EarlyMap \/ ArchInit \/ IdtEntry \/ Lidt
    \/ ParseTag \/ ParseEnd \/ FbInit \/ ConsInit
    \/ AcpiInit \/ LookupNext \/ LookupFound \/ LookupNone
    \/ MadtStart \/ MadtEntry \/ ApicEnable
    \/ TimerStart \/ TimerPolled \/ TimerArm
    \/ DumpMemmap \/ SkipEntry \/ ZoneAdd \/ FramesDone \/ SchedStart

Next == Kmain \/ BusTick \/ PitFire \/ Stopped

\* The CPU runs, and so do the bus clock and the PIT.
Spec == Init /\ [][Next]_vars /\ WF_vars(Kmain) /\ WF_vars(BusTick) /\ WF_vars(PitFire)

-----------------------------------------------------------------------------
Gates == [0 .. 40 -> SUBSET (0 .. 2)]
Idt == [gates : Gates, vec : 1 .. Len(Vectors) + 1, lidt : BOOLEAN]
Timer == [lvt : {"disabled", "oneshot", "periodic"}, elapsed : 0 .. MaxElapsed,
          pit : {"idle", "counting", "done"}, initcnt : Nat]
Alloc == [next : Nat \ {0}, zones : Seq(Zone), pgcnt : Nat]

\* Every variable stays within its type (kmain and what it calls).
TypeOK ==
    /\ pc \in {"early", "idt", "parse", "fb", "cons", "acpi", "lookup", "found", "madt",
               "timer", "poll", "arm", "dump", "frames", "sched", "running", "panic"}
    /\ early.curr \in Nat
    /\ cpu.star \in Nat /\ cpu.tr \in Nat
    /\ idt \in Idt
    /\ mb \in [Wanted \cup {"iter"} -> Nat]
    /\ {cons_initialized, irq_on} \subseteq BOOLEAN
    /\ sdt \in Nat /\ madt \in [entry : Nat, ioapic : Nat]
    /\ tmr \in Timer
    /\ alloc \in Alloc /\ Len(alloc.zones) <= MAX_ZONE_COUNT

\* Page k of the kernel is translated to itself.
Reachable(k) ==
    /\ 0 \in early.pml4 /\ k \div PDES \in DOMAIN early.pdpt
    /\ LET at == <<early.pdpt[k \div PDES], k % PDES>>
       IN  at \in DOMAIN early.pgdirs /\ early.pgdirs[at] = k

\* Once early_setup_paging has ended, walking the tables translates every page of
\* the kernel to itself, although the entries are made for the address after the
\* page, for exactly the kernels that do not fill the last directory.
KernelReachable ==
    (pc = "early" /\ early.curr = input) =>
        ((\A k \in 0 .. input - 1 : Reachable(k)) <=> input < KERNEL_SECTIONS_SIZE_IN_GB * PDES)

LastOfType(t) ==
    LET ks == {k \in DOMAIN input : input[k].type = t}
    IN  IF ks = {} THEN NULL
        ELSE Offsets(input, MbHeader, MB_TAG_ALIGNMENT)[CHOOSE k \in ks : \A j \in ks : j <= k]

\* mb_parse_boot_info always looks at the start of a tag, and leaves in each
\* pointer the last tag of its type, whatever the tags' sizes.
ParserExact ==
    /\ pc = "parse" => TagsAtIter # {}
    /\ pc = "fb" => \A t \in Wanted : mb[t] = LastOfType(t)

\* The MADT that apic_init walks is the first one listed, and it is intact.
LookupFirst ==
    pc = "found" => IsMadt(sdt) /\ input[sdt].ok /\ \A i \in 1 .. sdt - 1 : ~IsMadt(i)

\* When interrupts are enabled, every gate that irq_init installs is whole, the
\* selectors that sysret and ltr use name the descriptors they need, the timer is
\* periodic, and there are frames.
IrqReady ==
    irq_on =>
        /\ idt.lidt /\ \A k \in DOMAIN Vectors : idt.gates[Vectors[k]] = {0, 1, 2}
        /\ cpu.gdt[cpu.star + 1] = "udata" /\ cpu.gdt[cpu.star + 2] = "ucode"
        /\ cpu.gdt[cpu.tr] = "tss"
        /\ tmr.lvt = "periodic"
        /\ madt.ioapic # NULL /\ alloc.pgcnt > 0

\* Zones begin above the kernel and the multiboot information and behind their
\* own bitmaps, are made of whole blocks, and every page of a zone is found
\* again by frames_free: no two zones overlap, although a zone may reach past
\* its memory region.
ZonesApart ==
    \A i \in DOMAIN alloc.zones :
        LET z == alloc.zones[i] IN
        /\ z.bitmap >= reserved_end
        /\ z.start % Block = 0 /\ z.end % Block = 0 /\ z.start <= z.end
        /\ \A o \in 0 .. MAX_ORDER - 1 : BitmapEnd(z, o) <= z.start
        /\ \A p \in 0 .. z.pages_count - 1 : ZoneOf(alloc.zones, z.start + p * PAGE_SIZE) = i

\* A zone's pages are memory of the region it was made from: the end is "aligned"
\* by zone_add, not moved past the region.
ZoneInRegion ==
    \A i \in DOMAIN alloc.zones :
        \E k \in DOMAIN input :
            /\ Usable(input[k])
            /\ input[k].base <= alloc.zones[i].start
            /\ alloc.zones[i].end <= input[k].base + input[k].length

\* The walk over the MADT stands at an entry whose length is 0.
AtEmptyEntry == pc = "madt" /\ \E k \in MadtCurrent \ {Len(input) + 1} : input[k].size = 0

\* Boot ends, in the scheduler or in a panic, unless the MADT has an entry of
\* length 0: apic_init adds the length to its pointer without looking at it.
BootEnds == <>(pc \in {"running", "panic"} \/ AtEmptyEntry)
=============================================================================
