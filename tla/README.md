# A TLA+ verification of HeavenOS

HeavenOS is a small x86-64 kernel for one CPU: preemptive tasks with fork, wait,
sleep and exit, demand-paged address spaces, a buddy allocator and a few drivers.
This directory holds TLA+ models of it, the TLC configurations that check them on
small instances, and TLAPS proofs about the scheduler and its refinement of an abstract
process life, the frame allocator, the object allocator with the lists of areas, address
spaces, boot, and the console with its refinement of a terminal. `PROJECT.json` lists runs, mutants, findings,
hazards, theorems and the source lines behind every definition. Paths below are
relative to `src/`.

## Inventory

| Component | State | Operations | What makes it correct |
|---|---|---|---|
| Scheduler (`sched/sched.c`) | `tasks[]`, `_current`, `sched_timer`, `sched_context`, `sched_vmem` | `sched_start` loop, `sched_switch_to`, `sched_switch`, `sched_timer_tick`, `sched_allocate_task` | runnable tasks run, sleepers wake in time, a dead task's resources are freed once and are not in use, an entry belongs to one task |
| System calls (`kernel/syscall.c`) | fields of the task entries | sleep, fork, exit, wait, getpid | no lost wakeup, only own zombies are reaped, a forked child sees 0; together they implement the life of a process |
| Interrupts and entry code (`arch/x86/irq.c`, `irq_asm.asm`, `syscall.asm`, `context_switch.asm`, `x86.c`) | IF, kernel stacks, descriptor tables | timer, page fault, `syscall`/`sysret`, stack switch, `arch_init`, `irq_init` | a tick acts for the task that runs, nobody halts with IF clear, gates are whole before they are used |
| Frame allocator (`mm/frame_alloc.c`) | zones: addresses, free lists and bitmaps per order | `frame_alloc_init`, `zone_add`, `frames_alloc`, `frames_free` | zones do not overlap what is in use, every page has one owner, buddies coalesce, bits speak of one pair |
| Object allocator (`mm/obj.c`) | list threaded through free objects | `object_alloc`, `object_free` | no object twice, none lost |
| Address spaces (`mm/vmem.c`) | areas, page tables, `curr_vmem` | init, clone, destroy, switch, map, alloc/free pages, page fault | private frames are private, none leak, flags mean what they say, the kernel is mapped everywhere, a clone equals its source |
| List (`utils/list.c`) | next and prev words | init, empty, insert, extract | both directions agree |
| Boot (`boot/early.c`, `kernel/kernel.c`) | early page tables | `early_setup_paging`, the order of the initialisers | the kernel is mapped, nothing is used before it is set up |
| Multiboot (`kernel/multiboot.c`), ACPI (`drivers/acpi.c`) | pointers into boot loader and firmware data | walks over tags and tables | the records found are the right ones |
| Local APIC (`drivers/apic.c`) | timer registers | walk over the MADT, calibration, arming | the timer strikes, the calibration ends |
| Console (`kernel/console.c`, `drivers/fb.c`, `kernel/printk.c`) | cursor, pixels, the conversion buffer | printk, newline, scroll | the screen shows the text, buffers fit, printk returns |
| Panic (`kernel/panic.c`) | | halts | |

How they interact: the timer interrupt calls `sched_timer_tick`, which switches from
the interrupted task's kernel stack to the scheduler's; the scheduler dispatches a
task by switching address space and stack; system calls run on the task's kernel
stack *with interrupts enabled* (`syscall_entry` executes `sti`) and share the task
table, the frame allocator, the object allocator and the console without any lock.
fork uses vmem and both allocators; the page fault handler (interrupts disabled) uses
vmem. Before all this `kmain` runs alone, with interrupts disabled, on data of the
boot loader and the firmware, while the APIC's counter and the PIT run beside it.

What is hard: there is one CPU and no thread API, but every system call can be
preempted between any two statements, the scheduler loop itself can be interrupted,
and whether it runs with interrupts enabled depends on how the last task left. Memory
can run out half way through fork. Records in firmware data have any size. The list
under `hazards` in `PROJECT.json` names each place.

## Modules

| Module | Models | Built on |
|---|---|---|
| `Sched`, `MCSched` | scheduler, process system calls, timer interrupt | |
| `ProcessLifecycle` | abstract: what fork, exit and wait promise | |
| `SchedLifecycle` | the mapping of the task table to processes | `Sched`, instantiates `ProcessLifecycle` |
| `SchedProofs`, `SchedRefinement` | inductive invariants, theorems, the refinement | `Sched`, `SchedLifecycle` |
| `Common`, `CommonProofs` | rounding, powers of two, shared helpers of `common.h`; induction, recursion and arithmetic lemmas | |
| `FrameAlloc`, `MCFrameAlloc` | one zone of the buddy allocator | `Common` |
| `FrameHistory`, `MCFrameHistory` | the same with a record of whether a known weakness has come into play | `FrameAlloc` |
| `FrameAllocProofs` | its invariant and theorems | `FrameHistory`, `CommonProofs` |
| `Zones` | `frame_alloc_init` and `zone_add` as arithmetic | `Common` |
| `List` | the intrusive list on memory | |
| `AreaList`, `MCAreaList` | the object allocator and the lists of areas in one memory | `List`, instantiates `AreaSpec` |
| `AreaListProofs` | theorems about `List`; the invariant and theorems of `AreaList` | `AreaList`, `CommonProofs` |
| `AreaSpec` | abstract: address spaces as sequences of areas | |
| `Vmem`, `MCVmem` | address spaces and their users | |
| `VmemProofs` | its invariants and theorems | `Vmem`, `CommonProofs` |
| `Boot`, `MCBoot` | `early_init` and `kmain` up to the scheduler | `Zones` |
| `BootProofs` | theorems about `Zones` and `Boot` | `Boot`, `CommonProofs` |
| `Console`, `MCConsole` | printk, console and framebuffer | `Common`, instantiates `Terminal` |
| `ConsoleProofs` | its invariants, theorems and the refinement | `Console`, `CommonProofs` |
| `Terminal` | abstract: a grid of characters with a cursor | |

Operators whose comment begins with "Mutant:" are plausible bugs of the definition
that follows them. They are not part of any specification; they show that a
property would notice.

### Sched

A step is what happens between two points where a timer interrupt makes a
difference. `pc[p]` is the point where task p stands, on the CPU or in its saved
context; `spc`, `idx` and `found` are the same for `sched_start`. `cpu` says whose
stack the CPU is on. `irq_on` is RFLAGS.IF: cleared by the interrupt gate, not
touched by `context_switch`, restored by `iretq` and `sysret`; `irq_frame[p]`
remembers that p will leave through the `iretq` of the interrupt that preempted it.
`live[p]` says that p owns page tables and a kernel stack, `vm` is CR3.

`sched_timer` only occurs in comparisons with `sleep_until` and `preempt_deadline`,
so the model keeps the differences: `sleep[p]` counts down to 0, `deadline` to -1.

Each statement of `sys_sleep`, `sys_fork`, `sys_exit` and `sys_wait` that reads or
writes shared state is an action; user programs may do any system call or fault at
any time. A tick in `sched_switch_to` is special (`TickSwitchLost`): `_current` is
already the task, but the stack is the scheduler's, so `sched_switch` jumps through
the `sched_context` saved by an earlier switch. What follows is undefined; the model
stops there with `cpu = LOST`.

`TickPoints`, the points where the timer may strike, is a parameter. The code
excludes none. Runs and theorems with smaller sets say which preemptions a property
survives; that it does not survive the others is shown by the violation runs and by
the counterexamples listed after them. Some properties name the bad step instead
(`WakeupLostOnlyThere`, `DeafOnlyThere`, `ForkZero`): they are checked with the timer
in the window where the code goes wrong, and say that it goes wrong nowhere else.

`sys_wait` uses its argument as an index before any test; the model takes the
arguments that are entries of the table.

### ProcessLifecycle and SchedLifecycle

`ProcessLifecycle` is what a reader of the four system calls expects: fork makes a
process, a process runs when it is chosen, exit ends it, a waiting parent is woken by
the death of the very child it waits for, and an entry is unused again when the parent
has seen it. It knows no table scan, no `_current`, no clock. The mapping: an entry is
"dead" when its state is `TASK_ZOMBIE`; a wait begins when the state becomes
`TASK_WAITING`, for the child named by the argument of the call, before `wait_pid` is
stored; a task counts as running until it marks itself as sleeping, waiting or dead.
One thing is taken over from the code because nothing in the repository says
otherwise: `ppid` is never cleared, so a task may wait for an unused entry that was
once its child.

### FrameAlloc

A zone as `zone_add` leaves it: free lists are sets of block numbers per order,
`bitmap` is the set of set bits, addressed through the layout that `zone_add`
computes. The distance between the bitmaps of two orders, `OrderBits`, is a parameter of
the theorems; the runs set it to `order_bitmap_size`, the code's formula. Callers step through `zone_alloc` and `zone_dealloc`: reading the head of
a list and extracting it are two steps, each iteration of the splitting and the
coalescing loop is one. Bitmap memory is not cleared by the code, so its initial
contents are arbitrary; the runs show that this is harmless, because a split sets
a pair's bit before the pair is looked at. `FrameHistory` adds a history variable,
`exposed`: two paths have been inside at once, or two pairs of blocks that existed at
once had one bit. The code prevents neither. The properties `Intact`, `Owned` and
`Merged` say that nothing is wrong before that.

### List and AreaList

`List` has the four operations as functions on memory, a record of the next and prev
words. `AreaList` puts them together with `mm/obj.c`: the first word of a
`vmem_area_t` is the next of its list node and, while the object is free, the
allocator's link, so a mistake in one shows in the other. A caller is a kernel path
inside `vmem_init`, `vmem_alloc_pages`, `vmem_free_pages`, `vmem_clone` or
`vmem_destroy`; it can be stopped at the points in `SwitchPoints`, between the test,
the refill, the read and the update of `next_free`, between getting an object and linking it, and
between extracting and freeing. An address space is used by one caller at a time,
because it belongs to one task. `vmem_intersects` is modelled with its mixture of
pages and bytes. `AreaSpec` has one action per operation and no memory at all.

### Vmem

Page table entries are keyed by level and number, with `FANOUT` in place of 512 and
`Span` for the pages that an entry of each level covers; an address space is the function of its present entries. Flags are sets of bit
numbers, with the two encodings of `vmem.h` and `paging.h` kept apart. Boot
(`setup_init_task`, `vmem_init_from_current`) runs first; then the scheduler
switches between spaces, tasks fault, fork and die. A clone is one step per leaf
entry, because it runs with interrupts enabled; each step may run out of frames
with the upper tables already made. A task's kernel stack is a frame of its own,
allocated by `arch_thread_new` or, at the end of a fork, by `arch_thread_clone_current`. Frame numbers are taken lowest first: which
free frame an allocation returns makes no difference to any property. The kernel
calls `vmem_alloc_pages` once and `vmem_free_pages` never; with `AreaCalls` the runs
use both as an interface. An object allocation never fails here (it cannot return
NULL; see `AreaList`), and the page that it now and then takes for itself, and the
panic when there is none, are left to `AreaList`: the frames of `Vmem` are those of
page tables, pages and stacks.

### Zones and Boot

`Zones` is the arithmetic of `frame_alloc_init` and `zone_add`: the end of what is
reserved, a region cut at it, the estimate for the bitmaps, the aligned start and end.
`Boot` runs it as a part of `kmain`. Its variable `input` holds the data that is being
read, chosen when the first byte is read: the kernel's size, the multiboot tags, the
list of ACPI tables, the MADT's entries, the memory map. Records are `[type, size]`
and the walks move by offsets, so a lost alignment makes the walk look where no record
begins. Checksums are right or wrong. In `idt`, a gate of the interrupt table is the set
of its dwords that are written, since `IDT_ENTRY` clears a dword of the next gate. The APIC's
counter and the PIT take steps of their own (`BusTick`, `PitFire`) during the
calibration, in any order: the PIT may fire before the counter has moved, and the
period then is 0, which the code does not test for. Lengths of MADT entries are not
tested either; 0 is among them. The early page tables are
`KERNEL_SECTIONS_SIZE_IN_GB` directories of `PDES` entries, and the entry of the PML4
is made under the address behind the last page, as `boot/early.c:70` does.

### Console and Terminal

`Console` models a call of `vprintk_color` by what is left of the format and of the
arguments, by `buf` and `size` (-1 while it is indeterminate), and by the characters
that are on their way. A character is three steps: glyph, cursor, test for the end of
the line. The framebuffer has one group of pixels per text column and pixel line, so
a scroll by the wrong number of lines mixes characters. Integers have 16 bits and the
buffer 6 bytes, as 32 bits go with 11 bytes (`INT_BITS`, `PRINTK_BUF_SIZE`). A conversion that
writes past `buf` ends the path at "overrun": what it hits is up to the compiler. An
indeterminate `size` prints up to `MaxGarbage` unknown bytes. `ScreenShowsText` maps a cell to
the character all of whose lines it shows and counts a character from its first pixel
on; under this mapping `Console` implements `Terminal`.

## Runs

Passing:

- `SchedTasks` (4 entries, 3 usable; 3.5 million states): preemption in user mode
  and in all windows except the fork window. Resources, address spaces, exit and
  sleep are right even in the executions in which wakeups get lost; the scheduler halts
  only when nobody is runnable; a wakeup is lost, and the scheduler left with
  interrupts disabled and nobody to run, only by the steps that the properties name.
- `SchedLive` (316 thousand states): preemption in user mode, in `hlt`, in
  `sys_wait` between the test of the child's state and the reaping, and in `sys_fork`
  between publishing the child and setting its `rax`. The protocol of
  fork, exit and wait is right, it implements `ProcessLifecycle`, a child sees 0 unless
  its parent is stopped just there, and runnable tasks
  run, sleepers wake, parents of dead children return from wait.
- `FrameZone` (54 thousand states): a zone of two largest blocks of 4 pages, two callers,
  requests of 1, 2 and 4. The search ends where `exposed` becomes true, since nothing is
  claimed from there on. In this zone rounding keeps the bitmaps apart; the theorems
  below are about every layout.
- `AreaList` (632 thousand states): two callers, two address spaces, two areas of which one
  reaches into the other, two pages of three objects, switches everywhere but inside
  the pop of `object_alloc`.
- `VmemSpaces` (124 thousand states): the init task and two forked ones with writable
  areas that are allocated, touched, freed and inherited. With 24 frames three tasks
  fit and then memory runs out in faults; with 0, 3 and 6 boot panics, with 7 and 9
  `sched_vmem` is left unmade or half made, with 16 a fork or its kernel stack fails.
  `CloneFaithful` compares a clone with its source when the last page was copied.
- `Boot` (222 thousand states): kernels of one to six large pages with two directories of
  three entries: the kernel is mapped exactly up to five, because a sixth page moves the
  PML4 entry to another address; up to three tags in any order and multiplicity (and some of four), up to
  three ACPI tables, two MADT entries, three memory regions.
- `Console` (104 thousand states): two messages on a screen of two rows of three columns,
  with a pixel line to spare and pixels the boot loader left; two printing paths that
  alternate between characters.

Violations, each quoted in `findings`:

- `SchedFirstTick`: the deadline test is the wrong way round, so the first tick of
  a turn preempts and a task past its deadline is never preempted.
- `SchedLostWakeup`: the parent is blocked in `sys_wait`; its child is preempted in
  `sys_exit` after it has marked itself a zombie and before it notifies
  (`kernel/syscall.c:76`). The scheduler cleans it up, it never runs again, and the
  parent is never woken. The other way to lose the wakeup, which needs more steps, is
  a child that dies while the parent is in `sys_wait` between the test of its state and
  the assignment of `wait_pid`. `WakeupLostOnlyThere` says that there is no third.
- `FrameAlias`: overlapping bitmaps. The divisor in `zone_add` is `1 << MAX_ORDER`
  for every order. The bitmaps are disjoint only when rounding up to whole bytes
  leaves enough room, as in the small zone of `FrameZone`; with `MAX_ORDER = 10` it
  never does, as the theorem `BitmapsOverlap` shows.
- `ObjLeak`: every `object_free` cuts the free list.
- `ZoneOverrun`: a zone ends behind the region it is made from. `ZonesApart`, which
  passes, says how far this goes: zones still do not overlap each other, the reserved
  memory or their own bitmaps, because both ends are multiples of the largest block.
  The bitmaps at the start of the *next* region can lie inside the zone (region 30..88
  followed by 89 in the run's memory maps).

Other counterexamples, seen when the constants of a passing run are changed and not
kept as runs of their own:

- `SchedTasks` with `ForkWindow` added to its tick points violates `ResourceSafety`:
  `sched_allocate_task` reserves nothing, and two forks build their children in one
  entry.
- `SchedLive` with `AnyPoint` violates `SleepEnds`: a task is preempted after it has
  marked itself as asleep, waiting or dead; the tick switches to the scheduler with IF
  clear, nobody is runnable, and `hlt` (`sched/sched.c:139`) is never left.
- `SchedLive` with the second disjunct of `ForkZero` removed: the child is published
  before its `rax` is set (`kernel/syscall.c:67`), and sees the number of the system call
  instead of 0 (`sched/user.c:53` takes this for the parent's side).
- `SchedLive` with `wait_pid` added violates `WaitSafe` and the assertion of
  `kernel/syscall.c:107`: the parent is already `TASK_WAITING` while `wait_pid` still
  names the child of an earlier wait, whose entry has been forked again; that child's
  death wakes the parent, which comes back while the child it asked for is alive.
- `SchedLive` with `wait_check` added violates `WaitSafe` and the same assertion: `ppid` is
  never cleared, so a second wait for a child that was already reaped passes the test of
  `kernel/syscall.c:95`; preempted before it reads the state, it finds the entry used by
  another task's child, sees that one die and reaps it, and the real parent comes back to
  an entry that is no zombie.
- `SchedTasks` reaches `cpu = LOST`, a tick inside `sched_switch_to` (the properties
  hold up to that point, and nothing is said of what comes after).
- `FrameZone` without `Unexposed` and with `NoCorruption` violates it; `AreaList` with every point in
  `SwitchPoints` violates `NoDoubleAlloc`: neither allocator is protected from
  preemption.
- `Console` with `SwitchInside = TRUE` violates `CursorInside`: the test for the end of
  a line is an equality, and a path that is preempted between moving the cursor and
  the test lets another path move it past the end for good.
- `FrameZone` reaches the panic of `TakeFitNull`: a request of `2^MAX_ORDER` pages,
  which `pages2order` admits, flips a bit of a NULL bitmap (`mm/frame_alloc.c:196`).
  `Boot` reaches the failing assertion of `zone_add` for a region of exactly
  `2^MAX_ORDER` pages, which the caller's test admits (`mm/frame_alloc.c:74`).
- `VmemSpaces` with little memory maps the frame `BOGUS`: the test for a failed
  allocation in `vmem_handle_pf` is applied to `VIRT_TO_PHYS(NULL)`. With an area that
  is not for users (`{VMEM_WRITE}`) it violates `NoLeak`, because `vmem_unmap_page`
  tests the bit of the other encoding; with a read-only area a write fails the
  `kassert` of `vmem_map_page`; overlapping areas can be allocated, because
  `vmem_intersects` mixes pages and bytes (`mm/vmem.c:331`).
- `Console`'s `%i` prints the previous conversion again, because it leaves `size` alone
  (`FormatError`), or, as the first conversion of a message, whatever is on the stack.
- `Console` reaches "overrun": `%p` of a direct-mapped address (`drivers/acpi.c:54`,
  `drivers/acpi.c:88`) needs 18 bytes and `buf` has 11. `OverrunByPointer` says that this
  is the only conversion that overruns, and from which address on.
- `Boot` reaches a timer period of 0, when the PIT fires before the APIC's counter has
  moved (`drivers/apic.c:200`), and stays at a MADT entry of length 0
  (`drivers/apic.c:143`).

### Bounds

Three usable task entries give a parent, a child and a third task that is a
grandchild, a sibling or an unrelated user of a recycled entry; every race found
needs at most that. `MaxSleep = 1` distinguishes a sleep that is over from one that
is not; `PREEMPT_TICKS = 1` is the smallest turn, and 2 where the deadline itself
is the subject. For the frame allocator, `MAX_ORDER = 2` gives a split and a
merge over two levels. In `Vmem`, `FANOUT = 2` puts the user code and one of the
two stack pages into one page table and the other page into a second one;
`MaxCalls` bounds forks and freed areas, and two are enough for a slot and its frames
to be reused. In `AreaList`, two pages of three objects are enough for two lists with
a head and an area each, for an object to be freed and given out again in the other
list, for a refill with objects in use or while another caller refills, and for running
out. In `Boot`, sizes are no
multiples of the alignment, six large pages cross a directory boundary and fill both directories,
`MAX_ZONE_COUNT = 2` is exceeded, and regions lie below, across and above the reserved
memory, at the size limits and next to each other. `MaxElapsed = 2` lets the counter
reach its end before or after the PIT, or not to move at all. In `Console`, two messages on a screen of six
characters wrap and scroll, with a character of either path before and after; pointers
are one below and at the first that overruns, and `MaxGarbage = 2` unknown bytes can
cross the end of a line.

Deadlock is not checked where a panic ends the model without further steps; `Boot` and
`Console` have a step for the end and check it.

### Fairness

`SchedLive` assumes weak fairness of kernel steps (the CPU executes) and strong
fairness of the timer: the local APIC runs periodically and keeps an interrupt
pending while IF is clear, so a tick that is possible again and again is delivered.
Nothing is assumed of user programs: they may loop for ever. `Boot` assumes weak fairness of `kmain`, of the
bus clock and of the PIT, which are independent hardware. `Console` assumes that a
path that prints gets the CPU again, which is `RunnableRuns` of `SchedLive`.

## Proofs

`SchedProofs` and `SchedRefinement` prove, for every table size, turn length, sleep
bound and every set of tick points that satisfies the stated hypothesis:

| Theorem | Property | Hypothesis on `TickPoints` |
|---|---|---|
| `TypeCorrect`, `ResourcesSafe`, `AddressSpaceSafe`, `ExitsOnce`, `SleepsLongEnough` | `TypeOK`, `ResourceSafety`, `AddressSpace`, `ExitOnce`, `NoEarlyWake` | `NotInFork` |
| `WakeupsLostOnlyThere`, `SchedDeafOnlyThere`, `SchedHaltsOnlyIdle` | `WakeupLostOnlyThere`, `DeafOnlyThere`, `HaltsOnlyIdle` | `NotInFork` |
| `WaitsSafe`, `ZombiesKept`, `SchedForkZero` | `WaitSafe`, `ZombieKept`, `ForkZero` | `NotInWait` |
| `SchedRefines` | `Lifecycle` | `NotInWait` |

`NotInFork` says that the timer does not strike while a fork fills in the entry it
has found, `NotInWait` adds the windows of wait and exit. Each exclusion is needed: see
the violation runs and the counterexamples after them. Under `NotInFork` alone wakeups
get lost and the scheduler can halt with interrupts disabled, and the theorems say by
which steps only; under `NotInWait` the timer may still strike before a child's `rax` is
set.

The properties are not inductive. `IInv` is `TypeOK` with three parts. `MachineOK`
ties CPU, scheduler point, `_current`, CR3 and loop index together: for instance
that the scheduler in `back` has just left task `idx`. `ForkOK` says that an entry
being prepared by a fork is not allocated and that only the running task is in the
fork window: this is what preemption in that window breaks. `StateOK` relates the
state of an entry to the point of its saved context and to `live`: a zombie that is
not active has no context, a sleeper stands in `sys_sleep`, and so on. The additions for
the other theorems are `WaitOK`, who waits for whom; `IrqOK`, who runs or will run with
interrupts disabled; `PassOK`, what a pass over the table that has found nobody knows;
and `RaxOK`, that an entry without a complete register frame is still being published by
its parent. Each was checked by TLC before it was proved. A preservation proof
has one step per action.

The refinement needs one more fact, `ParentOK`: a fork that is about to publish its
child has already made itself the child's parent. There is one lemma per step of a
process's life (dispatch, leaving, fork, exit, block, wake, reap) and one for the
steps that leave all four abstract variables alone.

`AreaListProofs` proves of the pointer updates of `List`, in any memory and for lists of any
length, that they keep a set of nodes well linked: `InitLinks`, `InsertLinks` (the new
node joins exactly where it should) and `ExtractLinks`. A list of one node has to be
excluded from extraction; the code's callers never extract a head.

`FrameAllocProofs`, `AreaListProofs`, `VmemProofs`, `BootProofs` and `ConsoleProofs`, for
every value of the constants that the named assumptions and the hypotheses allow:

| Theorem | Property | Hypothesis |
|---|---|---|
| `FrameTypes` | `TypeOK` | |
| `FrameIntact`, `FrameOwned`, `FrameMerged` | `Intact`, `Owned`, `Merged` | |
| `BitmapsOverlap` | the code's bitmaps are not `DisjointBitmaps` | `order_bitmap_size`, five orders or more |
| `AreaTypes`, `AreaNoDoubleAlloc`, `AreaRingsIntact` | `TypeOK`, `NoDoubleAlloc`, `RingsIntact` | `Undisturbed` |
| `VmemTypes`, `VmemExclusive`, `VmemTablesPermit`, `VmemKernelMapped` | `TypeOK`, `ExclusiveFrames`, `TablesPermit`, `KernelMapped` | |
| `VmemNoLeak` | `NoLeak` | `UserAreas` |
| `BootTypes`, `BootKernelReachable`, `BootParserExact`, `BootLookupFirst`, `BootIrqReady` | `TypeOK`, `KernelReachable`, `ParserExact`, `LookupFirst`, `IrqReady` | |
| `BootZonesApart` | `ZonesApart` | `RegionsApart` |
| `NumeralOfNumber` | a number is what its printed digits say | |
| `ConsoleNumeralsExact` | `NumeralsExact` | |
| `ConsoleCursorInside`, `ConsoleIsTerminal` | `CursorInside`, `ScreenShowsText` | no switch inside a character |
| `ConsoleOverrunByPointer` | `OverrunByPointer` | a buffer of 11 bytes, integers of 32 bits |

**Frame allocator.** The invariant keeps the tree of blocks: every block in the zone is
free, handed out, split or in the hands of the caller, and only one of these (`InZone`,
`OneRole`); a block exists exactly when its parent is split (`Tree`); the bit of a pair is
set exactly when one of its halves is free, and not both are (`BitsOK`); what the caller
has read from a list is still in it (`CallOK`). It holds until `exposed` is true
(`FrameInvariant`), for any layout: what the steps need is only that the pairs that
exist at the moment have bits of their own (`BitsApart`) and that nobody else is inside
(`Serial`). `FrameOwned` follows along the
ancestors of a page: exactly one of them is a whole block. The hypotheses are not
conditions on the constants, which the code's layout would not meet: `BitmapsOverlap` shows
that with five orders or more every zone has two pairs with one bit. So the theorems say
that the algorithm is right in every zone up to the first moment at which the layout or
the missing lock makes a difference, and that there is such a layout problem in every
zone of the kernel.

**Objects and areas.** The invariant says that there is a division of the objects among
the free list, the address spaces and the callers (`Owned`) such that the free objects
form a chain that ends, the objects of a space form one ring through its head, and a
caller has what the point where it stands says it has. The division is not a variable: a
step's proof takes the one before the step and moves the object that changes hands. Rings
are kept by `InsertLinks` and `ExtractLinks`. `Undisturbed` excludes the preemptions
from the moment `next_free` is known to be set up to its update, as the run `AreaList` does; a second
refill, after a preemption between the test and the refill, drops the free objects from
the division and is allowed. With preemptions inside the pop
`NoDoubleAlloc` is violated. The number of callers, spaces, pages and objects is open.

**Address spaces.** `Types` adds to `TypeOK` what a small page's entry says of its frame
(`EntryOK`): a small page on a frame of the allocator is marked `PTE_ALLOC`, a large page
never is on one, so that what `vmem_destroy` and `vmem_unmap_page` give back is what the
allocator had given. `Exclusive`: a frame has at most one reference (a root, a kernel stack,
one entry), a free frame none, and both lie in the memory of boot. The proof of a step says
what it takes from the free frames and what it releases: `Supply` for what a mapping is
given, `MapTables` for the tables that `vmem_ensure_next_table` makes on the way, `Release`
for what a destruction or an unmapping gives back. `Life` says what a space may own at each
stage: one that is not made has no entries and its task no kernel stack, the steps of boot
come in their order, and a task's space in CR3 is complete. `Kept`, for `NoLeak`:
every frame that is not free has a reference. It rests on `UserFrames`, that every private
page has `PTE_USER`, because `vmem_unmap_page` tests the bit of `VMEM_ALLOC` in an entry,
where it is `PTE_USER`; hence the hypothesis `UserAreas`, that areas which are freed have
`VMEM_USER`. It holds in the run and for the only `vmem_alloc_pages` in the repository;
without it a page of a kernel-only area would be lost. `Kernel`: the early tables map the
kernel, the init space as far as `setup_vmem` has got, and so does every complete space,
because a clone is complete only when every page of its source is in it. `CloneFaithful`,
an action property, is left to TLC.

**Boot.** `EarlyOK`: the pages below the next one are mapped; the directory of the last page
of a directory was entered by the page before it, which is why `PDES` has to be above 1;
the address behind the last page lies in the kernel's own PML4 entry exactly if the
directories are not full, which makes `KernelReachable` an equivalence.
`ParseInv`: the parser stands at the k-th tag for some k, and its pointers are the last
tags of their types before it; two tags never begin at the same offset. `LookupOK`: no
table before the index is a MADT. `ReadyOK`: what each phase leaves behind for the later
ones; the gates are filled in ascending order, so the dword that `IDT_ENTRY` clears is not
yet written. `ZonesOK`: zones are good (whole blocks, above the reserved memory, behind
their own bitmaps), each lies between the blocks where its region begins and ends, rounded
up, and no two overlap. `RegionsApart` is that usable regions of the memory map do not
overlap; the order is open. The bitmaps fit because the estimate of `zone_add` covers all
orders, proved from the sum it computes (`EstimateCovers`).

**Console.** `WriterOK`: what a printing path has on its way is what its point in
`vprintk_color` says. `ScreenOK`: the column is inside the line except between moving the
cursor and the test for the end of the line. The hypothesis `~SwitchInside` is that of the
run `Console`; without it `CursorInside` is violated. `NumeralOfNumber` is about the
recursion of the digits. `ConsoleOverrunByPointer` takes the real size of `buf` and of
integers and no hypothesis on what is printed: the digits of a 32-bit number in base ten
and a sign fit, and a pointer of k digits needs k + 2 bytes.

**Induction.** The library's induction theorems take an operator as a parameter and cannot be
used here. `CommonProofs` has induction and recursion in a form without one:
`InductionSet` is about a set of naturals, `Recursion` gives the sequence that a step
function generates. What recursive functions compute (powers of two, digits, offsets of
records, sums of bitmap sizes) is proved from these.

Only model-checked: the liveness properties (`RunnableRuns`, `SleepEnds`, `WaitWakes`,
`BootEnds`, `PrintkReturns`), since fairness and ENABLED are outside the
prover's reach; `CloneFaithful` of `Vmem`; and the refinement of `AreaSpec`
(`AreasAreSequences`), whose mapping is a walk along a list.

## Not modelled

- The switch to 64-bit mode in `boot/boot.asm`: straight-line setup of control
  registers, with nothing that could go another way.
- Page contents, exit codes, registers other than `rax`, the registers of drivers that
  are only written, colours and the font: no property depends on them.
- The TLB. `vmem_unmap_page` does no `invlpg` (`mm/vmem.c:367`), but
  `vmem_free_pages`, its only way in, has no caller.
- `fb_clear`, `fb_draw` and `fb_draw_rect`, which have no caller, and the memory and
  string helpers, which are taken at their meaning.
- The search of `frames_alloc` over several zones: zones share nothing, and the next one
  is asked only after a NULL that changed nothing.
- Faults of the kernel itself, and what a conversion that writes past `buf` hits.
- The page that `object_alloc` takes from the frame allocator, in `Vmem` (it is in
  `AreaList`), and arguments of `sys_wait` outside the table.

## Plan

1. `CloneFaithful` for every number of entries and frames: during a clone, the pages that
   are no longer to be copied are in both spaces with the same flags.
2. `AreasAreSequences` for lists of any length, with the order of a ring as a part of the
   division of the objects.
3. `FrameAlloc`'s free lists on top of `List`.
