------------------------------- MODULE Sched -------------------------------
(***************************************************************************)
(* The scheduler, the process system calls and the timer interrupt of      *)
(* HeavenOS on its single CPU (sched/sched.c, kernel/syscall.c,            *)
(* arch/x86/{irq.c,x86.c,syscall.asm,context_switch.asm}).                 *)
(*                                                                         *)
(* The CPU executes either the scheduler loop of sched_start or one task,  *)
(* in user mode or inside a system call.  System calls run with interrupts *)
(* enabled (syscall_entry executes sti), so the timer interrupt can        *)
(* preempt a task between any two of their statements; a step of the model *)
(* is what happens between two points where that makes a difference.       *)
(* TickPoints is the set of points at which the timer is allowed to        *)
(* strike.  The code excludes none of them: smaller sets are used to say   *)
(* which preemptions break a property and which do not.                    *)
(*                                                                         *)
(* sched_timer is unbounded, but the code only ever compares it with       *)
(* sleep_until and preempt_deadline.  The model keeps the two differences  *)
(* (ticks still to go), saturated where the comparison no longer changes.  *)
(***************************************************************************)
EXTENDS Integers, FiniteSets

CONSTANTS
    MAX_TASK_COUNT,   \* length of tasks[]; entry 0 is never allocated
    PREEMPT_TICKS,    \* ticks granted to a task when it is dispatched
    MaxSleep,         \* bound: longest sleep requested, in ticks
    TickPoints        \* program points where the timer interrupt may strike

Pid  == 1 .. MAX_TASK_COUNT - 1
Slot == 0 .. MAX_TASK_COUNT - 1

NULL  == -1           \* _current == NULL
SCHED == -1           \* the CPU executes sched_start
LOST  == -2           \* the CPU jumped through an overwritten sched_context
SYS_FORK == 1         \* the system call number, in rax when fork is entered

NOT_ALLOCATED == "TASK_NOT_ALLOCATED"
RUNNABLE == "TASK_RUNNABLE"
WAITING  == "TASK_WAITING"
ZOMBIE   == "TASK_ZOMBIE"
SLEEPING == "TASK_SLEEPING"
TaskState == {NOT_ALLOCATED, RUNNABLE, WAITING, ZOMBIE, SLEEPING}

\* Where a task's saved or running context stands: the next step it takes.
TaskPoint == {"none", "iret", "user", "sysret", "panic", "unreachable",
              "sleep_mark", "sleep_yield", "sleep_ret",
              "fork_scan", "fork_clone", "fork_parent", "fork_publish", "fork_rax",
              "exit_notify", "exit_yield",
              "wait_check", "wait_mark", "wait_pid", "wait_yield",
              "wait_resume", "wait_reap"}

\* Where sched_start stands: testing entry idx, in sched_switch_to with
\* _current set (switch_arm) and with the address space loaded (switch_go),
\* waiting for the dispatched task to come back, halted.
SchedPoint == {"scan", "switch_arm", "switch_go", "back", "hlt"}

\* Windows of the code in which a preemption matters.
ForkWindow   == {"fork_clone", "fork_parent", "fork_publish"}
SwitchWindow == {"switch_arm", "switch_go"}
WaitWindow   == {"wait_check", "wait_mark", "wait_pid"}
BlockWindow  == {"sleep_yield", "wait_pid", "wait_yield", "exit_notify", "exit_yield"}

ASSUME SchedAssumption ==
    /\ MAX_TASK_COUNT \in Nat /\ MAX_TASK_COUNT > 1
    /\ PREEMPT_TICKS \in Nat \ {0}
    /\ MaxSleep \in Nat
    /\ TickPoints \subseteq TaskPoint \cup SchedPoint

VARIABLES
    state,      \* tasks[p].state
    ppid,       \* tasks[p].ppid, never cleared
    wait_pid,   \* tasks[p].wait_pid, never cleared
    sleep,      \* tasks[p].sleep_until - sched_timer, 0 once reached
    deadline,   \* _current->preempt_deadline - sched_timer, -1 once passed
    pc,         \* the point of p's saved context, or of p if it is running
    arg,        \* local of p's system call: child (fork), child_pid (wait)
    irq_frame,  \* p was preempted: it resumes through iretq of the timer IRQ
    rax,        \* the rax that pop_and_iret will load into a new task
    live,       \* tasks[p] owns page tables and a kernel stack
    current,    \* _current
    cpu,        \* whose stack the CPU is on: a task, SCHED or LOST
    irq_on,     \* RFLAGS.IF
    vm,         \* curr_vmem: a task's address space, 0 = sched_vmem
    spc,        \* point of sched_start
    idx,        \* loop variable i of sched_start
    found       \* local found of sched_start

taskVars == <<state, ppid, wait_pid, sleep, rax, live>>
loopVars == <<spc, idx, found>>
cpuVars  == <<current, cpu, irq_on, deadline, vm>>
vars == <<state, ppid, wait_pid, sleep, pc, arg, irq_frame, rax, live,
          current, cpu, irq_on, deadline, vm, spc, idx, found>>

\* The state right after irq_enable() in sched_start: setup_init_task has
\* made pid 1 runnable with a zeroed register frame.
Init ==
    /\ state = [p \in Slot |-> IF p = 1 THEN RUNNABLE ELSE NOT_ALLOCATED]
    /\ ppid = [p \in Slot |-> 0]
    /\ wait_pid = [p \in Slot |-> 0]
    /\ sleep = [p \in Slot |-> 0]
    /\ deadline = 0
    /\ pc = [p \in Slot |-> IF p = 1 THEN "iret" ELSE "none"]
    /\ arg = [p \in Slot |-> 0]
    /\ irq_frame = [p \in Slot |-> FALSE]
    /\ rax = [p \in Slot |-> 0]
    /\ live = [p \in Slot |-> p = 1]
    /\ current = NULL
    /\ cpu = SCHED
    /\ irq_on = TRUE
    /\ vm = 0
    /\ spc = "scan"
    /\ idx = 0
    /\ found = FALSE

-----------------------------------------------------------------------------
(***************************************************************************)
(* The scheduler loop.                                                     *)
(***************************************************************************)

OnSched(point) == cpu = SCHED /\ spc = point

\* The for loop reaches an entry that is not to be run.
SchedSkip ==
    /\ OnSched("scan")
    /\ idx < MAX_TASK_COUNT
    /\ state[idx] # RUNNABLE
    /\ ~ (state[idx] = SLEEPING /\ sleep[idx] = 0)
    /\ idx' = idx + 1
    /\ UNCHANGED <<taskVars, pc, arg, irq_frame, cpuVars, spc, found>>

\* Mutant: sleepers are woken without looking at sleep_until.
SchedPick_Early ==
    /\ OnSched("scan")
    /\ idx < MAX_TASK_COUNT
    /\ state[idx] \in {RUNNABLE, SLEEPING}
    /\ state' = [state EXCEPT ![idx] = RUNNABLE]
    /\ current' = idx
    /\ spc' = "switch_arm"
    /\ UNCHANGED <<ppid, wait_pid, sleep, rax, live, pc, arg, irq_frame, cpu,
                   irq_on, deadline, vm, idx, found>>

\* The for loop reaches a runnable entry, or a sleeper whose time has come.
SchedPick ==
    /\ OnSched("scan")
    /\ idx < MAX_TASK_COUNT
    /\ state[idx] = RUNNABLE \/ (state[idx] = SLEEPING /\ sleep[idx] = 0)
    /\ state' = [state EXCEPT ![idx] = RUNNABLE]
    /\ current' = idx
    /\ spc' = "switch_arm"
    /\ UNCHANGED <<ppid, wait_pid, sleep, rax, live, pc, arg, irq_frame, cpu,
                   irq_on, deadline, vm, idx, found>>

\* sched_switch_to sets the deadline and loads the address space.
SchedArm ==
    /\ OnSched("switch_arm")
    /\ deadline' = PREEMPT_TICKS
    /\ vm' = idx
    /\ spc' = "switch_go"
    /\ UNCHANGED <<state, ppid, wait_pid, sleep, rax, live, pc, arg, irq_frame,
                   current, cpu, irq_on, idx, found>>

\* arch_thread_switch into the task.  context_switch does not touch RFLAGS:
\* the task inherits the scheduler's IF, unless it leaves through the iretq
\* of the interrupt that preempted it.
SchedDispatch ==
    /\ OnSched("switch_go")
    /\ cpu' = idx
    /\ spc' = "back"
    /\ irq_on' = (irq_on \/ irq_frame[idx])
    /\ irq_frame' = [irq_frame EXCEPT ![idx] = FALSE]
    /\ UNCHANGED <<taskVars, pc, arg, current, deadline, vm, idx, found>>

\* Mutant: the zombie's resources are not released.
SchedBack_NoCleanup ==
    /\ OnSched("back")
    /\ found' = TRUE
    /\ idx' = idx + 1
    /\ spc' = "scan"
    /\ UNCHANGED <<taskVars, pc, arg, irq_frame, cpuVars>>

\* Mutant: vmem_switch_to(&sched_vmem) is forgotten.
SchedBack_KeepsVmem ==
    /\ OnSched("back")
    /\ found' = TRUE
    /\ live' = [live EXCEPT ![idx] = live[idx] /\ state[idx] # ZOMBIE]
    /\ idx' = idx + 1
    /\ spc' = "scan"
    /\ UNCHANGED <<state, ppid, wait_pid, sleep, rax, pc, arg, irq_frame, cpuVars>>

\* Mutant: every pass stops at the first runnable entry.
SchedBack_Restart ==
    /\ OnSched("back")
    /\ found' = TRUE
    /\ live' = [live EXCEPT ![idx] = live[idx] /\ state[idx] # ZOMBIE]
    /\ vm' = IF state[idx] = ZOMBIE THEN 0 ELSE vm
    /\ idx' = MAX_TASK_COUNT
    /\ spc' = "scan"
    /\ UNCHANGED <<state, ppid, wait_pid, sleep, rax, pc, arg, irq_frame, current,
                   cpu, irq_on, deadline>>

\* The task has switched back; a dead one loses its page tables and its kernel
\* stack, and with the stack its saved context.
SchedBack ==
    /\ OnSched("back")
    /\ found' = TRUE
    /\ IF state[idx] = ZOMBIE
       THEN /\ vm' = 0
            /\ live' = [live EXCEPT ![idx] = FALSE]
            /\ pc' = [pc EXCEPT ![idx] = "none"]
            /\ irq_frame' = [irq_frame EXCEPT ![idx] = FALSE]
       ELSE UNCHANGED <<vm, live, pc, irq_frame>>
    /\ idx' = idx + 1
    /\ spc' = "scan"
    /\ UNCHANGED <<state, ppid, wait_pid, sleep, rax, arg, current, cpu, irq_on,
                   deadline>>

\* Mutant: the test of found is forgotten.
SchedEnd_AlwaysHlt ==
    /\ OnSched("scan")
    /\ idx = MAX_TASK_COUNT
    /\ spc' = "hlt"
    /\ idx' = 0
    /\ found' = FALSE
    /\ UNCHANGED <<taskVars, pc, arg, irq_frame, cpuVars>>

\* End of a pass over the task table: the next pass, or hlt.
SchedEnd ==
    /\ OnSched("scan")
    /\ idx = MAX_TASK_COUNT
    /\ spc' = IF found THEN "scan" ELSE "hlt"
    /\ idx' = 0
    /\ found' = FALSE
    /\ UNCHANGED <<taskVars, pc, arg, irq_frame, cpuVars>>

SchedStep == SchedSkip \/ SchedPick \/ SchedArm \/ SchedDispatch \/ SchedBack \/ SchedEnd

-----------------------------------------------------------------------------
(***************************************************************************)
(* The timer interrupt (irq_handler, timer_handler, sched_timer_tick).     *)
(***************************************************************************)

\* Mutant: sched_timer is not counted.
AdvanceTimer_Stopped == sleep' = sleep

\* sched_timer++, seen from the two fields it is compared with.
AdvanceTimer == sleep' = [p \in Slot |-> IF sleep[p] > 0 THEN sleep[p] - 1 ELSE 0]

\* sched_switch called by the running task: back to the scheduler's stack, IF
\* as it is.  A tick between _current = NULL and context_switch only counts.
\* deadline is meaningless until the next task is armed, and kept at 0.
Yield ==
    /\ current' = NULL
    /\ cpu' = SCHED
    /\ deadline' = 0

\* The test of sched_timer_tick, preempt_deadline >= sched_timer, for a tick
\* that finds deadline ticks to go before it counts itself.
Preempts == deadline - 1 >= 0

\* The timer interrupts task p, in user mode or in a system call.
TickTask(p) ==
    /\ cpu = p
    /\ irq_on
    /\ pc[p] \in TickPoints
    /\ AdvanceTimer
    /\ IF Preempts
       THEN /\ Yield
            /\ irq_frame' = [irq_frame EXCEPT ![p] = TRUE]
            /\ irq_on' = FALSE
       ELSE /\ deadline' = IF deadline >= 0 THEN deadline - 1 ELSE -1
            /\ UNCHANGED <<current, cpu, irq_frame, irq_on>>
    /\ UNCHANGED <<state, ppid, wait_pid, rax, live, pc, arg, vm, loopVars>>

\* The timer interrupts the scheduler while _current is NULL; hlt is left.
TickSched ==
    /\ cpu = SCHED
    /\ spc \notin SwitchWindow
    /\ irq_on
    /\ spc \in TickPoints
    /\ AdvanceTimer
    /\ spc' = IF spc = "hlt" THEN "scan" ELSE spc
    /\ UNCHANGED <<state, ppid, wait_pid, rax, live, pc, arg, irq_frame, cpuVars,
                   idx, found>>

\* The timer interrupts sched_switch_to after it has set _current: the tick
\* takes the scheduler for the task.  sched_switch then saves the scheduler's
\* stack as the task's context and jumps through the sched_context of an
\* earlier switch, whose stack frame is gone.  Before switch_go the deadline
\* compared is the one of the task's previous turn: either outcome.
TickSwitchLost ==
    /\ cpu = SCHED
    /\ spc \in SwitchWindow \cap TickPoints
    /\ irq_on
    /\ spc = "switch_arm" \/ Preempts
    /\ AdvanceTimer
    /\ cpu' = LOST
    /\ current' = NULL
    /\ irq_on' = FALSE
    /\ UNCHANGED <<state, ppid, wait_pid, rax, live, pc, arg, irq_frame, deadline,
                   vm, loopVars>>

TickSwitchLate ==
    /\ OnSched("switch_arm")
    /\ spc \in TickPoints
    /\ irq_on
    /\ AdvanceTimer
    /\ UNCHANGED <<state, ppid, wait_pid, rax, live, pc, arg, irq_frame, cpuVars,
                   loopVars>>

Tick == TickSched \/ TickSwitchLost \/ TickSwitchLate \/ \E p \in Pid : TickTask(p)

-----------------------------------------------------------------------------
(***************************************************************************)
(* Tasks.                                                                  *)
(***************************************************************************)

\* Running task p goes from one point to the next.
Goto(p, from, to) ==
    /\ cpu = p
    /\ pc[p] = from
    /\ pc' = [pc EXCEPT ![p] = to]

\* pop_and_iret: the first entry of a task into user mode.
Iret(p) ==
    /\ Goto(p, "iret", "user")
    /\ irq_on' = TRUE
    /\ UNCHANGED <<taskVars, arg, irq_frame, current, cpu, deadline, vm, loopVars>>

\* The return path of syscall_entry; sysret restores IF.
Sysret(p) ==
    /\ \/ Goto(p, "sysret", "user")
       \/ Goto(p, "sleep_ret", "user")
    /\ irq_on' = TRUE
    /\ arg' = [arg EXCEPT ![p] = 0]
    /\ UNCHANGED <<taskVars, irq_frame, current, cpu, deadline, vm, loopVars>>

\* An exception in user mode other than a page fault in a mapped area:
\* irq_handler panics, with interrupts disabled by the gate.
Fault(p) ==
    /\ Goto(p, "user", "panic")
    /\ irq_on' = FALSE
    /\ UNCHANGED <<taskVars, arg, irq_frame, current, cpu, deadline, vm, loopVars>>

-----------------------------------------------------------------------------
(* sys_sleep *)

\* Mutant: syscall_entry does not execute sti.
SleepSet_NoSti(p) ==
    /\ Goto(p, "user", "sleep_mark")
    /\ \E ticks \in 0 .. MaxSleep : sleep' = [sleep EXCEPT ![p] = ticks]
    /\ irq_on' = FALSE
    /\ UNCHANGED <<state, ppid, wait_pid, rax, live, arg, irq_frame, current, cpu,
                   deadline, vm, loopVars>>

SleepSet(p) ==
    /\ Goto(p, "user", "sleep_mark")
    /\ \E ticks \in 0 .. MaxSleep : sleep' = [sleep EXCEPT ![p] = ticks]
    /\ UNCHANGED <<state, ppid, wait_pid, rax, live, arg, irq_frame, cpuVars,
                   loopVars>>

SleepMark(p) ==
    /\ Goto(p, "sleep_mark", "sleep_yield")
    /\ state' = [state EXCEPT ![p] = SLEEPING]
    /\ UNCHANGED <<ppid, wait_pid, sleep, rax, live, arg, irq_frame, cpuVars,
                   loopVars>>

SleepYield(p) ==
    /\ Goto(p, "sleep_yield", "sleep_ret")
    /\ Yield
    /\ UNCHANGED <<taskVars, arg, irq_frame, irq_on, vm, loopVars>>

-----------------------------------------------------------------------------
(* sys_fork *)

\* Mutant: the search takes entry 0, which is never to be allocated, too.
ForkCall_FromZero(p) ==
    /\ Goto(p, "user", "fork_scan")
    /\ arg' = [arg EXCEPT ![p] = 0]
    /\ UNCHANGED <<taskVars, irq_frame, cpuVars, loopVars>>

ForkCall(p) ==
    /\ Goto(p, "user", "fork_scan")
    /\ arg' = [arg EXCEPT ![p] = 1]
    /\ UNCHANGED <<taskVars, irq_frame, cpuVars, loopVars>>

\* sched_allocate_task: one iteration of the search, which reserves nothing.
ForkScanBusy(p) ==
    /\ Goto(p, "fork_scan", "fork_scan")
    /\ arg[p] < MAX_TASK_COUNT
    /\ state[arg[p]] # NOT_ALLOCATED
    /\ arg' = [arg EXCEPT ![p] = arg[p] + 1]
    /\ UNCHANGED <<taskVars, irq_frame, cpuVars, loopVars>>

ForkScanFree(p) ==
    /\ Goto(p, "fork_scan", "fork_clone")
    /\ arg[p] < MAX_TASK_COUNT
    /\ state[arg[p]] = NOT_ALLOCATED
    /\ UNCHANGED <<taskVars, arg, irq_frame, cpuVars, loopVars>>

\* The table is full: sys_fork uses the NULL it gets, which is a page fault
\* outside every area, and irq_handler panics.
ForkScanFull(p) ==
    /\ Goto(p, "fork_scan", "panic")
    /\ arg[p] = MAX_TASK_COUNT
    /\ irq_on' = FALSE
    /\ UNCHANGED <<taskVars, arg, irq_frame, current, cpu, deadline, vm, loopVars>>

\* vmem_clone and arch_thread_clone_current: the child gets page tables and
\* a kernel stack holding a copy of the parent's registers.
ForkClone(p) ==
    /\ cpu = p
    /\ pc[p] = "fork_clone"
    /\ pc' = [pc EXCEPT ![p] = "fork_parent", ![arg[p]] = "iret"]
    /\ live' = [live EXCEPT ![arg[p]] = TRUE]
    /\ rax' = [rax EXCEPT ![arg[p]] = SYS_FORK]
    /\ irq_frame' = [irq_frame EXCEPT ![arg[p]] = FALSE]
    /\ UNCHANGED <<state, ppid, wait_pid, sleep, arg, cpuVars, loopVars>>

\* -ENOMEM from either: what was allocated for the child stays with the entry.
ForkCloneFail(p) ==
    /\ Goto(p, "fork_clone", "sysret")
    /\ \E kept \in BOOLEAN : live' = [live EXCEPT ![arg[p]] = live[arg[p]] \/ kept]
    /\ UNCHANGED <<state, ppid, wait_pid, sleep, rax, arg, irq_frame, cpuVars,
                   loopVars>>

ForkParent(p) ==
    /\ Goto(p, "fork_parent", "fork_publish")
    /\ ppid' = [ppid EXCEPT ![arg[p]] = p]
    /\ UNCHANGED <<state, wait_pid, sleep, rax, live, arg, irq_frame, cpuVars,
                   loopVars>>

ForkPublish(p) ==
    /\ Goto(p, "fork_publish", "fork_rax")
    /\ state' = [state EXCEPT ![arg[p]] = RUNNABLE]
    /\ UNCHANGED <<ppid, wait_pid, sleep, rax, live, arg, irq_frame, cpuVars,
                   loopVars>>

\* Mutant: rax is set in the registers of the caller.
ForkRax_Own(p) ==
    /\ Goto(p, "fork_rax", "sysret")
    /\ rax' = [rax EXCEPT ![p] = 0]
    /\ UNCHANGED <<state, ppid, wait_pid, sleep, live, arg, irq_frame, cpuVars,
                   loopVars>>

ForkRax(p) ==
    /\ Goto(p, "fork_rax", "sysret")
    /\ rax' = [rax EXCEPT ![arg[p]] = 0]
    /\ UNCHANGED <<state, ppid, wait_pid, sleep, live, arg, irq_frame, cpuVars,
                   loopVars>>

-----------------------------------------------------------------------------
(* sys_exit *)

\* Mutant: the task is not marked as dead.
ExitMark_Runnable(p) ==
    /\ Goto(p, "user", "exit_notify")
    /\ UNCHANGED <<taskVars, arg, irq_frame, cpuVars, loopVars>>

ExitMark(p) ==
    /\ Goto(p, "user", "exit_notify")
    /\ state' = [state EXCEPT ![p] = ZOMBIE]
    /\ UNCHANGED <<ppid, wait_pid, sleep, rax, live, arg, irq_frame, cpuVars,
                   loopVars>>

\* Mutant: the test of wait_pid is forgotten.
ExitNotify_AnyChild(p) ==
    /\ Goto(p, "exit_notify", "exit_yield")
    /\ state' = [state EXCEPT ![ppid[p]] = IF @ = WAITING THEN RUNNABLE ELSE @]
    /\ UNCHANGED <<ppid, wait_pid, sleep, rax, live, arg, irq_frame, cpuVars, loopVars>>

\* Mutant: the test of the parent's state is forgotten.
ExitNotify_AnyState(p) ==
    /\ Goto(p, "exit_notify", "exit_yield")
    /\ state' = [state EXCEPT ![ppid[p]] = IF wait_pid[ppid[p]] = p THEN RUNNABLE ELSE @]
    /\ UNCHANGED <<ppid, wait_pid, sleep, rax, live, arg, irq_frame, cpuVars, loopVars>>

\* Mutant: the parent is not notified.
ExitNotify_Silent(p) ==
    /\ Goto(p, "exit_notify", "exit_yield")
    /\ UNCHANGED <<taskVars, arg, irq_frame, cpuVars, loopVars>>

\* The parent is woken if it waits for this very child.
ExitNotify(p) ==
    /\ Goto(p, "exit_notify", "exit_yield")
    /\ state' = [state EXCEPT ![ppid[p]] =
                    IF state[ppid[p]] = WAITING /\ wait_pid[ppid[p]] = p
                    THEN RUNNABLE ELSE @]
    /\ UNCHANGED <<ppid, wait_pid, sleep, rax, live, arg, irq_frame, cpuVars,
                   loopVars>>

ExitYield(p) ==
    /\ Goto(p, "exit_yield", "unreachable")
    /\ Yield
    /\ UNCHANGED <<taskVars, arg, irq_frame, irq_on, vm, loopVars>>

-----------------------------------------------------------------------------
(* sys_wait.  A wait for something that is not a child returns -ECHILD and  *)
(* changes nothing.  The index is not checked against the table: what lies  *)
(* behind it either does not hold the caller's pid where ppid would be      *)
(* (-ECHILD again), or is not mapped, and the page fault panics as in Fault.*)
(* That foreign memory happens to hold the caller's pid is left out.        *)

WaitCall(p) ==
    /\ Goto(p, "user", "wait_check")
    /\ \E child \in Slot :
          /\ ppid[child] = p
          /\ arg' = [arg EXCEPT ![p] = child]
    /\ UNCHANGED <<taskVars, irq_frame, cpuVars, loopVars>>

WaitCheck(p) ==
    /\ \/ Goto(p, "wait_check", "wait_reap") /\ state[arg[p]] = ZOMBIE
       \/ Goto(p, "wait_check", "wait_mark") /\ state[arg[p]] # ZOMBIE
    /\ UNCHANGED <<taskVars, arg, irq_frame, cpuVars, loopVars>>

WaitMark(p) ==
    /\ Goto(p, "wait_mark", "wait_pid")
    /\ state' = [state EXCEPT ![p] = WAITING]
    /\ UNCHANGED <<ppid, wait_pid, sleep, rax, live, arg, irq_frame, cpuVars,
                   loopVars>>

WaitPid(p) ==
    /\ Goto(p, "wait_pid", "wait_yield")
    /\ wait_pid' = [wait_pid EXCEPT ![p] = arg[p]]
    /\ UNCHANGED <<state, ppid, sleep, rax, live, arg, irq_frame, cpuVars,
                   loopVars>>

WaitYield(p) ==
    /\ Goto(p, "wait_yield", "wait_resume")
    /\ Yield
    /\ UNCHANGED <<taskVars, arg, irq_frame, irq_on, vm, loopVars>>

\* kassert_dbg: the child must be a zombie now.
WaitResume(p) ==
    /\ \/ Goto(p, "wait_resume", "wait_reap") /\ state[arg[p]] = ZOMBIE
       \/ Goto(p, "wait_resume", "panic") /\ state[arg[p]] # ZOMBIE
    /\ UNCHANGED <<taskVars, arg, irq_frame, cpuVars, loopVars>>

\* The status pointer is NULL or writable: the child's entry is freed.
WaitReap(p) ==
    /\ Goto(p, "wait_reap", "sysret")
    /\ state' = [state EXCEPT ![arg[p]] = NOT_ALLOCATED]
    /\ UNCHANGED <<ppid, wait_pid, sleep, rax, live, arg, irq_frame, cpuVars,
                   loopVars>>

\* The status pointer is rejected with -EINVAL: the child stays a zombie.
WaitBadStatus(p) ==
    /\ Goto(p, "wait_reap", "sysret")
    /\ UNCHANGED <<taskVars, arg, irq_frame, cpuVars, loopVars>>

-----------------------------------------------------------------------------
\* Steps of p inside the kernel, and what p may do in user mode.
KernelStep(p) ==
    \/ Iret(p) \/ Sysret(p)
    \/ SleepMark(p) \/ SleepYield(p)
    \/ ForkScanBusy(p) \/ ForkScanFree(p) \/ ForkScanFull(p)
    \/ ForkClone(p) \/ ForkCloneFail(p)
    \/ ForkParent(p) \/ ForkPublish(p) \/ ForkRax(p)
    \/ ExitNotify(p) \/ ExitYield(p)
    \/ WaitCheck(p) \/ WaitMark(p) \/ WaitPid(p) \/ WaitYield(p)
    \/ WaitResume(p) \/ WaitReap(p) \/ WaitBadStatus(p)

UserStep(p) == SleepSet(p) \/ ForkCall(p) \/ ExitMark(p) \/ WaitCall(p) \/ Fault(p)

Kernel == SchedStep \/ \E p \in Pid : KernelStep(p)

Next == Kernel \/ Tick \/ \E p \in Pid : UserStep(p)

Spec == Init /\ [][Next]_vars

\* The CPU keeps executing kernel code, and the APIC keeps a timer interrupt
\* pending until interrupts are enabled, so a tick that is possible again and
\* again is delivered.  Nothing is assumed of user programs.
FairSpec == Spec /\ WF_vars(Kernel) /\ SF_vars(Tick)

-----------------------------------------------------------------------------
(***************************************************************************)
(* Properties.                                                             *)
(***************************************************************************)

TypeOK ==
    /\ state \in [Slot -> TaskState]
    /\ ppid \in [Slot -> Slot]
    /\ wait_pid \in [Slot -> Slot]
    /\ sleep \in [Slot -> Nat]
    /\ deadline \in -1 .. PREEMPT_TICKS
    /\ pc \in [Slot -> TaskPoint]
    /\ arg \in [Slot -> 0 .. MAX_TASK_COUNT]
    /\ irq_frame \in [Slot -> BOOLEAN]
    /\ rax \in [Slot -> {0, SYS_FORK}]
    /\ live \in [Slot -> BOOLEAN]
    /\ current \in Slot \cup {NULL}
    /\ cpu \in Pid \cup {SCHED, LOST}
    /\ irq_on \in BOOLEAN
    /\ vm \in Slot
    /\ spc \in SchedPoint
    /\ idx \in 0 .. MAX_TASK_COUNT
    /\ found \in BOOLEAN

\* The machine has stopped in a panic, or left its code.
Halted ==
    \/ cpu = LOST
    \/ cpu \in Pid /\ pc[cpu] = "panic"

\* p is on the CPU, or has just switched back and its state is not yet looked at.
Active(p) == cpu = p \/ (cpu = SCHED /\ spc = "back" /\ idx = p)

\* A task that can still run owns its page tables and kernel stack; a dead
\* task's are freed exactly once, by the scheduler it came back to
\* (zombie clean-up in sched_start, vmem_destroy and arch_thread_destroy).
ResourceSafety ==
    \A p \in Pid :
        /\ state[p] \in {RUNNABLE, WAITING, SLEEPING} \/ cpu = p => live[p]
        /\ state[p] = ZOMBIE => (live[p] <=> Active(p))

\* CR3 never points to freed page tables, and a running task runs in its own
\* address space as _current (vmem_switch_to in sched_switch_to and before
\* vmem_destroy, whose kassert forbids destroying the current address space).
AddressSpace ==
    /\ vm # 0 => live[vm]
    /\ cpu \in Pid => vm = cpu /\ current = cpu

\* A task that has exited is never resumed (sys_exit, panic_on_reach).
ExitOnce == cpu \in Pid => pc[cpu] \notin {"unreachable", "none"}

\* sys_sleep does not return before the requested number of ticks has passed.
NoEarlyWake == \A p \in Pid : cpu = p /\ pc[p] = "sleep_ret" => sleep[p] = 0

\* What sys_wait relies on when it looks at the child after sleeping
\* (kassert_dbg in sys_wait) and when it frees the child's entry: the child
\* is a zombie of its own whose resources are already released.
WaitSafe ==
    \A p \in Pid : cpu = p /\ pc[p] \in {"wait_resume", "wait_reap"} =>
        /\ state[arg[p]] = ZOMBIE
        /\ ppid[arg[p]] = p
        /\ ~ live[arg[p]]

\* A parent is blocked in sys_wait on a child that is already dead, and the
\* child is not in sys_exit on its way to notify.
WakeupLost(p, c) ==
    /\ state[p] = WAITING /\ pc[p] \in {"wait_yield", "wait_resume"}
    /\ wait_pid[p] = c /\ ppid[c] = p
    /\ state[c] = ZOMBIE
    /\ ~ (cpu = c /\ pc[c] = "exit_notify")

\* A parent blocked in sys_wait on a child that is already dead is about to
\* be woken by it: the child is still in sys_exit, on its way to notify.
NoLostWakeup == \A p, c \in Pid : ~ WakeupLost(p, c)

\* The timer takes the CPU from p at one of the points.
PreemptedAt(p, points) == cpu = p /\ pc[p] \in points /\ cpu' = SCHED /\ irq_frame'[p]

\* There are two ways to lose the wakeup of a parent and no third, wherever
\* the timer strikes: the child is preempted in sys_exit after it has marked
\* itself dead and before it has notified, or it died, to the end, while the
\* parent was in sys_wait between the test of the child's state and the
\* assignment of wait_pid.  Dispatch, clean-up, other children, forks that
\* reuse entries and reaping lose none.
WakeupLostOnlyThere ==
    [][\A p, c \in Pid : ~ WakeupLost(p, c) /\ WakeupLost(p, c)' =>
          \/ PreemptedAt(c, {"exit_notify"})
          \/ cpu = p /\ pc[p] = "wait_pid" /\ arg[p] = c /\ state[c] = ZOMBIE]_vars

\* A forked child sees 0 as the result of fork (user.c tests for it), unless the
\* task that forked it stands preempted between publishing it and setting its
\* rax.  Nothing else shows a child the number of the system call, neither a
\* fork that uses an entry again nor a preemption before or after.
ForkZero ==
    \A c \in Pid : cpu = c /\ pc[c] = "iret" =>
        rax[c] = 0 \/ \E p \in Pid : pc[p] = "fork_rax" /\ arg[p] = c /\ irq_frame[p]

\* The scheduler goes to sleep only when no task could run: a task made
\* runnable behind the loop's index keeps found set, or is met by the next
\* pass (the test of found before hlt in sched_start).
HaltsOnlyIdle == OnSched("hlt") => \A p \in Pid : state[p] # RUNNABLE

\* The scheduler runs with interrupts disabled and has no task to switch to
\* that would enable them: unless a sleeper is due it halts for good.
Deaf == cpu = SCHED /\ ~ irq_on /\ \A p \in Pid : state[p] # RUNNABLE

\* That happens in one way only: the timer preempts a task that has already
\* marked itself blocked or dead but has not reached its sched_switch, so that
\* no runnable task is left whose iretq would restore IF.  A preemption
\* anywhere else, a system call's own sched_switch (syscall_entry has executed
\* sti), a first dispatch and the clean-up of a dead task never lead there.
DeafOnlyThere ==
    [][~ Deaf /\ Deaf' => \E p \in Pid : PreemptedAt(p, BlockWindow)]_vars

\* An entry leaves the zombie state only when its parent reaps it in sys_wait.
ZombieKept ==
    [][\A c \in Pid : state[c] = ZOMBIE /\ state'[c] # ZOMBIE =>
          /\ state'[c] = NOT_ALLOCATED
          /\ cpu = ppid[c] /\ pc[cpu] = "wait_reap" /\ arg[cpu] = c]_vars

\* A task is preempted by the timer only when its CPU time is used up.
PreemptAfterDeadline ==
    [][\A p \in Pid : cpu = p /\ cpu' = SCHED /\ irq_frame'[p] => deadline - 1 <= 0]_vars

\* Every runnable task is dispatched: the pass over the table and the timer
\* preemption leave nobody out.
RunnableRuns == \A p \in Pid : state[p] = RUNNABLE ~> (cpu = p \/ Halted)

\* A sleeper is woken and runs again.
SleepEnds == \A p \in Pid : state[p] = SLEEPING ~> (cpu = p /\ state[p] # SLEEPING) \/ Halted

\* A parent blocked in sys_wait runs again once the child it waits for dies.
WaitWakes ==
    \A p \in Pid :
        (state[p] = WAITING /\ ppid[wait_pid[p]] = p /\ state[wait_pid[p]] = ZOMBIE)
            ~> (cpu = p \/ Halted)
=============================================================================
