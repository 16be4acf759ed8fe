---------------------------- MODULE SchedProofs ----------------------------
(***************************************************************************)
(* Proofs about Sched for every size of the task table, every time slice   *)
(* and every set of preemption points that avoids the windows named in the *)
(* hypotheses.  The window of fork is excluded everywhere; what goes wrong *)
(* in the windows of wait, exit and sleep is itself a theorem: which steps *)
(* lose a wakeup, and which leave the scheduler deaf to the timer.         *)
(***************************************************************************)
EXTENDS Sched, TLAPS

-----------------------------------------------------------------------------
(***************************************************************************)
(* The inductive invariant when no preemption falls into the fork window.  *)
(***************************************************************************)

WaitPoint == {"wait_check", "wait_mark", "wait_pid", "wait_yield", "wait_resume",
              "wait_reap"}
ForkPoint == {"fork_scan", "fork_clone", "fork_parent", "fork_publish", "fork_rax"}
ExitPoint == {"exit_notify", "exit_yield"}

\* What _current, curr_vmem and the loop of sched_start are while a task runs,
\* is being switched to, or has just come back.
MachineOK ==
    /\ state[0] = NOT_ALLOCATED
    /\ cpu \in Pid => current = cpu /\ vm = cpu /\ spc = "back" /\ idx = cpu
    /\ cpu = SCHED /\ spc \in SwitchWindow =>
          idx \in Pid /\ state[idx] = RUNNABLE /\ current = idx
    /\ cpu = SCHED /\ spc = "switch_go" => vm = idx
    /\ cpu = SCHED /\ spc = "back" => idx \in Pid /\ vm = idx
    /\ vm # 0 => live[vm]

\* A fork that has found its entry is on the CPU and has it for itself.
ForkOK ==
    \A p \in Pid :
        /\ ppid[p] # p
        /\ pc[p] \in WaitPoint => arg[p] \in Slot /\ arg[p] # p
        /\ pc[p] \in ForkPoint => arg[p] >= 1
        /\ pc[p] \in ForkWindow =>
              /\ cpu = p /\ arg[p] \in Pid /\ arg[p] # p
              /\ state[arg[p]] = NOT_ALLOCATED
        /\ pc[p] \in {"fork_parent", "fork_publish"} =>
              live[arg[p]] /\ pc[arg[p]] = "iret"

\* How a task's state determines the points it can be at.
StateOK ==
    \A p \in Pid :
        /\ state[p] = WAITING => pc[p] \in {"wait_pid", "wait_yield", "wait_resume"}
        /\ state[p] = SLEEPING => pc[p] \in {"sleep_yield", "sleep_ret"}
        /\ state[p] = RUNNABLE => pc[p] \notin {"none", "unreachable"} \cup ExitPoint
        /\ state[p] = RUNNABLE /\ pc[p] \in {"sleep_yield", "sleep_ret"} => sleep[p] = 0
        /\ cpu = p => /\ state[p] # NOT_ALLOCATED
                      /\ state[p] = ZOMBIE <=> pc[p] \in ExitPoint
                      /\ pc[p] = "sleep_ret" => state[p] = RUNNABLE
                      /\ pc[p] = "wait_resume" => state[p] = RUNNABLE

IInv == TypeOK /\ MachineOK /\ ForkOK /\ StateOK /\ ResourceSafety

\* The inductive invariant of the waits.
WaitOK ==
    \A p \in Pid :
        /\ pc[p] \in WaitWindow \cup {"exit_notify"} => cpu = p
        /\ pc[p] \in WaitWindow => ppid[arg[p]] = p
        /\ pc[p] \in {"wait_mark", "wait_pid"} => state[arg[p]] # ZOMBIE
        /\ pc[p] = "wait_pid" => state[p] = WAITING
        /\ pc[p] \in {"wait_yield", "wait_resume"} => wait_pid[p] = arg[p]
        /\ state[p] = RUNNABLE /\ pc[p] \in {"wait_yield", "wait_resume"}
              => state[arg[p]] = ZOMBIE /\ ppid[arg[p]] = p
        /\ pc[p] = "wait_reap" => state[arg[p]] = ZOMBIE /\ ppid[arg[p]] = p

\* The inductive invariant of the interrupt flag: who runs, or will run, with
\* interrupts disabled is on its way to an iretq or a sysret.
IrqOK ==
    \A p \in Pid :
        /\ cpu # p /\ ~ irq_frame[p] /\ state[p] \in {RUNNABLE, WAITING, SLEEPING}
              => pc[p] \in {"iret", "sleep_ret", "wait_resume"}
        /\ cpu = p /\ ~ irq_on
              => pc[p] \in {"iret", "sleep_ret", "wait_resume", "wait_reap",
                            "sysret", "panic"}

\* The inductive invariant of the registers of forked tasks: one with another
\* rax than 0 is still being made, and who has published it can go on.
Publishing(p, c) == arg[p] = c /\ pc[p] \in {"fork_parent", "fork_publish", "fork_rax"}

RaxOK ==
    /\ \A p \in Pid : pc[p] = "fork_rax" => state[p] = RUNNABLE /\ (cpu = p \/ irq_frame[p])
    /\ \A c \in Pid : pc[c] = "iret" /\ rax[c] # 0 => \E p \in Pid : Publishing(p, c)

\* The inductive invariant of a pass over the table: as long as it has found
\* nothing, no entry behind the index can run.
PassOK ==
    /\ cpu = SCHED /\ spc \in {"scan", "switch_arm", "switch_go"} /\ ~ found
          => \A q \in Pid : q < idx => state[q] # RUNNABLE
    /\ cpu = SCHED /\ spc = "hlt" => \A q \in Pid : state[q] # RUNNABLE

\* Facts about the index sets and the markers outside them.
LEMMA Sets ==
    /\ Pid \subseteq Slot /\ Slot \subseteq 0 .. MAX_TASK_COUNT /\ Slot \subseteq Int
    /\ 0 \in Slot /\ 0 \notin Pid /\ 1 \in 0 .. MAX_TASK_COUNT
    /\ SCHED \notin Slot /\ LOST \notin Slot /\ NULL \notin Slot /\ SCHED # LOST
    /\ \A i \in Slot : i # 0 => i \in Pid
    /\ \A i \in Slot : i + 1 \in 0 .. MAX_TASK_COUNT
    /\ \A i \in 0 .. MAX_TASK_COUNT : i < MAX_TASK_COUNT => i \in Slot
    /\ \A i \in 0 .. MAX_TASK_COUNT : i \in Slot /\ i >= 1 => i \in Pid
  BY SchedAssumption DEF Pid, Slot, SCHED, LOST, NULL

-----------------------------------------------------------------------------
(***************************************************************************)
(* Every step preserves each part of the invariants.  The lemmas of this   *)
(* section have one step per action of Sched.                              *)
(***************************************************************************)

\* The hypotheses on the timer, named for the windows they keep it out of.
NotInFork  == TickPoints \cap ForkWindow = {}
NotInWait  == NotInFork /\ TickPoints \cap (WaitWindow \cup {"exit_notify"}) = {}

\* Type correctness.
LEMMA TypeStep ==
    ASSUME NotInFork, IInv, [Next]_vars
    PROVE  TypeOK'
<1> USE Sets
<1> USE DEF NOT_ALLOCATED, RUNNABLE, WAITING, ZOMBIE, SLEEPING, ForkWindow, SwitchWindow,
            taskVars, cpuVars, loopVars, OnSched, Goto, Yield, AdvanceTimer, Preempts
<1> USE DEF TaskState, TaskPoint, SchedPoint, WaitPoint, ForkPoint, ExitPoint, SYS_FORK,
  IInv, TypeOK, MachineOK, ForkOK
<1>1. CASE SchedSkip
  BY <1>1, SchedAssumption DEF SchedSkip
<1>2. CASE SchedPick
  BY <1>2, SchedAssumption DEF SchedPick
<1>3. CASE SchedArm
  BY <1>3, SchedAssumption DEF SchedArm
<1>4. CASE SchedDispatch
  BY <1>4, SchedAssumption DEF SchedDispatch
<1>5. CASE SchedBack
  <2>1. idx' \in 0 .. MAX_TASK_COUNT /\ vm' \in Slot
    BY <1>5 DEF SchedBack
  <2> HIDE DEF MachineOK, ForkOK
  <2>2. pc' \in [Slot -> TaskPoint]
    BY <1>5 DEF SchedBack
  <2>3. irq_frame' \in [Slot -> BOOLEAN] /\ live' \in [Slot -> BOOLEAN]
    BY <1>5 DEF SchedBack
  <2> QED
    BY <1>5, <2>1, <2>2, <2>3 DEF SchedBack
<1>6. CASE SchedEnd
  BY <1>6, SchedAssumption DEF SchedEnd
<1>7. CASE TickSched
  BY <1>7, SchedAssumption DEF TickSched
<1>8. CASE TickSwitchLost
  <2>1. sleep' \in [Slot -> Nat]
    BY <1>8 DEF TickSwitchLost
  <2> QED
    BY <1>8, <2>1 DEF TickSwitchLost
<1>9. CASE TickSwitchLate
  BY <1>9, SchedAssumption DEF TickSwitchLate
<1>10. ASSUME NEW p \in Pid, TickTask(p) PROVE TypeOK'
  <2>1. sleep' \in [Slot -> Nat]
    BY <1>10 DEF TickTask
  <2>2. deadline' \in -1 .. PREEMPT_TICKS
    <3>1. CASE Preempts
      BY <1>10, <3>1, SchedAssumption DEF TickTask
    <3>2. CASE ~ Preempts
      BY <1>10, <3>2, SchedAssumption DEF TickTask
    <3> QED
      BY <3>1, <3>2
  <2> HIDE DEF MachineOK, ForkOK
  <2>3. irq_on' \in BOOLEAN
    BY <1>10 DEF TickTask
  <2>5. irq_frame' \in [Slot -> BOOLEAN]
    <3>1. CASE irq_frame' = [irq_frame EXCEPT ![p] = TRUE]
      BY <3>1
    <3>2. CASE irq_frame' = irq_frame
      BY <3>2
    <3> QED
      BY <1>10, <3>1, <3>2 DEF TickTask
  <2>4. cpu' \in Pid \cup {SCHED, LOST} /\ current' \in Slot \cup {NULL}
    BY <1>10 DEF TickTask
  <2> QED
    BY <1>10, <2>1, <2>2, <2>3, <2>4, <2>5 DEF TickTask
<1>11. ASSUME NEW p \in Pid, Iret(p) PROVE TypeOK'
  BY <1>11, SchedAssumption DEF Iret
<1>12. ASSUME NEW p \in Pid, Sysret(p) PROVE TypeOK'
  BY <1>12, SchedAssumption DEF Sysret
<1>13. ASSUME NEW p \in Pid, SleepMark(p) PROVE TypeOK'
  BY <1>13, SchedAssumption DEF SleepMark
<1>14. ASSUME NEW p \in Pid, SleepYield(p) PROVE TypeOK'
  BY <1>14, SchedAssumption DEF SleepYield
<1>15. ASSUME NEW p \in Pid, ForkScanBusy(p) PROVE TypeOK'
  BY <1>15, SchedAssumption DEF ForkScanBusy
<1>16. ASSUME NEW p \in Pid, ForkScanFree(p) PROVE TypeOK'
  BY <1>16, SchedAssumption DEF ForkScanFree
<1>17. ASSUME NEW p \in Pid, ForkScanFull(p) PROVE TypeOK'
  BY <1>17, SchedAssumption DEF ForkScanFull
<1>18. ASSUME NEW p \in Pid, ForkClone(p) PROVE TypeOK'
  BY <1>18, SchedAssumption DEF ForkClone
<1>19. ASSUME NEW p \in Pid, ForkCloneFail(p) PROVE TypeOK'
  BY <1>19, SchedAssumption DEF ForkCloneFail
<1>20. ASSUME NEW p \in Pid, ForkParent(p) PROVE TypeOK'
  BY <1>20, SchedAssumption DEF ForkParent
<1>21. ASSUME NEW p \in Pid, ForkPublish(p) PROVE TypeOK'
  BY <1>21, SchedAssumption DEF ForkPublish
<1>22. ASSUME NEW p \in Pid, ForkRax(p) PROVE TypeOK'
  BY <1>22, SchedAssumption DEF ForkRax
<1>23. ASSUME NEW p \in Pid, ExitNotify(p) PROVE TypeOK'
  <2> HIDE DEF MachineOK, ForkOK
  <2>1. pc' \in [Slot -> TaskPoint]
    BY <1>23 DEF ExitNotify
  <2>2. ppid[p] \in Slot
    OBVIOUS
  <2>3. state' \in [Slot -> TaskState]
    BY <1>23, <2>2 DEF ExitNotify
  <2> QED
    BY <1>23, <2>1, <2>3 DEF ExitNotify
<1>24. ASSUME NEW p \in Pid, ExitYield(p) PROVE TypeOK'
  BY <1>24, SchedAssumption DEF ExitYield
<1>25. ASSUME NEW p \in Pid, WaitCheck(p) PROVE TypeOK'
  BY <1>25, SchedAssumption DEF WaitCheck
<1>26. ASSUME NEW p \in Pid, WaitMark(p) PROVE TypeOK'
  BY <1>26, SchedAssumption DEF WaitMark
<1>27. ASSUME NEW p \in Pid, WaitPid(p) PROVE TypeOK'
  BY <1>27, SchedAssumption DEF WaitPid
<1>28. ASSUME NEW p \in Pid, WaitYield(p) PROVE TypeOK'
  BY <1>28, SchedAssumption DEF WaitYield
<1>29. ASSUME NEW p \in Pid, WaitResume(p) PROVE TypeOK'
  BY <1>29, SchedAssumption DEF WaitResume
<1>30. ASSUME NEW p \in Pid, WaitReap(p) PROVE TypeOK'
  BY <1>30, SchedAssumption DEF WaitReap
<1>31. ASSUME NEW p \in Pid, WaitBadStatus(p) PROVE TypeOK'
  BY <1>31, SchedAssumption DEF WaitBadStatus
<1>32. ASSUME NEW p \in Pid, SleepSet(p) PROVE TypeOK'
  BY <1>32, SchedAssumption DEF SleepSet
<1>33. ASSUME NEW p \in Pid, ForkCall(p) PROVE TypeOK'
  BY <1>33, SchedAssumption DEF ForkCall
<1>34. ASSUME NEW p \in Pid, ExitMark(p) PROVE TypeOK'
  BY <1>34, SchedAssumption DEF ExitMark
<1>35. ASSUME NEW p \in Pid, WaitCall(p) PROVE TypeOK'
  BY <1>35, SchedAssumption DEF WaitCall
<1>36. ASSUME NEW p \in Pid, Fault(p) PROVE TypeOK'
  BY <1>36, SchedAssumption DEF Fault
<1>37. CASE UNCHANGED vars
  BY <1>37, SchedAssumption DEF vars
<1> QED
  BY <1>1, <1>2, <1>3, <1>4, <1>5, <1>6, <1>7, <1>8, <1>9, <1>10, <1>11, <1>12, <1>13,
    <1>14, <1>15, <1>16, <1>17, <1>18, <1>19, <1>20, <1>21, <1>22, <1>23, <1>24, <1>25,
    <1>26, <1>27, <1>28, <1>29, <1>30, <1>31, <1>32, <1>33, <1>34, <1>35, <1>36, <1>37
    DEF Next, Kernel, SchedStep, KernelStep, UserStep, Tick

\* The machine's registers and the loop of sched_start.
LEMMA MachineStep ==
    ASSUME NotInFork, IInv, [Next]_vars
    PROVE  MachineOK'
<1> USE Sets
<1> USE DEF NOT_ALLOCATED, RUNNABLE, WAITING, ZOMBIE, SLEEPING, ForkWindow, SwitchWindow,
            taskVars, cpuVars, loopVars, OnSched, Goto, Yield, AdvanceTimer, Preempts
<1> USE DEF WaitPoint, ForkPoint, ExitPoint
<1>1. CASE SchedSkip
  BY <1>1 DEF IInv, TypeOK, MachineOK, ForkOK, StateOK, ResourceSafety, SchedSkip
<1>2. CASE SchedPick
  BY <1>2 DEF IInv, TypeOK, MachineOK, ForkOK, StateOK, ResourceSafety, SchedPick
<1>3. CASE SchedArm
  BY <1>3 DEF IInv, TypeOK, MachineOK, ForkOK, StateOK, ResourceSafety, SchedArm
<1>4. CASE SchedDispatch
  BY <1>4 DEF IInv, TypeOK, MachineOK, ForkOK, StateOK, ResourceSafety, SchedDispatch
<1>5. CASE SchedBack
  BY <1>5 DEF IInv, TypeOK, MachineOK, ForkOK, StateOK, ResourceSafety, SchedBack
<1>6. CASE SchedEnd
  BY <1>6 DEF IInv, TypeOK, MachineOK, ForkOK, StateOK, ResourceSafety, SchedEnd
<1>7. CASE TickSched
  BY <1>7 DEF IInv, TypeOK, MachineOK, TickSched
<1>8. CASE TickSwitchLost
  BY <1>8 DEF IInv, TypeOK, MachineOK, TickSwitchLost
<1>9. CASE TickSwitchLate
  BY <1>9 DEF IInv, TypeOK, MachineOK, TickSwitchLate
<1>10. ASSUME NEW p \in Pid, TickTask(p) PROVE MachineOK'
  BY <1>10 DEF IInv, TypeOK, MachineOK, TickTask
<1>11. ASSUME NEW p \in Pid, Iret(p) PROVE MachineOK'
  BY <1>11 DEF IInv, TypeOK, MachineOK, ForkOK, StateOK, ResourceSafety, Iret
<1>12. ASSUME NEW p \in Pid, Sysret(p) PROVE MachineOK'
  BY <1>12 DEF IInv, TypeOK, MachineOK, ForkOK, StateOK, ResourceSafety, Sysret
<1>13. ASSUME NEW p \in Pid, SleepMark(p) PROVE MachineOK'
  BY <1>13 DEF IInv, TypeOK, MachineOK, ForkOK, StateOK, ResourceSafety, SleepMark
<1>14. ASSUME NEW p \in Pid, SleepYield(p) PROVE MachineOK'
  BY <1>14 DEF IInv, TypeOK, MachineOK, SleepYield
<1>15. ASSUME NEW p \in Pid, ForkScanBusy(p) PROVE MachineOK'
  BY <1>15 DEF IInv, TypeOK, MachineOK, ForkOK, StateOK, ResourceSafety, ForkScanBusy
<1>16. ASSUME NEW p \in Pid, ForkScanFree(p) PROVE MachineOK'
  BY <1>16 DEF IInv, TypeOK, MachineOK, ForkOK, StateOK, ResourceSafety, ForkScanFree
<1>17. ASSUME NEW p \in Pid, ForkScanFull(p) PROVE MachineOK'
  BY <1>17 DEF IInv, TypeOK, MachineOK, ForkOK, StateOK, ResourceSafety, ForkScanFull
<1>18. ASSUME NEW p \in Pid, ForkClone(p) PROVE MachineOK'
  BY <1>18 DEF IInv, TypeOK, MachineOK, ForkOK, StateOK, ResourceSafety, ForkClone
<1>19. ASSUME NEW p \in Pid, ForkCloneFail(p) PROVE MachineOK'
  BY <1>19 DEF IInv, TypeOK, MachineOK, ForkOK, StateOK, ResourceSafety, ForkCloneFail
<1>20. ASSUME NEW p \in Pid, ForkParent(p) PROVE MachineOK'
  BY <1>20 DEF IInv, TypeOK, MachineOK, ForkOK, StateOK, ResourceSafety, ForkParent
<1>21. ASSUME NEW p \in Pid, ForkPublish(p) PROVE MachineOK'
  BY <1>21 DEF IInv, TypeOK, MachineOK, ForkOK, StateOK, ResourceSafety, ForkPublish
<1>22. ASSUME NEW p \in Pid, ForkRax(p) PROVE MachineOK'
  BY <1>22 DEF IInv, TypeOK, MachineOK, ForkOK, StateOK, ResourceSafety, ForkRax
<1>23. ASSUME NEW p \in Pid, ExitNotify(p) PROVE MachineOK'
  BY <1>23 DEF IInv, TypeOK, MachineOK, ForkOK, StateOK, ResourceSafety, ExitNotify
<1>24. ASSUME NEW p \in Pid, ExitYield(p) PROVE MachineOK'
  BY <1>24 DEF IInv, TypeOK, MachineOK, ExitYield
<1>25. ASSUME NEW p \in Pid, WaitCheck(p) PROVE MachineOK'
  BY <1>25 DEF IInv, TypeOK, MachineOK, ForkOK, StateOK, ResourceSafety, WaitCheck
<1>26. ASSUME NEW p \in Pid, WaitMark(p) PROVE MachineOK'
  BY <1>26 DEF IInv, TypeOK, MachineOK, ForkOK, StateOK, ResourceSafety, WaitMark
<1>27. ASSUME NEW p \in Pid, WaitPid(p) PROVE MachineOK'
  BY <1>27 DEF IInv, TypeOK, MachineOK, ForkOK, StateOK, ResourceSafety, WaitPid
<1>28. ASSUME NEW p \in Pid, WaitYield(p) PROVE MachineOK'
  BY <1>28 DEF IInv, TypeOK, MachineOK, WaitYield
<1>29. ASSUME NEW p \in Pid, WaitResume(p) PROVE MachineOK'
  BY <1>29 DEF IInv, TypeOK, MachineOK, ForkOK, StateOK, ResourceSafety, WaitResume
<1>30. ASSUME NEW p \in Pid, WaitReap(p) PROVE MachineOK'
  BY <1>30 DEF IInv, TypeOK, MachineOK, ForkOK, StateOK, ResourceSafety, WaitReap
<1>31. ASSUME NEW p \in Pid, WaitBadStatus(p) PROVE MachineOK'
  BY <1>31 DEF IInv, TypeOK, MachineOK, ForkOK, StateOK, ResourceSafety, WaitBadStatus
<1>32. ASSUME NEW p \in Pid, SleepSet(p) PROVE MachineOK'
  BY <1>32 DEF IInv, TypeOK, MachineOK, ForkOK, StateOK, ResourceSafety, SleepSet
<1>33. ASSUME NEW p \in Pid, ForkCall(p) PROVE MachineOK'
  BY <1>33 DEF IInv, TypeOK, MachineOK, ForkOK, StateOK, ResourceSafety, ForkCall
<1>34. ASSUME NEW p \in Pid, ExitMark(p) PROVE MachineOK'
  BY <1>34 DEF IInv, TypeOK, MachineOK, ForkOK, StateOK, ResourceSafety, ExitMark
<1>35. ASSUME NEW p \in Pid, WaitCall(p) PROVE MachineOK'
  BY <1>35 DEF IInv, TypeOK, MachineOK, ForkOK, StateOK, ResourceSafety, WaitCall
<1>36. ASSUME NEW p \in Pid, Fault(p) PROVE MachineOK'
  BY <1>36 DEF IInv, TypeOK, MachineOK, ForkOK, StateOK, ResourceSafety, Fault
<1>37. CASE UNCHANGED vars
  BY <1>37 DEF IInv, TypeOK, MachineOK, ForkOK, StateOK, ResourceSafety, vars
<1> QED
  BY <1>1, <1>2, <1>3, <1>4, <1>5, <1>6, <1>7, <1>8, <1>9, <1>10, <1>11, <1>12, <1>13,
    <1>14, <1>15, <1>16, <1>17, <1>18, <1>19, <1>20, <1>21, <1>22, <1>23, <1>24, <1>25,
    <1>26, <1>27, <1>28, <1>29, <1>30, <1>31, <1>32, <1>33, <1>34, <1>35, <1>36, <1>37
    DEF Next, Kernel, SchedStep, KernelStep, UserStep, Tick

\* Forks own the entry they prepare.
LEMMA ForkStep ==
    ASSUME NotInFork, IInv, [Next]_vars
    PROVE  ForkOK'
<1> USE Sets
<1> USE DEF NOT_ALLOCATED, RUNNABLE, WAITING, ZOMBIE, SLEEPING, ForkWindow, SwitchWindow,
            taskVars, cpuVars, loopVars, OnSched, Goto, Yield, AdvanceTimer, Preempts
<1> USE DEF WaitPoint, ForkPoint, ExitPoint, NotInFork, IInv, TypeOK, MachineOK, ForkOK,
  StateOK
<1>1. CASE SchedSkip
  BY <1>1 DEF SchedSkip
<1>2. CASE SchedPick
  BY <1>2 DEF SchedPick
<1>3. CASE SchedArm
  BY <1>3 DEF SchedArm
<1>4. CASE SchedDispatch
  BY <1>4 DEF SchedDispatch
<1>5. CASE SchedBack
  BY <1>5 DEF SchedBack
<1>6. CASE SchedEnd
  BY <1>6 DEF SchedEnd
<1>7. CASE TickSched
  BY <1>7 DEF TickSched
<1>8. CASE TickSwitchLost
  BY <1>8 DEF TickSwitchLost
<1>9. CASE TickSwitchLate
  BY <1>9 DEF TickSwitchLate
<1>10. ASSUME NEW p \in Pid, TickTask(p) PROVE ForkOK'
  BY <1>10 DEF TickTask
<1>11. ASSUME NEW p \in Pid, Iret(p) PROVE ForkOK'
  BY <1>11 DEF Iret
<1>12. ASSUME NEW p \in Pid, Sysret(p) PROVE ForkOK'
  BY <1>12 DEF Sysret
<1>13. ASSUME NEW p \in Pid, SleepMark(p) PROVE ForkOK'
  BY <1>13 DEF SleepMark
<1>14. ASSUME NEW p \in Pid, SleepYield(p) PROVE ForkOK'
  BY <1>14 DEF SleepYield
<1>15. ASSUME NEW p \in Pid, ForkScanBusy(p) PROVE ForkOK'
  BY <1>15 DEF ForkScanBusy
<1>16. ASSUME NEW p \in Pid, ForkScanFree(p) PROVE ForkOK'
  BY <1>16 DEF ForkScanFree
<1>17. ASSUME NEW p \in Pid, ForkScanFull(p) PROVE ForkOK'
  BY <1>17 DEF ForkScanFull
<1>18. ASSUME NEW p \in Pid, ForkClone(p) PROVE ForkOK'
  BY <1>18 DEF ForkClone
<1>19. ASSUME NEW p \in Pid, ForkCloneFail(p) PROVE ForkOK'
  BY <1>19 DEF ForkCloneFail
<1>20. ASSUME NEW p \in Pid, ForkParent(p) PROVE ForkOK'
  BY <1>20 DEF ForkParent
<1>21. ASSUME NEW p \in Pid, ForkPublish(p) PROVE ForkOK'
  BY <1>21 DEF ForkPublish
<1>22. ASSUME NEW p \in Pid, ForkRax(p) PROVE ForkOK'
  BY <1>22 DEF ForkRax
<1>23. ASSUME NEW p \in Pid, ExitNotify(p) PROVE ForkOK'
  BY <1>23 DEF ExitNotify
<1>24. ASSUME NEW p \in Pid, ExitYield(p) PROVE ForkOK'
  BY <1>24 DEF ExitYield
<1>25. ASSUME NEW p \in Pid, WaitCheck(p) PROVE ForkOK'
  BY <1>25 DEF WaitCheck
<1>26. ASSUME NEW p \in Pid, WaitMark(p) PROVE ForkOK'
  BY <1>26 DEF WaitMark
<1>27. ASSUME NEW p \in Pid, WaitPid(p) PROVE ForkOK'
  BY <1>27 DEF WaitPid
<1>28. ASSUME NEW p \in Pid, WaitYield(p) PROVE ForkOK'
  BY <1>28 DEF WaitYield
<1>29. ASSUME NEW p \in Pid, WaitResume(p) PROVE ForkOK'
  BY <1>29 DEF WaitResume
<1>30. ASSUME NEW p \in Pid, WaitReap(p) PROVE ForkOK'
  BY <1>30 DEF WaitReap
<1>31. ASSUME NEW p \in Pid, WaitBadStatus(p) PROVE ForkOK'
  BY <1>31 DEF WaitBadStatus
<1>32. ASSUME NEW p \in Pid, SleepSet(p) PROVE ForkOK'
  BY <1>32 DEF SleepSet
<1>33. ASSUME NEW p \in Pid, ForkCall(p) PROVE ForkOK'
  BY <1>33 DEF ForkCall
<1>34. ASSUME NEW p \in Pid, ExitMark(p) PROVE ForkOK'
  BY <1>34 DEF ExitMark
<1>35. ASSUME NEW p \in Pid, WaitCall(p) PROVE ForkOK'
  BY <1>35 DEF WaitCall
<1>36. ASSUME NEW p \in Pid, Fault(p) PROVE ForkOK'
  BY <1>36 DEF Fault
<1>37. CASE UNCHANGED vars
  BY <1>37 DEF vars
<1> QED
  BY <1>1, <1>2, <1>3, <1>4, <1>5, <1>6, <1>7, <1>8, <1>9, <1>10, <1>11, <1>12, <1>13,
    <1>14, <1>15, <1>16, <1>17, <1>18, <1>19, <1>20, <1>21, <1>22, <1>23, <1>24, <1>25,
    <1>26, <1>27, <1>28, <1>29, <1>30, <1>31, <1>32, <1>33, <1>34, <1>35, <1>36, <1>37
    DEF Next, Kernel, SchedStep, KernelStep, UserStep, Tick

\* States and points of tasks agree.
LEMMA StateStep ==
    ASSUME NotInFork, IInv, [Next]_vars
    PROVE  StateOK'
<1> USE Sets
<1> USE DEF NOT_ALLOCATED, RUNNABLE, WAITING, ZOMBIE, SLEEPING, ForkWindow, SwitchWindow,
            taskVars, cpuVars, loopVars, OnSched, Goto, Yield, AdvanceTimer, Preempts
<1> USE DEF WaitPoint, ForkPoint, ExitPoint, IInv, TypeOK, MachineOK, ForkOK, StateOK
<1>1. CASE SchedSkip
  BY <1>1 DEF SchedSkip
<1>2. CASE SchedPick
  BY <1>2 DEF SchedPick
<1>3. CASE SchedArm
  BY <1>3 DEF SchedArm
<1>4. CASE SchedDispatch
  BY <1>4 DEF SchedDispatch
<1>5. CASE SchedBack
  BY <1>5 DEF SchedBack
<1>6. CASE SchedEnd
  BY <1>6 DEF SchedEnd
<1>7. CASE TickSched
  BY <1>7 DEF TickSched
<1>8. CASE TickSwitchLost
  BY <1>8 DEF TickSwitchLost
<1>9. CASE TickSwitchLate
  BY <1>9 DEF TickSwitchLate
<1>10. ASSUME NEW p \in Pid, TickTask(p) PROVE StateOK'
  <2>1. cpu' = cpu \/ (cpu' = SCHED /\ spc' = "back" /\ idx' = p)
    BY <1>10 DEF TickTask
  <2>2. \A q \in Slot : sleep[q] = 0 => sleep'[q] = 0
    BY <1>10 DEF TickTask
  <2> QED
    BY <1>10, <2>1, <2>2 DEF TickTask
<1>11. ASSUME NEW p \in Pid, Iret(p) PROVE StateOK'
  BY <1>11 DEF Iret
<1>12. ASSUME NEW p \in Pid, Sysret(p) PROVE StateOK'
  BY <1>12 DEF Sysret
<1>13. ASSUME NEW p \in Pid, SleepMark(p) PROVE StateOK'
  BY <1>13 DEF SleepMark
<1>14. ASSUME NEW p \in Pid, SleepYield(p) PROVE StateOK'
  BY <1>14 DEF SleepYield
<1>15. ASSUME NEW p \in Pid, ForkScanBusy(p) PROVE StateOK'
  BY <1>15 DEF ForkScanBusy
<1>16. ASSUME NEW p \in Pid, ForkScanFree(p) PROVE StateOK'
  BY <1>16 DEF ForkScanFree
<1>17. ASSUME NEW p \in Pid, ForkScanFull(p) PROVE StateOK'
  BY <1>17 DEF ForkScanFull
<1>18. ASSUME NEW p \in Pid, ForkClone(p) PROVE StateOK'
  BY <1>18 DEF ForkClone
<1>19. ASSUME NEW p \in Pid, ForkCloneFail(p) PROVE StateOK'
  BY <1>19 DEF ForkCloneFail
<1>20. ASSUME NEW p \in Pid, ForkParent(p) PROVE StateOK'
  BY <1>20 DEF ForkParent
<1>21. ASSUME NEW p \in Pid, ForkPublish(p) PROVE StateOK'
  BY <1>21 DEF ForkPublish
<1>22. ASSUME NEW p \in Pid, ForkRax(p) PROVE StateOK'
  BY <1>22 DEF ForkRax
<1>23. ASSUME NEW p \in Pid, ExitNotify(p) PROVE StateOK'
  BY <1>23 DEF ExitNotify
<1>24. ASSUME NEW p \in Pid, ExitYield(p) PROVE StateOK'
  BY <1>24 DEF ExitYield
<1>25. ASSUME NEW p \in Pid, WaitCheck(p) PROVE StateOK'
  BY <1>25 DEF WaitCheck
<1>26. ASSUME NEW p \in Pid, WaitMark(p) PROVE StateOK'
  BY <1>26 DEF WaitMark
<1>27. ASSUME NEW p \in Pid, WaitPid(p) PROVE StateOK'
  BY <1>27 DEF WaitPid
<1>28. ASSUME NEW p \in Pid, WaitYield(p) PROVE StateOK'
  BY <1>28 DEF WaitYield
<1>29. ASSUME NEW p \in Pid, WaitResume(p) PROVE StateOK'
  BY <1>29 DEF WaitResume
<1>30. ASSUME NEW p \in Pid, WaitReap(p) PROVE StateOK'
  BY <1>30 DEF WaitReap
<1>31. ASSUME NEW p \in Pid, WaitBadStatus(p) PROVE StateOK'
  BY <1>31 DEF WaitBadStatus
<1>32. ASSUME NEW p \in Pid, SleepSet(p) PROVE StateOK'
  BY <1>32 DEF SleepSet
<1>33. ASSUME NEW p \in Pid, ForkCall(p) PROVE StateOK'
  BY <1>33 DEF ForkCall
<1>34. ASSUME NEW p \in Pid, ExitMark(p) PROVE StateOK'
  BY <1>34 DEF ExitMark
<1>35. ASSUME NEW p \in Pid, WaitCall(p) PROVE StateOK'
  BY <1>35 DEF WaitCall
<1>36. ASSUME NEW p \in Pid, Fault(p) PROVE StateOK'
  BY <1>36 DEF Fault
<1>37. CASE UNCHANGED vars
  BY <1>37 DEF vars
<1> QED
  BY <1>1, <1>2, <1>3, <1>4, <1>5, <1>6, <1>7, <1>8, <1>9, <1>10, <1>11, <1>12, <1>13,
    <1>14, <1>15, <1>16, <1>17, <1>18, <1>19, <1>20, <1>21, <1>22, <1>23, <1>24, <1>25,
    <1>26, <1>27, <1>28, <1>29, <1>30, <1>31, <1>32, <1>33, <1>34, <1>35, <1>36, <1>37
    DEF Next, Kernel, SchedStep, KernelStep, UserStep, Tick

\* Only a dead task loses its resources, once.
LEMMA ResourceStep ==
    ASSUME NotInFork, IInv, [Next]_vars
    PROVE  ResourceSafety'
<1> USE Sets
<1> USE DEF NOT_ALLOCATED, RUNNABLE, WAITING, ZOMBIE, SLEEPING, ForkWindow, SwitchWindow,
            taskVars, cpuVars, loopVars, OnSched, Goto, Yield, AdvanceTimer, Preempts
<1> USE DEF WaitPoint, ForkPoint, ExitPoint, Active, IInv, TypeOK, MachineOK, ForkOK,
  StateOK, ResourceSafety
<1>1. CASE SchedSkip
  BY <1>1 DEF SchedSkip
<1>2. CASE SchedPick
  BY <1>2 DEF SchedPick
<1>3. CASE SchedArm
  BY <1>3 DEF SchedArm
<1>4. CASE SchedDispatch
  BY <1>4 DEF SchedDispatch
<1>5. CASE SchedBack
  BY <1>5 DEF SchedBack
<1>6. CASE SchedEnd
  BY <1>6 DEF SchedEnd
<1>7. CASE TickSched
  BY <1>7 DEF TickSched
<1>8. CASE TickSwitchLost
  BY <1>8 DEF TickSwitchLost
<1>9. CASE TickSwitchLate
  BY <1>9 DEF TickSwitchLate
<1>10. ASSUME NEW p \in Pid, TickTask(p) PROVE ResourceSafety'
  <2>1. cpu' = cpu \/ (cpu' = SCHED /\ spc' = "back" /\ idx' = p)
    BY <1>10 DEF TickTask
  <2> QED
    BY <1>10, <2>1 DEF TickTask
<1>11. ASSUME NEW p \in Pid, Iret(p) PROVE ResourceSafety'
  BY <1>11 DEF Iret
<1>12. ASSUME NEW p \in Pid, Sysret(p) PROVE ResourceSafety'
  BY <1>12 DEF Sysret
<1>13. ASSUME NEW p \in Pid, SleepMark(p) PROVE ResourceSafety'
  BY <1>13 DEF SleepMark
<1>14. ASSUME NEW p \in Pid, SleepYield(p) PROVE ResourceSafety'
  BY <1>14 DEF SleepYield
<1>15. ASSUME NEW p \in Pid, ForkScanBusy(p) PROVE ResourceSafety'
  BY <1>15 DEF ForkScanBusy
<1>16. ASSUME NEW p \in Pid, ForkScanFree(p) PROVE ResourceSafety'
  BY <1>16 DEF ForkScanFree
<1>17. ASSUME NEW p \in Pid, ForkScanFull(p) PROVE ResourceSafety'
  BY <1>17 DEF ForkScanFull
<1>18. ASSUME NEW p \in Pid, ForkClone(p) PROVE ResourceSafety'
  BY <1>18 DEF ForkClone
<1>19. ASSUME NEW p \in Pid, ForkCloneFail(p) PROVE ResourceSafety'
  BY <1>19 DEF ForkCloneFail
<1>20. ASSUME NEW p \in Pid, ForkParent(p) PROVE ResourceSafety'
  BY <1>20 DEF ForkParent
<1>21. ASSUME NEW p \in Pid, ForkPublish(p) PROVE ResourceSafety'
  BY <1>21 DEF ForkPublish
<1>22. ASSUME NEW p \in Pid, ForkRax(p) PROVE ResourceSafety'
  BY <1>22 DEF ForkRax
<1>23. ASSUME NEW p \in Pid, ExitNotify(p) PROVE ResourceSafety'
  BY <1>23 DEF ExitNotify
<1>24. ASSUME NEW p \in Pid, ExitYield(p) PROVE ResourceSafety'
  BY <1>24 DEF ExitYield
<1>25. ASSUME NEW p \in Pid, WaitCheck(p) PROVE ResourceSafety'
  BY <1>25 DEF WaitCheck
<1>26. ASSUME NEW p \in Pid, WaitMark(p) PROVE ResourceSafety'
  BY <1>26 DEF WaitMark
<1>27. ASSUME NEW p \in Pid, WaitPid(p) PROVE ResourceSafety'
  BY <1>27 DEF WaitPid
<1>28. ASSUME NEW p \in Pid, WaitYield(p) PROVE ResourceSafety'
  BY <1>28 DEF WaitYield
<1>29. ASSUME NEW p \in Pid, WaitResume(p) PROVE ResourceSafety'
  BY <1>29 DEF WaitResume
<1>30. ASSUME NEW p \in Pid, WaitReap(p) PROVE ResourceSafety'
  BY <1>30 DEF WaitReap
<1>31. ASSUME NEW p \in Pid, WaitBadStatus(p) PROVE ResourceSafety'
  BY <1>31 DEF WaitBadStatus
<1>32. ASSUME NEW p \in Pid, SleepSet(p) PROVE ResourceSafety'
  BY <1>32 DEF SleepSet
<1>33. ASSUME NEW p \in Pid, ForkCall(p) PROVE ResourceSafety'
  BY <1>33 DEF ForkCall
<1>34. ASSUME NEW p \in Pid, ExitMark(p) PROVE ResourceSafety'
  BY <1>34 DEF ExitMark
<1>35. ASSUME NEW p \in Pid, WaitCall(p) PROVE ResourceSafety'
  BY <1>35 DEF WaitCall
<1>36. ASSUME NEW p \in Pid, Fault(p) PROVE ResourceSafety'
  BY <1>36 DEF Fault
<1>37. CASE UNCHANGED vars
  BY <1>37 DEF vars
<1> QED
  BY <1>1, <1>2, <1>3, <1>4, <1>5, <1>6, <1>7, <1>8, <1>9, <1>10, <1>11, <1>12, <1>13,
    <1>14, <1>15, <1>16, <1>17, <1>18, <1>19, <1>20, <1>21, <1>22, <1>23, <1>24, <1>25,
    <1>26, <1>27, <1>28, <1>29, <1>30, <1>31, <1>32, <1>33, <1>34, <1>35, <1>36, <1>37, SMTT(30)
    DEF Next, Kernel, SchedStep, KernelStep, UserStep, Tick

\* Waits.
LEMMA WaitStep ==
    ASSUME NotInWait, IInv, WaitOK, [Next]_vars
    PROVE  WaitOK'
<1> USE Sets
<1> USE DEF NOT_ALLOCATED, RUNNABLE, WAITING, ZOMBIE, SLEEPING, ForkWindow, SwitchWindow,
            taskVars, cpuVars, loopVars, OnSched, Goto, Yield, AdvanceTimer, Preempts
<1> USE DEF WaitPoint, ForkPoint, ExitPoint, WaitWindow, NotInWait, NotInFork, IInv,
  TypeOK, MachineOK, ForkOK, StateOK, WaitOK
<1>1. CASE SchedSkip
  BY <1>1 DEF SchedSkip
<1>2. CASE SchedPick
  BY <1>2 DEF SchedPick
<1>3. CASE SchedArm
  BY <1>3 DEF SchedArm
<1>4. CASE SchedDispatch
  BY <1>4 DEF SchedDispatch
<1>5. CASE SchedBack
  BY <1>5 DEF SchedBack
<1>6. CASE SchedEnd
  BY <1>6 DEF SchedEnd
<1>7. CASE TickSched
  BY <1>7 DEF TickSched
<1>8. CASE TickSwitchLost
  BY <1>8 DEF TickSwitchLost
<1>9. CASE TickSwitchLate
  BY <1>9 DEF TickSwitchLate
<1>10. ASSUME NEW p \in Pid, TickTask(p) PROVE WaitOK'
  BY <1>10 DEF TickTask
<1>11. ASSUME NEW p \in Pid, Iret(p) PROVE WaitOK'
  BY <1>11 DEF Iret
<1>12. ASSUME NEW p \in Pid, Sysret(p) PROVE WaitOK'
  BY <1>12 DEF Sysret
<1>13. ASSUME NEW p \in Pid, SleepMark(p) PROVE WaitOK'
  BY <1>13 DEF SleepMark
<1>14. ASSUME NEW p \in Pid, SleepYield(p) PROVE WaitOK'
  BY <1>14 DEF SleepYield
<1>15. ASSUME NEW p \in Pid, ForkScanBusy(p) PROVE WaitOK'
  BY <1>15 DEF ForkScanBusy
<1>16. ASSUME NEW p \in Pid, ForkScanFree(p) PROVE WaitOK'
  BY <1>16 DEF ForkScanFree
<1>17. ASSUME NEW p \in Pid, ForkScanFull(p) PROVE WaitOK'
  BY <1>17 DEF ForkScanFull
<1>18. ASSUME NEW p \in Pid, ForkClone(p) PROVE WaitOK'
  BY <1>18 DEF ForkClone
<1>19. ASSUME NEW p \in Pid, ForkCloneFail(p) PROVE WaitOK'
  BY <1>19 DEF ForkCloneFail
<1>20. ASSUME NEW p \in Pid, ForkParent(p) PROVE WaitOK'
  BY <1>20 DEF ForkParent
<1>21. ASSUME NEW p \in Pid, ForkPublish(p) PROVE WaitOK'
  BY <1>21 DEF ForkPublish
<1>22. ASSUME NEW p \in Pid, ForkRax(p) PROVE WaitOK'
  BY <1>22 DEF ForkRax
<1>23. ASSUME NEW p \in Pid, ExitNotify(p) PROVE WaitOK'
  BY <1>23 DEF ExitNotify
<1>24. ASSUME NEW p \in Pid, ExitYield(p) PROVE WaitOK'
  BY <1>24 DEF ExitYield
<1>25. ASSUME NEW p \in Pid, WaitCheck(p) PROVE WaitOK'
  BY <1>25 DEF WaitCheck
<1>26. ASSUME NEW p \in Pid, WaitMark(p) PROVE WaitOK'
  BY <1>26 DEF WaitMark
<1>27. ASSUME NEW p \in Pid, WaitPid(p) PROVE WaitOK'
  BY <1>27 DEF WaitPid
<1>28. ASSUME NEW p \in Pid, WaitYield(p) PROVE WaitOK'
  BY <1>28 DEF WaitYield
<1>29. ASSUME NEW p \in Pid, WaitResume(p) PROVE WaitOK'
  BY <1>29 DEF WaitResume
<1>30. ASSUME NEW p \in Pid, WaitReap(p) PROVE WaitOK'
  BY <1>30 DEF WaitReap
<1>31. ASSUME NEW p \in Pid, WaitBadStatus(p) PROVE WaitOK'
  BY <1>31 DEF WaitBadStatus
<1>32. ASSUME NEW p \in Pid, SleepSet(p) PROVE WaitOK'
  BY <1>32 DEF SleepSet
<1>33. ASSUME NEW p \in Pid, ForkCall(p) PROVE WaitOK'
  BY <1>33 DEF ForkCall
<1>34. ASSUME NEW p \in Pid, ExitMark(p) PROVE WaitOK'
  BY <1>34 DEF ExitMark
<1>35. ASSUME NEW p \in Pid, WaitCall(p) PROVE WaitOK'
  BY <1>35 DEF WaitCall
<1>36. ASSUME NEW p \in Pid, Fault(p) PROVE WaitOK'
  BY <1>36 DEF Fault
<1>37. CASE UNCHANGED vars
  BY <1>37 DEF vars
<1> QED
  BY <1>1, <1>2, <1>3, <1>4, <1>5, <1>6, <1>7, <1>8, <1>9, <1>10, <1>11, <1>12, <1>13,
    <1>14, <1>15, <1>16, <1>17, <1>18, <1>19, <1>20, <1>21, <1>22, <1>23, <1>24, <1>25,
    <1>26, <1>27, <1>28, <1>29, <1>30, <1>31, <1>32, <1>33, <1>34, <1>35, <1>36, <1>37
    DEF Next, Kernel, SchedStep, KernelStep, UserStep, Tick

\* Wakeups.
LEMMA WakeupStep ==
    ASSUME NotInWait, IInv, WaitOK, NoLostWakeup, [Next]_vars
    PROVE  NoLostWakeup'
<1> USE Sets
<1> USE DEF NOT_ALLOCATED, RUNNABLE, WAITING, ZOMBIE, SLEEPING, ForkWindow, SwitchWindow,
            taskVars, cpuVars, loopVars, OnSched, Goto, Yield, AdvanceTimer, Preempts
<1> USE DEF WaitPoint, ForkPoint, ExitPoint, WaitWindow, NotInWait, NotInFork, IInv,
  TypeOK, MachineOK, ForkOK, StateOK, WaitOK, NoLostWakeup, WakeupLost
<1>1. CASE SchedSkip
  BY <1>1 DEF SchedSkip
<1>2. CASE SchedPick
  BY <1>2 DEF SchedPick
<1>3. CASE SchedArm
  BY <1>3 DEF SchedArm
<1>4. CASE SchedDispatch
  BY <1>4 DEF SchedDispatch
<1>5. CASE SchedBack
  BY <1>5 DEF SchedBack
<1>6. CASE SchedEnd
  BY <1>6 DEF SchedEnd
<1>7. CASE TickSched
  BY <1>7 DEF TickSched
<1>8. CASE TickSwitchLost
  BY <1>8 DEF TickSwitchLost
<1>9. CASE TickSwitchLate
  BY <1>9 DEF TickSwitchLate
<1>10. ASSUME NEW p \in Pid, TickTask(p) PROVE NoLostWakeup'
  BY <1>10 DEF TickTask
<1>11. ASSUME NEW p \in Pid, Iret(p) PROVE NoLostWakeup'
  BY <1>11 DEF Iret
<1>12. ASSUME NEW p \in Pid, Sysret(p) PROVE NoLostWakeup'
  BY <1>12 DEF Sysret
<1>13. ASSUME NEW p \in Pid, SleepMark(p) PROVE NoLostWakeup'
  BY <1>13 DEF SleepMark
<1>14. ASSUME NEW p \in Pid, SleepYield(p) PROVE NoLostWakeup'
  BY <1>14 DEF SleepYield
<1>15. ASSUME NEW p \in Pid, ForkScanBusy(p) PROVE NoLostWakeup'
  BY <1>15 DEF ForkScanBusy
<1>16. ASSUME NEW p \in Pid, ForkScanFree(p) PROVE NoLostWakeup'
  BY <1>16 DEF ForkScanFree
<1>17. ASSUME NEW p \in Pid, ForkScanFull(p) PROVE NoLostWakeup'
  BY <1>17 DEF ForkScanFull
<1>18. ASSUME NEW p \in Pid, ForkClone(p) PROVE NoLostWakeup'
  BY <1>18 DEF ForkClone
<1>19. ASSUME NEW p \in Pid, ForkCloneFail(p) PROVE NoLostWakeup'
  BY <1>19 DEF ForkCloneFail
<1>20. ASSUME NEW p \in Pid, ForkParent(p) PROVE NoLostWakeup'
  BY <1>20 DEF ForkParent
<1>21. ASSUME NEW p \in Pid, ForkPublish(p) PROVE NoLostWakeup'
  BY <1>21 DEF ForkPublish
<1>22. ASSUME NEW p \in Pid, ForkRax(p) PROVE NoLostWakeup'
  BY <1>22 DEF ForkRax
<1>23. ASSUME NEW p \in Pid, ExitNotify(p) PROVE NoLostWakeup'
  BY <1>23 DEF ExitNotify
<1>24. ASSUME NEW p \in Pid, ExitYield(p) PROVE NoLostWakeup'
  BY <1>24 DEF ExitYield
<1>25. ASSUME NEW p \in Pid, WaitCheck(p) PROVE NoLostWakeup'
  BY <1>25 DEF WaitCheck
<1>26. ASSUME NEW p \in Pid, WaitMark(p) PROVE NoLostWakeup'
  BY <1>26 DEF WaitMark
<1>27. ASSUME NEW p \in Pid, WaitPid(p) PROVE NoLostWakeup'
  BY <1>27 DEF WaitPid
<1>28. ASSUME NEW p \in Pid, WaitYield(p) PROVE NoLostWakeup'
  BY <1>28 DEF WaitYield
<1>29. ASSUME NEW p \in Pid, WaitResume(p) PROVE NoLostWakeup'
  BY <1>29 DEF WaitResume
<1>30. ASSUME NEW p \in Pid, WaitReap(p) PROVE NoLostWakeup'
  BY <1>30 DEF WaitReap
<1>31. ASSUME NEW p \in Pid, WaitBadStatus(p) PROVE NoLostWakeup'
  BY <1>31 DEF WaitBadStatus
<1>32. ASSUME NEW p \in Pid, SleepSet(p) PROVE NoLostWakeup'
  BY <1>32 DEF SleepSet
<1>33. ASSUME NEW p \in Pid, ForkCall(p) PROVE NoLostWakeup'
  BY <1>33 DEF ForkCall
<1>34. ASSUME NEW p \in Pid, ExitMark(p) PROVE NoLostWakeup'
  BY <1>34 DEF ExitMark
<1>35. ASSUME NEW p \in Pid, WaitCall(p) PROVE NoLostWakeup'
  BY <1>35 DEF WaitCall
<1>36. ASSUME NEW p \in Pid, Fault(p) PROVE NoLostWakeup'
  BY <1>36 DEF Fault
<1>37. CASE UNCHANGED vars
  BY <1>37 DEF vars
<1> QED
  BY <1>1, <1>2, <1>3, <1>4, <1>5, <1>6, <1>7, <1>8, <1>9, <1>10, <1>11, <1>12, <1>13,
    <1>14, <1>15, <1>16, <1>17, <1>18, <1>19, <1>20, <1>21, <1>22, <1>23, <1>24, <1>25,
    <1>26, <1>27, <1>28, <1>29, <1>30, <1>31, <1>32, <1>33, <1>34, <1>35, <1>36, <1>37
    DEF Next, Kernel, SchedStep, KernelStep, UserStep, Tick

\* The interrupt flag.
LEMMA IrqStep ==
    ASSUME NotInFork, IInv, IrqOK, [Next]_vars
    PROVE  IrqOK'
<1> USE Sets
<1> USE DEF NOT_ALLOCATED, RUNNABLE, WAITING, ZOMBIE, SLEEPING, ForkWindow, SwitchWindow,
            taskVars, cpuVars, loopVars, OnSched, Goto, Yield, AdvanceTimer, Preempts
<1> USE DEF WaitPoint, ForkPoint, ExitPoint, NotInFork, IInv,
  TypeOK, MachineOK, ForkOK, StateOK, IrqOK
<1>1. CASE SchedSkip
  BY <1>1 DEF SchedSkip
<1>2. CASE SchedPick
  <2>1. \A q \in Pid : state[q] = RUNNABLE => state'[q] = RUNNABLE
    BY <1>2 DEF SchedPick
  <2> QED
    BY <1>2, <2>1 DEF SchedPick
<1>3. CASE SchedArm
  BY <1>3 DEF SchedArm
<1>4. CASE SchedDispatch
  BY <1>4 DEF SchedDispatch
<1>5. CASE SchedBack
  BY <1>5 DEF SchedBack
<1>6. CASE SchedEnd
  BY <1>6 DEF SchedEnd
<1>7. CASE TickSched
  BY <1>7 DEF TickSched
<1>8. CASE TickSwitchLost
  BY <1>8 DEF TickSwitchLost
<1>9. CASE TickSwitchLate
  BY <1>9 DEF TickSwitchLate
<1>10. ASSUME NEW p \in Pid, TickTask(p) PROVE IrqOK'
  <2> HIDE DEF ForkOK, StateOK, MachineOK
  <2>1. state' = state /\ pc' = pc /\ cpu = p /\ irq_on
    BY <1>10 DEF TickTask
  <2>2. CASE Preempts
    <3>1. cpu' = SCHED /\ irq_frame' = [irq_frame EXCEPT ![p] = TRUE]
      BY <1>10, <2>2 DEF TickTask
    <3> QED
      BY <2>1, <3>1
  <2>3. CASE ~ Preempts
    <3>1. cpu' = cpu /\ irq_on' = irq_on /\ irq_frame' = irq_frame
      BY <1>10, <2>3 DEF TickTask
    <3> QED
      BY <2>1, <3>1
  <2> QED
    BY <2>2, <2>3
<1>11. ASSUME NEW p \in Pid, Iret(p) PROVE IrqOK'
  BY <1>11 DEF Iret
<1>12. ASSUME NEW p \in Pid, Sysret(p) PROVE IrqOK'
  BY <1>12 DEF Sysret
<1>13. ASSUME NEW p \in Pid, SleepMark(p) PROVE IrqOK'
  BY <1>13 DEF SleepMark
<1>14. ASSUME NEW p \in Pid, SleepYield(p) PROVE IrqOK'
  BY <1>14 DEF SleepYield
<1>15. ASSUME NEW p \in Pid, ForkScanBusy(p) PROVE IrqOK'
  BY <1>15 DEF ForkScanBusy
<1>16. ASSUME NEW p \in Pid, ForkScanFree(p) PROVE IrqOK'
  BY <1>16 DEF ForkScanFree
<1>17. ASSUME NEW p \in Pid, ForkScanFull(p) PROVE IrqOK'
  BY <1>17 DEF ForkScanFull
<1>18. ASSUME NEW p \in Pid, ForkClone(p) PROVE IrqOK'
  BY <1>18 DEF ForkClone
<1>19. ASSUME NEW p \in Pid, ForkCloneFail(p) PROVE IrqOK'
  BY <1>19 DEF ForkCloneFail
<1>20. ASSUME NEW p \in Pid, ForkParent(p) PROVE IrqOK'
  BY <1>20 DEF ForkParent
<1>21. ASSUME NEW p \in Pid, ForkPublish(p) PROVE IrqOK'
  BY <1>21 DEF ForkPublish
<1>22. ASSUME NEW p \in Pid, ForkRax(p) PROVE IrqOK'
  BY <1>22 DEF ForkRax
<1>23. ASSUME NEW p \in Pid, ExitNotify(p) PROVE IrqOK'
  <2>1. \A q \in Pid : state[q] = RUNNABLE => state'[q] = RUNNABLE
    BY <1>23 DEF ExitNotify
  <2> QED
    BY <1>23, <2>1 DEF ExitNotify
<1>24. ASSUME NEW p \in Pid, ExitYield(p) PROVE IrqOK'
  BY <1>24 DEF ExitYield
<1>25. ASSUME NEW p \in Pid, WaitCheck(p) PROVE IrqOK'
  BY <1>25 DEF WaitCheck
<1>26. ASSUME NEW p \in Pid, WaitMark(p) PROVE IrqOK'
  BY <1>26 DEF WaitMark
<1>27. ASSUME NEW p \in Pid, WaitPid(p) PROVE IrqOK'
  BY <1>27 DEF WaitPid
<1>28. ASSUME NEW p \in Pid, WaitYield(p) PROVE IrqOK'
  BY <1>28 DEF WaitYield
<1>29. ASSUME NEW p \in Pid, WaitResume(p) PROVE IrqOK'
  BY <1>29 DEF WaitResume
<1>30. ASSUME NEW p \in Pid, WaitReap(p) PROVE IrqOK'
  BY <1>30 DEF WaitReap
<1>31. ASSUME NEW p \in Pid, WaitBadStatus(p) PROVE IrqOK'
  BY <1>31 DEF WaitBadStatus
<1>32. ASSUME NEW p \in Pid, SleepSet(p) PROVE IrqOK'
  BY <1>32 DEF SleepSet
<1>33. ASSUME NEW p \in Pid, ForkCall(p) PROVE IrqOK'
  BY <1>33 DEF ForkCall
<1>34. ASSUME NEW p \in Pid, ExitMark(p) PROVE IrqOK'
  BY <1>34 DEF ExitMark
<1>35. ASSUME NEW p \in Pid, WaitCall(p) PROVE IrqOK'
  BY <1>35 DEF WaitCall
<1>36. ASSUME NEW p \in Pid, Fault(p) PROVE IrqOK'
  BY <1>36 DEF Fault
<1>37. CASE UNCHANGED vars
  BY <1>37 DEF vars
<1> QED
  BY <1>1, <1>2, <1>3, <1>4, <1>5, <1>6, <1>7, <1>8, <1>9, <1>10, <1>11, <1>12, <1>13,
    <1>14, <1>15, <1>16, <1>17, <1>18, <1>19, <1>20, <1>21, <1>22, <1>23, <1>24, <1>25,
    <1>26, <1>27, <1>28, <1>29, <1>30, <1>31, <1>32, <1>33, <1>34, <1>35, <1>36, <1>37
    DEF Next, Kernel, SchedStep, KernelStep, UserStep, Tick

\* The registers of forked tasks.
LEMMA RaxStep ==
    ASSUME NotInWait, IInv, WaitOK, RaxOK, [Next]_vars
    PROVE  RaxOK'
<1> USE Sets
<1> USE DEF NOT_ALLOCATED, RUNNABLE, WAITING, ZOMBIE, SLEEPING, ForkWindow, SwitchWindow,
            taskVars, cpuVars, loopVars, OnSched, Goto, Yield, AdvanceTimer, Preempts
<1> USE DEF WaitPoint, ForkPoint, ExitPoint, NotInFork, IInv,
  TypeOK, MachineOK, ForkOK, StateOK, RaxOK, Publishing, NotInWait
<1>1. CASE SchedSkip
  BY <1>1 DEF SchedSkip
<1>2. CASE SchedPick
  BY <1>2 DEF SchedPick
<1>3. CASE SchedArm
  BY <1>3 DEF SchedArm
<1>4. CASE SchedDispatch
  BY <1>4 DEF SchedDispatch
<1>5. CASE SchedBack
  BY <1>5 DEF SchedBack
<1>6. CASE SchedEnd
  BY <1>6 DEF SchedEnd
<1>7. CASE TickSched
  BY <1>7 DEF TickSched
<1>8. CASE TickSwitchLost
  BY <1>8 DEF TickSwitchLost
<1>9. CASE TickSwitchLate
  BY <1>9 DEF TickSwitchLate
<1>10. ASSUME NEW p \in Pid, TickTask(p) PROVE RaxOK'
  <2> HIDE DEF ForkOK, StateOK, MachineOK
  <2>1. state' = state /\ pc' = pc /\ arg' = arg /\ rax' = rax /\ cpu = p
    BY <1>10 DEF TickTask
  <2>2. CASE Preempts
    <3>1. cpu' = SCHED /\ irq_frame' = [irq_frame EXCEPT ![p] = TRUE]
      BY <1>10, <2>2 DEF TickTask
    <3> QED
      BY <2>1, <3>1
  <2>3. CASE ~ Preempts
    <3>1. cpu' = cpu /\ irq_frame' = irq_frame
      BY <1>10, <2>3 DEF TickTask
    <3> QED
      BY <2>1, <3>1
  <2> QED
    BY <2>2, <2>3
<1>11. ASSUME NEW p \in Pid, Iret(p) PROVE RaxOK'
  BY <1>11 DEF Iret
<1>12. ASSUME NEW p \in Pid, Sysret(p) PROVE RaxOK'
  BY <1>12 DEF Sysret
<1>13. ASSUME NEW p \in Pid, SleepMark(p) PROVE RaxOK'
  BY <1>13 DEF SleepMark
<1>14. ASSUME NEW p \in Pid, SleepYield(p) PROVE RaxOK'
  BY <1>14 DEF SleepYield
<1>15. ASSUME NEW p \in Pid, ForkScanBusy(p) PROVE RaxOK'
  BY <1>15 DEF ForkScanBusy
<1>16. ASSUME NEW p \in Pid, ForkScanFree(p) PROVE RaxOK'
  BY <1>16 DEF ForkScanFree
<1>17. ASSUME NEW p \in Pid, ForkScanFull(p) PROVE RaxOK'
  BY <1>17 DEF ForkScanFull
<1>18. ASSUME NEW p \in Pid, ForkClone(p) PROVE RaxOK'
  BY <1>18 DEF ForkClone
<1>19. ASSUME NEW p \in Pid, ForkCloneFail(p) PROVE RaxOK'
  BY <1>19 DEF ForkCloneFail
<1>20. ASSUME NEW p \in Pid, ForkParent(p) PROVE RaxOK'
  BY <1>20 DEF ForkParent
<1>21. ASSUME NEW p \in Pid, ForkPublish(p) PROVE RaxOK'
  <2>1. /\ cpu = p /\ cpu' = cpu /\ arg' = arg /\ rax' = rax /\ irq_frame' = irq_frame
        /\ pc[p] = "fork_publish" /\ pc' = [pc EXCEPT ![p] = "fork_rax"]
        /\ state' = [state EXCEPT ![arg[p]] = RUNNABLE]
    BY <1>21 DEF ForkPublish
  <2>2. state[p] = RUNNABLE
    BY <2>1 DEF TaskState
  <2>3. \A q \in Pid : pc'[q] = "fork_rax" => state'[q] = RUNNABLE /\ (cpu' = q \/ irq_frame'[q])
    BY <2>1, <2>2
  <2>4. \A q, c \in Pid : Publishing(q, c) => Publishing(q, c)'
    BY <2>1
  <2>5. \A c \in Pid : pc'[c] = "iret" /\ rax'[c] # 0 => pc[c] = "iret" /\ rax[c] # 0
    BY <2>1
  <2> HIDE DEF Publishing, IInv
  <2> QED
    BY <2>3, <2>4, <2>5
<1>22. ASSUME NEW p \in Pid, ForkRax(p) PROVE RaxOK'
  BY <1>22 DEF ForkRax
<1>23. ASSUME NEW p \in Pid, ExitNotify(p) PROVE RaxOK'
  BY <1>23 DEF ExitNotify
<1>24. ASSUME NEW p \in Pid, ExitYield(p) PROVE RaxOK'
  BY <1>24 DEF ExitYield
<1>25. ASSUME NEW p \in Pid, WaitCheck(p) PROVE RaxOK'
  BY <1>25 DEF WaitCheck
<1>26. ASSUME NEW p \in Pid, WaitMark(p) PROVE RaxOK'
  BY <1>26 DEF WaitMark
<1>27. ASSUME NEW p \in Pid, WaitPid(p) PROVE RaxOK'
  BY <1>27 DEF WaitPid
<1>28. ASSUME NEW p \in Pid, WaitYield(p) PROVE RaxOK'
  BY <1>28 DEF WaitYield
<1>29. ASSUME NEW p \in Pid, WaitResume(p) PROVE RaxOK'
  BY <1>29 DEF WaitResume
<1>30. ASSUME NEW p \in Pid, WaitReap(p) PROVE RaxOK'
  BY <1>30 DEF WaitReap, WaitOK
<1>31. ASSUME NEW p \in Pid, WaitBadStatus(p) PROVE RaxOK'
  BY <1>31 DEF WaitBadStatus
<1>32. ASSUME NEW p \in Pid, SleepSet(p) PROVE RaxOK'
  BY <1>32 DEF SleepSet
<1>33. ASSUME NEW p \in Pid, ForkCall(p) PROVE RaxOK'
  BY <1>33 DEF ForkCall
<1>34. ASSUME NEW p \in Pid, ExitMark(p) PROVE RaxOK'
  BY <1>34 DEF ExitMark
<1>35. ASSUME NEW p \in Pid, WaitCall(p) PROVE RaxOK'
  BY <1>35 DEF WaitCall
<1>36. ASSUME NEW p \in Pid, Fault(p) PROVE RaxOK'
  BY <1>36 DEF Fault
<1>37. CASE UNCHANGED vars
  BY <1>37 DEF vars
<1> QED
  BY <1>1, <1>2, <1>3, <1>4, <1>5, <1>6, <1>7, <1>8, <1>9, <1>10, <1>11, <1>12, <1>13,
    <1>14, <1>15, <1>16, <1>17, <1>18, <1>19, <1>20, <1>21, <1>22, <1>23, <1>24, <1>25,
    <1>26, <1>27, <1>28, <1>29, <1>30, <1>31, <1>32, <1>33, <1>34, <1>35, <1>36, <1>37
    DEF Next, Kernel, SchedStep, KernelStep, UserStep, Tick

\* A pass over the table.
LEMMA PassStep ==
    ASSUME NotInFork, IInv, PassOK, [Next]_vars
    PROVE  PassOK'
<1> USE Sets
<1> USE DEF NOT_ALLOCATED, RUNNABLE, WAITING, ZOMBIE, SLEEPING, ForkWindow, SwitchWindow,
            taskVars, cpuVars, loopVars, OnSched, Goto, Yield, AdvanceTimer, Preempts
<1> USE DEF WaitPoint, ForkPoint, ExitPoint, NotInFork, IInv, TypeOK, MachineOK, ForkOK,
  PassOK
<1>1. CASE SchedSkip
  BY <1>1 DEF SchedSkip
<1>2. CASE SchedPick
  BY <1>2 DEF SchedPick
<1>3. CASE SchedArm
  BY <1>3 DEF SchedArm
<1>4. CASE SchedDispatch
  BY <1>4 DEF SchedDispatch
<1>5. CASE SchedBack
  BY <1>5 DEF SchedBack
<1>6. CASE SchedEnd
  BY <1>6 DEF SchedEnd
<1>7. CASE TickSched
  BY <1>7 DEF TickSched
<1>8. CASE TickSwitchLost
  BY <1>8 DEF TickSwitchLost
<1>9. CASE TickSwitchLate
  BY <1>9 DEF TickSwitchLate
<1>10. ASSUME NEW p \in Pid, TickTask(p) PROVE PassOK'
  BY <1>10 DEF TickTask
<1>11. ASSUME NEW p \in Pid, Iret(p) PROVE PassOK'
  BY <1>11 DEF Iret
<1>12. ASSUME NEW p \in Pid, Sysret(p) PROVE PassOK'
  BY <1>12 DEF Sysret
<1>13. ASSUME NEW p \in Pid, SleepMark(p) PROVE PassOK'
  BY <1>13 DEF SleepMark
<1>14. ASSUME NEW p \in Pid, SleepYield(p) PROVE PassOK'
  BY <1>14 DEF SleepYield
<1>15. ASSUME NEW p \in Pid, ForkScanBusy(p) PROVE PassOK'
  BY <1>15 DEF ForkScanBusy
<1>16. ASSUME NEW p \in Pid, ForkScanFree(p) PROVE PassOK'
  BY <1>16 DEF ForkScanFree
<1>17. ASSUME NEW p \in Pid, ForkScanFull(p) PROVE PassOK'
  BY <1>17 DEF ForkScanFull
<1>18. ASSUME NEW p \in Pid, ForkClone(p) PROVE PassOK'
  BY <1>18 DEF ForkClone
<1>19. ASSUME NEW p \in Pid, ForkCloneFail(p) PROVE PassOK'
  BY <1>19 DEF ForkCloneFail
<1>20. ASSUME NEW p \in Pid, ForkParent(p) PROVE PassOK'
  BY <1>20 DEF ForkParent
<1>21. ASSUME NEW p \in Pid, ForkPublish(p) PROVE PassOK'
  BY <1>21 DEF ForkPublish
<1>22. ASSUME NEW p \in Pid, ForkRax(p) PROVE PassOK'
  BY <1>22 DEF ForkRax
<1>23. ASSUME NEW p \in Pid, ExitNotify(p) PROVE PassOK'
  BY <1>23 DEF ExitNotify
<1>24. ASSUME NEW p \in Pid, ExitYield(p) PROVE PassOK'
  BY <1>24 DEF ExitYield
<1>25. ASSUME NEW p \in Pid, WaitCheck(p) PROVE PassOK'
  BY <1>25 DEF WaitCheck
<1>26. ASSUME NEW p \in Pid, WaitMark(p) PROVE PassOK'
  BY <1>26 DEF WaitMark
<1>27. ASSUME NEW p \in Pid, WaitPid(p) PROVE PassOK'
  BY <1>27 DEF WaitPid
<1>28. ASSUME NEW p \in Pid, WaitYield(p) PROVE PassOK'
  BY <1>28 DEF WaitYield
<1>29. ASSUME NEW p \in Pid, WaitResume(p) PROVE PassOK'
  BY <1>29 DEF WaitResume
<1>30. ASSUME NEW p \in Pid, WaitReap(p) PROVE PassOK'
  BY <1>30 DEF WaitReap
<1>31. ASSUME NEW p \in Pid, WaitBadStatus(p) PROVE PassOK'
  BY <1>31 DEF WaitBadStatus
<1>32. ASSUME NEW p \in Pid, SleepSet(p) PROVE PassOK'
  BY <1>32 DEF SleepSet
<1>33. ASSUME NEW p \in Pid, ForkCall(p) PROVE PassOK'
  BY <1>33 DEF ForkCall
<1>34. ASSUME NEW p \in Pid, ExitMark(p) PROVE PassOK'
  BY <1>34 DEF ExitMark
<1>35. ASSUME NEW p \in Pid, WaitCall(p) PROVE PassOK'
  BY <1>35 DEF WaitCall
<1>36. ASSUME NEW p \in Pid, Fault(p) PROVE PassOK'
  BY <1>36 DEF Fault
<1>37. CASE UNCHANGED vars
  BY <1>37 DEF vars
<1> QED
  BY <1>1, <1>2, <1>3, <1>4, <1>5, <1>6, <1>7, <1>8, <1>9, <1>10, <1>11, <1>12, <1>13,
    <1>14, <1>15, <1>16, <1>17, <1>18, <1>19, <1>20, <1>21, <1>22, <1>23, <1>24, <1>25,
    <1>26, <1>27, <1>28, <1>29, <1>30, <1>31, <1>32, <1>33, <1>34, <1>35, <1>36, <1>37
    DEF Next, Kernel, SchedStep, KernelStep, UserStep, Tick


\* The two steps that lose a wakeup.
LEMMA LostStep ==
    ASSUME NotInFork, IInv, [Next]_vars, NEW p \in Pid, NEW c \in Pid,
           ~ WakeupLost(p, c), WakeupLost(p, c)'
    PROVE  \/ PreemptedAt(c, {"exit_notify"})
           \/ cpu = p /\ pc[p] = "wait_pid" /\ arg[p] = c /\ state[c] = ZOMBIE
<1> USE Sets
<1> USE DEF NOT_ALLOCATED, RUNNABLE, WAITING, ZOMBIE, SLEEPING, ForkWindow, SwitchWindow,
            taskVars, cpuVars, loopVars, OnSched, Goto, Yield, AdvanceTimer, Preempts
<1> USE DEF WaitPoint, ForkPoint, ExitPoint, NotInFork, IInv, TypeOK, MachineOK, ForkOK,
  StateOK, WakeupLost
<1>1. CASE SchedSkip
  BY <1>1 DEF SchedSkip
<1>2. CASE SchedPick
  BY <1>2 DEF SchedPick
<1>3. CASE SchedArm
  BY <1>3 DEF SchedArm
<1>4. CASE SchedDispatch
  BY <1>4 DEF SchedDispatch
<1>5. CASE SchedBack
  BY <1>5 DEF SchedBack
<1>6. CASE SchedEnd
  BY <1>6 DEF SchedEnd
<1>7. CASE TickSched
  BY <1>7 DEF TickSched
<1>8. CASE TickSwitchLost
  BY <1>8 DEF TickSwitchLost
<1>9. CASE TickSwitchLate
  BY <1>9 DEF TickSwitchLate
<1>10. ASSUME NEW q \in Pid, TickTask(q) PROVE PreemptedAt(c, {"exit_notify"})
  <2> HIDE DEF ForkOK, StateOK, MachineOK
  <2>1. state' = state /\ ppid' = ppid /\ wait_pid' = wait_pid /\ pc' = pc /\ cpu = q
    BY <1>10 DEF TickTask
  <2>2. cpu = c /\ pc[c] = "exit_notify" /\ cpu' # c
    BY <2>1
  <2>3. Preempts
    BY <1>10, <2>1, <2>2 DEF TickTask
  <2>4. cpu' = SCHED /\ irq_frame' = [irq_frame EXCEPT ![q] = TRUE]
    BY <1>10, <2>3 DEF TickTask
  <2> QED
    BY <2>1, <2>2, <2>4 DEF PreemptedAt
<1>11. ASSUME NEW q \in Pid, Iret(q) PROVE FALSE
  BY <1>11 DEF Iret
<1>12. ASSUME NEW q \in Pid, Sysret(q) PROVE FALSE
  BY <1>12 DEF Sysret
<1>13. ASSUME NEW q \in Pid, SleepMark(q) PROVE FALSE
  BY <1>13 DEF SleepMark
<1>14. ASSUME NEW q \in Pid, SleepYield(q) PROVE FALSE
  BY <1>14 DEF SleepYield
<1>15. ASSUME NEW q \in Pid, ForkScanBusy(q) PROVE FALSE
  BY <1>15 DEF ForkScanBusy
<1>16. ASSUME NEW q \in Pid, ForkScanFree(q) PROVE FALSE
  BY <1>16 DEF ForkScanFree
<1>17. ASSUME NEW q \in Pid, ForkScanFull(q) PROVE FALSE
  BY <1>17 DEF ForkScanFull
<1>18. ASSUME NEW q \in Pid, ForkClone(q) PROVE FALSE
  BY <1>18 DEF ForkClone
<1>19. ASSUME NEW q \in Pid, ForkCloneFail(q) PROVE FALSE
  BY <1>19 DEF ForkCloneFail
<1>20. ASSUME NEW q \in Pid, ForkParent(q) PROVE FALSE
  BY <1>20 DEF ForkParent
<1>21. ASSUME NEW q \in Pid, ForkPublish(q) PROVE FALSE
  BY <1>21 DEF ForkPublish
<1>22. ASSUME NEW q \in Pid, ForkRax(q) PROVE FALSE
  BY <1>22 DEF ForkRax
<1>23. ASSUME NEW q \in Pid, ExitNotify(q) PROVE FALSE
  BY <1>23 DEF ExitNotify
<1>24. ASSUME NEW q \in Pid, ExitYield(q) PROVE FALSE
  BY <1>24 DEF ExitYield
<1>25. ASSUME NEW q \in Pid, WaitCheck(q) PROVE FALSE
  BY <1>25 DEF WaitCheck
<1>26. ASSUME NEW q \in Pid, WaitMark(q) PROVE FALSE
  BY <1>26 DEF WaitMark
<1>27. ASSUME NEW q \in Pid, WaitPid(q) PROVE cpu = p /\ pc[p] = "wait_pid" /\ arg[p] = c /\ state[c] = ZOMBIE
  BY <1>27 DEF WaitPid
<1>28. ASSUME NEW q \in Pid, WaitYield(q) PROVE FALSE
  BY <1>28 DEF WaitYield
<1>29. ASSUME NEW q \in Pid, WaitResume(q) PROVE FALSE
  BY <1>29 DEF WaitResume
<1>30. ASSUME NEW q \in Pid, WaitReap(q) PROVE FALSE
  BY <1>30 DEF WaitReap
<1>31. ASSUME NEW q \in Pid, WaitBadStatus(q) PROVE FALSE
  BY <1>31 DEF WaitBadStatus
<1>32. ASSUME NEW q \in Pid, SleepSet(q) PROVE FALSE
  BY <1>32 DEF SleepSet
<1>33. ASSUME NEW q \in Pid, ForkCall(q) PROVE FALSE
  BY <1>33 DEF ForkCall
<1>34. ASSUME NEW q \in Pid, ExitMark(q) PROVE FALSE
  BY <1>34 DEF ExitMark
<1>35. ASSUME NEW q \in Pid, WaitCall(q) PROVE FALSE
  BY <1>35 DEF WaitCall
<1>36. ASSUME NEW q \in Pid, Fault(q) PROVE FALSE
  BY <1>36 DEF Fault
<1>37. CASE UNCHANGED vars
  BY <1>37 DEF vars
<1> QED
  BY <1>1, <1>2, <1>3, <1>4, <1>5, <1>6, <1>7, <1>8, <1>9, <1>10, <1>11, <1>12, <1>13,
    <1>14, <1>15, <1>16, <1>17, <1>18, <1>19, <1>20, <1>21, <1>22, <1>23, <1>24, <1>25,
    <1>26, <1>27, <1>28, <1>29, <1>30, <1>31, <1>32, <1>33, <1>34, <1>35, <1>36, <1>37
    DEF Next, Kernel, SchedStep, KernelStep, UserStep, Tick


\* The one step that makes the scheduler deaf.
LEMMA DeafStep ==
    ASSUME NotInFork, IInv, IrqOK, [Next]_vars, ~ Deaf, Deaf'
    PROVE  \E p \in Pid : PreemptedAt(p, BlockWindow)
<1> USE Sets
<1> USE DEF NOT_ALLOCATED, RUNNABLE, WAITING, ZOMBIE, SLEEPING, ForkWindow, SwitchWindow,
            taskVars, cpuVars, loopVars, OnSched, Goto, Yield, AdvanceTimer, Preempts
<1> USE DEF WaitPoint, ForkPoint, ExitPoint, NotInFork, IInv, TypeOK, MachineOK, ForkOK,
  StateOK, IrqOK, Deaf
<1>1. CASE SchedSkip
  BY <1>1 DEF SchedSkip
<1>2. CASE SchedPick
  BY <1>2 DEF SchedPick
<1>3. CASE SchedArm
  BY <1>3 DEF SchedArm
<1>4. CASE SchedDispatch
  BY <1>4 DEF SchedDispatch
<1>5. CASE SchedBack
  BY <1>5 DEF SchedBack
<1>6. CASE SchedEnd
  BY <1>6 DEF SchedEnd
<1>7. CASE TickSched
  BY <1>7 DEF TickSched
<1>8. CASE TickSwitchLost
  BY <1>8 DEF TickSwitchLost
<1>9. CASE TickSwitchLate
  BY <1>9 DEF TickSwitchLate
<1>10. ASSUME NEW q \in Pid, TickTask(q) PROVE PreemptedAt(q, BlockWindow)
  <2>1. cpu' = SCHED /\ cpu = q /\ state' = state
    BY <1>10 DEF TickTask
  <2>2. Preempts /\ state[q] # RUNNABLE
    BY <1>10, <2>1 DEF TickTask
  <2>3. irq_frame'[q]
    BY <1>10, <2>2 DEF TickTask
  <2>4. pc[q] \in BlockWindow
    BY <2>1, <2>2 DEF BlockWindow, TaskState
  <2> QED
    BY <2>1, <2>3, <2>4 DEF PreemptedAt
<1>11. ASSUME NEW q \in Pid, Iret(q) PROVE FALSE
  BY <1>11 DEF Iret
<1>12. ASSUME NEW q \in Pid, Sysret(q) PROVE FALSE
  BY <1>12 DEF Sysret
<1>13. ASSUME NEW q \in Pid, SleepMark(q) PROVE FALSE
  BY <1>13 DEF SleepMark
<1>14. ASSUME NEW q \in Pid, SleepYield(q) PROVE FALSE
  BY <1>14 DEF SleepYield
<1>15. ASSUME NEW q \in Pid, ForkScanBusy(q) PROVE FALSE
  BY <1>15 DEF ForkScanBusy
<1>16. ASSUME NEW q \in Pid, ForkScanFree(q) PROVE FALSE
  BY <1>16 DEF ForkScanFree
<1>17. ASSUME NEW q \in Pid, ForkScanFull(q) PROVE FALSE
  BY <1>17 DEF ForkScanFull
<1>18. ASSUME NEW q \in Pid, ForkClone(q) PROVE FALSE
  BY <1>18 DEF ForkClone
<1>19. ASSUME NEW q \in Pid, ForkCloneFail(q) PROVE FALSE
  BY <1>19 DEF ForkCloneFail
<1>20. ASSUME NEW q \in Pid, ForkParent(q) PROVE FALSE
  BY <1>20 DEF ForkParent
<1>21. ASSUME NEW q \in Pid, ForkPublish(q) PROVE FALSE
  BY <1>21 DEF ForkPublish
<1>22. ASSUME NEW q \in Pid, ForkRax(q) PROVE FALSE
  BY <1>22 DEF ForkRax
<1>23. ASSUME NEW q \in Pid, ExitNotify(q) PROVE FALSE
  BY <1>23 DEF ExitNotify
<1>24. ASSUME NEW q \in Pid, ExitYield(q) PROVE FALSE
  BY <1>24 DEF ExitYield
<1>25. ASSUME NEW q \in Pid, WaitCheck(q) PROVE FALSE
  BY <1>25 DEF WaitCheck
<1>26. ASSUME NEW q \in Pid, WaitMark(q) PROVE FALSE
  BY <1>26 DEF WaitMark
<1>27. ASSUME NEW q \in Pid, WaitPid(q) PROVE FALSE
  BY <1>27 DEF WaitPid
<1>28. ASSUME NEW q \in Pid, WaitYield(q) PROVE FALSE
  BY <1>28 DEF WaitYield
<1>29. ASSUME NEW q \in Pid, WaitResume(q) PROVE FALSE
  BY <1>29 DEF WaitResume
<1>30. ASSUME NEW q \in Pid, WaitReap(q) PROVE FALSE
  BY <1>30 DEF WaitReap
<1>31. ASSUME NEW q \in Pid, WaitBadStatus(q) PROVE FALSE
  BY <1>31 DEF WaitBadStatus
<1>32. ASSUME NEW q \in Pid, SleepSet(q) PROVE FALSE
  BY <1>32 DEF SleepSet
<1>33. ASSUME NEW q \in Pid, ForkCall(q) PROVE FALSE
  BY <1>33 DEF ForkCall
<1>34. ASSUME NEW q \in Pid, ExitMark(q) PROVE FALSE
  BY <1>34 DEF ExitMark
<1>35. ASSUME NEW q \in Pid, WaitCall(q) PROVE FALSE
  BY <1>35 DEF WaitCall
<1>36. ASSUME NEW q \in Pid, Fault(q) PROVE FALSE
  BY <1>36 DEF Fault
<1>37. CASE UNCHANGED vars
  BY <1>37 DEF vars
<1> QED
  BY <1>1, <1>2, <1>3, <1>4, <1>5, <1>6, <1>7, <1>8, <1>9, <1>10, <1>11, <1>12, <1>13,
    <1>14, <1>15, <1>16, <1>17, <1>18, <1>19, <1>20, <1>21, <1>22, <1>23, <1>24, <1>25,
    <1>26, <1>27, <1>28, <1>29, <1>30, <1>31, <1>32, <1>33, <1>34, <1>35, <1>36, <1>37
    DEF Next, Kernel, SchedStep, KernelStep, UserStep, Tick


-----------------------------------------------------------------------------
(***************************************************************************)
(* Initial states, and the invariants of the specification.                *)
(***************************************************************************)

\* The state after irq_enable() satisfies every invariant.
LEMMA InitInv == Init => IInv /\ WaitOK /\ NoLostWakeup /\ IrqOK /\ PassOK /\ RaxOK
<1> SUFFICES ASSUME Init PROVE IInv /\ WaitOK /\ NoLostWakeup /\ IrqOK /\ PassOK /\ RaxOK
  OBVIOUS
<1> USE Sets
<1> USE DEF Init, NOT_ALLOCATED, RUNNABLE, WAITING, ZOMBIE, SLEEPING
<1>1. TypeOK
  <2>1. live \in [Slot -> BOOLEAN] /\ irq_frame \in [Slot -> BOOLEAN]
    OBVIOUS
  <2>2. state \in [Slot -> TaskState] /\ pc \in [Slot -> TaskPoint]
    BY DEF TaskState, TaskPoint
  <2>3. /\ ppid \in [Slot -> Slot] /\ wait_pid \in [Slot -> Slot]
        /\ sleep \in [Slot -> Nat] /\ rax \in [Slot -> {0, SYS_FORK}]
        /\ arg \in [Slot -> 0 .. MAX_TASK_COUNT]
    BY DEF SYS_FORK
  <2>4. deadline \in -1 .. PREEMPT_TICKS /\ idx \in 0 .. MAX_TASK_COUNT
    BY SchedAssumption
  <2> QED
    BY <2>1, <2>2, <2>3, <2>4 DEF TypeOK, SchedPoint
<1>2. MachineOK /\ ForkOK
  <2>1. MachineOK
    <3>1. cpu = SCHED /\ cpu \notin Pid /\ spc = "scan" /\ vm = 0
      OBVIOUS
    <3>2. state[0] = NOT_ALLOCATED
      OBVIOUS
    <3> HIDE DEF Init
    <3> QED
      BY <3>1, <3>2 DEF MachineOK, SwitchWindow
  <2>2. ForkOK
    BY DEF ForkOK, ForkWindow, WaitPoint, ForkPoint
  <2> QED
    BY <2>1, <2>2
<1>3. StateOK /\ ResourceSafety
  BY DEF StateOK, ResourceSafety, ExitPoint, Active
<1>4. WaitOK /\ NoLostWakeup /\ IrqOK /\ PassOK
  BY DEF WaitOK, NoLostWakeup, WakeupLost, IrqOK, PassOK, WaitWindow
<1>5. RaxOK
  BY DEF RaxOK
<1> QED
  BY <1>1, <1>2, <1>3, <1>4, <1>5 DEF IInv

\* IInv is an invariant as soon as no tick strikes while a fork prepares the
\* task entry it found (sys_fork between sched_allocate_task and RUNNABLE).
THEOREM Invariance == ASSUME NotInFork PROVE Spec => []IInv
<1>1. Init => IInv
  BY InitInv
<1>2. IInv /\ [Next]_vars => IInv'
  BY TypeStep, MachineStep, ForkStep, StateStep, ResourceStep DEF IInv
<1> QED
  BY <1>1, <1>2, PTL DEF Spec

\* Type correctness of the task table and the machine state.
THEOREM TypeCorrect == ASSUME NotInFork PROVE Spec => []TypeOK
<1>1. IInv => TypeOK
  BY DEF IInv
<1> QED
  BY <1>1, Invariance, PTL

\* Whatever the timer interrupts, fork window excepted, no task that can run
\* loses its page tables or kernel stack, and the zombie clean-up of
\* sched_start frees them exactly once.
THEOREM ResourcesSafe == ASSUME NotInFork PROVE Spec => []ResourceSafety
<1>1. IInv => ResourceSafety
  BY DEF IInv
<1> QED
  BY <1>1, Invariance, PTL

\* CR3 and _current always name the running task, and never freed page tables.
THEOREM AddressSpaceSafe == ASSUME NotInFork PROVE Spec => []AddressSpace
<1>1. IInv => AddressSpace
  BY DEF IInv, MachineOK, AddressSpace
<1> QED
  BY <1>1, Invariance, PTL

\* A task that went through sys_exit is never resumed.
THEOREM ExitsOnce == ASSUME NotInFork PROVE Spec => []ExitOnce
<1>1. IInv => ExitOnce
  BY Sets DEF IInv, StateOK, ExitOnce, TypeOK, ExitPoint, TaskState, NOT_ALLOCATED, RUNNABLE,
         WAITING, SLEEPING, ZOMBIE
<1> QED
  BY <1>1, Invariance, PTL

\* sys_sleep never returns early.
THEOREM SleepsLongEnough == ASSUME NotInFork PROVE Spec => []NoEarlyWake
<1>1. IInv => NoEarlyWake
  BY DEF IInv, StateOK, NoEarlyWake
<1> QED
  BY <1>1, Invariance, PTL

\* With the windows of sys_wait and the first half of sys_exit free of ticks
\* too, the waits' invariant holds.
THEOREM WaitInvariance == ASSUME NotInWait PROVE Spec => [](IInv /\ WaitOK /\ NoLostWakeup)
<1>1. Init => IInv /\ WaitOK /\ NoLostWakeup
  BY InitInv
<1>2. IInv /\ WaitOK /\ NoLostWakeup /\ [Next]_vars => WaitOK' /\ NoLostWakeup'
  BY WaitStep, WakeupStep
<1>3. Spec => []IInv
  BY Invariance DEF NotInWait
<1> QED
  BY <1>1, <1>2, <1>3, PTL DEF Spec

\* Wherever the timer strikes outside fork's window, a parent's wakeup is lost
\* only by preempting its child in sys_exit before the notification, or by the
\* child's death while the parent is in sys_wait before wait_pid is set.
THEOREM WakeupsLostOnlyThere == ASSUME NotInFork PROVE Spec => WakeupLostOnlyThere
<1> DEFINE Blamed ==
       \A p, c \in Pid : ~ WakeupLost(p, c) /\ WakeupLost(p, c)' =>
          \/ PreemptedAt(c, {"exit_notify"})
          \/ cpu = p /\ pc[p] = "wait_pid" /\ arg[p] = c /\ state[c] = ZOMBIE
<1>1. IInv /\ [Next]_vars => Blamed
  BY LostStep
<1>2. Spec => [][Blamed]_vars
  BY <1>1, Invariance, PTL DEF Spec
<1> QED
  BY <1>2 DEF WakeupLostOnlyThere

\* sys_wait resumes with a dead child of its own, and frees nothing else.
THEOREM WaitsSafe == ASSUME NotInWait PROVE Spec => []WaitSafe
<1>1. IInv /\ WaitOK => WaitSafe
  BY Sets DEF IInv, TypeOK, MachineOK, ForkOK, StateOK, ResourceSafety, WaitOK, WaitSafe, Active,
         WaitPoint, NOT_ALLOCATED, ZOMBIE
<1> QED
  BY <1>1, WaitInvariance, PTL

\* A zombie's entry is freed only by its parent's sys_wait.
THEOREM ZombiesKept == ASSUME NotInWait PROVE Spec => ZombieKept
<1> DEFINE Kept == \A c \in Pid : state[c] = ZOMBIE /\ state'[c] # ZOMBIE =>
                      /\ state'[c] = NOT_ALLOCATED
                      /\ cpu = ppid[c] /\ pc[cpu] = "wait_reap" /\ arg[cpu] = c
<1>1. IInv /\ WaitOK /\ [Next]_vars => Kept
  <2> SUFFICES ASSUME IInv, WaitOK, [Next]_vars,
                      NEW c \in Pid, state[c] = ZOMBIE, state'[c] # ZOMBIE
               PROVE  /\ state'[c] = NOT_ALLOCATED
                      /\ cpu = ppid[c] /\ pc[cpu] = "wait_reap" /\ arg[cpu] = c
    OBVIOUS
  <2> USE Sets DEF IInv, TypeOK, NOT_ALLOCATED, RUNNABLE, WAITING, ZOMBIE, SLEEPING, Goto
  <2>1. CASE SchedPick
    BY <2>1 DEF SchedPick
  <2>2. ASSUME NEW p \in Pid, WaitReap(p)
        PROVE  /\ state'[c] = NOT_ALLOCATED
               /\ cpu = ppid[c] /\ pc[cpu] = "wait_reap" /\ arg[cpu] = c
    BY <2>2 DEF WaitReap, WaitOK
  <2>3. ASSUME NEW p \in Pid, ForkPublish(p) PROVE FALSE
    BY <2>3 DEF ForkPublish, ForkOK, ForkWindow
  <2>4. ASSUME NEW p \in Pid, ExitNotify(p) PROVE FALSE
    BY <2>4 DEF ExitNotify
  <2>5. ASSUME NEW p \in Pid, SleepMark(p) \/ WaitMark(p) \/ ExitMark(p) PROVE FALSE
    BY <2>5 DEF SleepMark, WaitMark, ExitMark, StateOK, ExitPoint
  <2>6. ASSUME UNCHANGED state PROVE FALSE
    BY <2>6
  <2> QED
    BY <2>1, <2>2, <2>3, <2>4, <2>5, <2>6
       DEF Next, Kernel, SchedStep, KernelStep, UserStep, Tick, vars, taskVars,
           SchedSkip, SchedArm, SchedDispatch, SchedBack, SchedEnd, TickSched,
           TickSwitchLost, TickSwitchLate, TickTask, Iret, Sysret, SleepYield,
           ForkScanBusy, ForkScanFree, ForkScanFull, ForkClone, ForkCloneFail, ForkParent,
           ForkRax, ExitYield, WaitCheck, WaitPid, WaitYield, WaitResume, WaitBadStatus,
           SleepSet, ForkCall, WaitCall, Fault
<1>2. Spec => [][Kept]_vars
  BY <1>1, WaitInvariance, PTL DEF Spec
<1> QED
  BY <1>2 DEF ZombieKept

\* The invariants of the interrupt flag and of a pass.
THEOREM IrqInvariance == ASSUME NotInFork PROVE Spec => [](IInv /\ IrqOK /\ PassOK)
<1>1. Init => IrqOK /\ PassOK
  BY InitInv
<1>2. IInv /\ IrqOK /\ PassOK /\ [Next]_vars => IrqOK' /\ PassOK'
  BY IrqStep, PassStep
<1>3. Spec => []IInv
  BY Invariance
<1> QED
  BY <1>1, <1>2, <1>3, PTL DEF Spec

\* sched_start executes hlt only when no task can run.
THEOREM SchedHaltsOnlyIdle == ASSUME NotInFork PROVE Spec => []HaltsOnlyIdle
<1>1. PassOK => HaltsOnlyIdle
  BY DEF PassOK, HaltsOnlyIdle, OnSched
<1> QED
  BY <1>1, IrqInvariance, PTL

\* A child sees another result of fork than 0 only while the task that forked it
\* stands preempted between publishing it and setting its rax, where the timer
\* may strike here.
THEOREM SchedForkZero == ASSUME NotInWait PROVE Spec => []ForkZero
<1>1. Init => RaxOK
  BY InitInv
<1>2. IInv /\ WaitOK /\ RaxOK /\ [Next]_vars => RaxOK'
  BY RaxStep
<1>3. IInv /\ RaxOK => ForkZero
  <2> SUFFICES ASSUME IInv, RaxOK, NEW c \in Pid, cpu = c, pc[c] = "iret", rax[c] # 0
               PROVE  \E p \in Pid : pc[p] = "fork_rax" /\ arg[p] = c /\ irq_frame[p]
    BY DEF ForkZero
  <2>1. PICK p \in Pid : Publishing(p, c)
    BY DEF RaxOK
  <2>2. p # c /\ pc[p] = "fork_rax"
    BY <2>1 DEF Publishing, IInv, ForkOK, ForkWindow
  <2> QED
    BY <2>1, <2>2 DEF Publishing, RaxOK
<1>4. Spec => [](IInv /\ WaitOK /\ NoLostWakeup)
  BY WaitInvariance
<1> QED
  BY <1>1, <1>2, <1>3, <1>4, PTL DEF Spec

\* The scheduler is left with interrupts disabled and nobody to run only by a
\* preemption between a task's blocking itself, or dying, and its sched_switch.
THEOREM SchedDeafOnlyThere == ASSUME NotInFork PROVE Spec => DeafOnlyThere
<1> DEFINE Blamed == ~ Deaf /\ Deaf' => \E p \in Pid : PreemptedAt(p, BlockWindow)
<1>1. IInv /\ IrqOK /\ [Next]_vars => Blamed
  BY DeafStep
<1>2. Spec => [][Blamed]_vars
  BY <1>1, IrqInvariance, PTL DEF Spec
<1> QED
  BY <1>2 DEF DeafOnlyThere
=============================================================================
