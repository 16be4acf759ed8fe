-------------------------- MODULE SchedRefinement ---------------------------
(***************************************************************************)
(* Sched implements ProcessLifecycle, for every size of the task table, as *)
(* long as the timer stays out of the windows of fork and wait.            *)
(***************************************************************************)
EXTENDS SchedProofs, SchedLifecycle

\* What the invariants of SchedProofs leave open about parents: a fork has made
\* itself the parent before it publishes the child, and entry 0 has none.
ParentOK ==
    /\ ppid[0] = 0
    /\ \A p \in Pid : pc[p] = "fork_publish" => ppid[arg[p]] = p

\* Only ForkParent writes ppid, and a fork about to publish is on the CPU.
LEMMA ParentStep ==
    ASSUME NotInFork, IInv, ParentOK, [Next]_vars
    PROVE  ParentOK'
<1> USE Sets
<1> USE DEF taskVars, cpuVars, loopVars, OnSched, Goto, Yield, ForkWindow, IInv, TypeOK, ForkOK,
            ParentOK
<1>1. ASSUME NEW p \in Pid, ForkParent(p) PROVE ParentOK'
  BY <1>1 DEF ForkParent
<1>2. ASSUME NEW p \in Pid, ForkClone(p) PROVE ParentOK'
  BY <1>2 DEF ForkClone
<1>3. ASSUME NEW p \in Pid,
             \/ Iret(p) \/ Sysret(p) \/ SleepMark(p) \/ SleepYield(p) \/ ForkScanBusy(p)
             \/ ForkScanFree(p) \/ ForkScanFull(p) \/ ForkCloneFail(p) \/ ForkPublish(p)
             \/ ForkRax(p) \/ ExitNotify(p) \/ ExitYield(p)
      PROVE  ParentOK'
  BY <1>3 DEF Iret, Sysret, SleepMark, SleepYield, ForkScanBusy, ForkScanFree, ForkScanFull,
              ForkCloneFail, ForkPublish, ForkRax, ExitNotify, ExitYield
<1>4. ASSUME NEW p \in Pid,
             \/ WaitCheck(p) \/ WaitMark(p) \/ WaitPid(p) \/ WaitYield(p) \/ WaitResume(p)
             \/ WaitReap(p) \/ WaitBadStatus(p)
             \/ SleepSet(p) \/ ForkCall(p) \/ ExitMark(p) \/ WaitCall(p) \/ Fault(p)
      PROVE  ParentOK'
  BY <1>4 DEF WaitCheck, WaitMark, WaitPid, WaitYield, WaitResume, WaitReap, WaitBadStatus,
              SleepSet, ForkCall, ExitMark, WaitCall, Fault
<1>5. CASE SchedStep
  BY <1>5 DEF SchedStep, SchedSkip, SchedPick, SchedArm, SchedDispatch, SchedBack, SchedEnd
<1>6. CASE Tick
  BY <1>6 DEF Tick, TickSched, TickSwitchLost, TickSwitchLate, TickTask
<1>7. CASE UNCHANGED vars
  BY <1>7 DEF vars
<1> QED
  BY <1>1, <1>2, <1>3, <1>4, <1>5, <1>6, <1>7 DEF Next, Kernel, KernelStep, UserStep

-----------------------------------------------------------------------------
(* The abstract variables that a step leaves alone. *)

LEMMA SameTable ==
    ASSUME UNCHANGED <<state, ppid>>, \A p \in Pid : state[p] = WAITING => arg'[p] = arg[p]
    PROVE  UNCHANGED <<AbsLife, AbsParent, AbsWaits>>
  BY DEF AbsLife, AbsParent, AbsWaits

\* A task that runs and is not in the middle of giving up the CPU is runnable.
LEMMA RunningIsRunnable ==
    ASSUME IInv, NEW p \in Pid, cpu = p,
           pc[p] \notin {"sleep_yield", "wait_pid", "wait_yield", "exit_notify", "exit_yield"}
    PROVE  state[p] = RUNNABLE /\ AbsRun = p
  BY Sets DEF IInv, TypeOK, TaskState, StateOK, ExitPoint, AbsRun, NOT_ALLOCATED, RUNNABLE, WAITING,
         ZOMBIE, SLEEPING

-----------------------------------------------------------------------------
(* One lemma per step that a process's life knows of; every other step leaves *)
(* the abstract variables alone.                                              *)

\* A dispatch is one.
LEMMA DispatchStep ==
    ASSUME IInv, SchedDispatch
    PROVE  Life!Dispatch(idx) /\ idx \in Pid
<1>1. idx \in Pid /\ state[idx] = RUNNABLE /\ cpu = SCHED /\ cpu' = idx
  BY DEF IInv, MachineOK, SchedDispatch, OnSched, SwitchWindow
<1>2. UNCHANGED <<AbsLife, AbsParent, AbsWaits>>
  BY SameTable DEF SchedDispatch, taskVars
<1>3. AbsRun = 0 /\ AbsRun' = idx
  BY <1>1, Sets DEF AbsRun, SchedDispatch, taskVars
<1>4. AbsLife[idx] = "alive" /\ AbsWaits[idx] = 0
  BY <1>1 DEF AbsLife, AbsWaits, RUNNABLE, ZOMBIE, NOT_ALLOCATED, WAITING
<1> QED
  BY <1>1, <1>2, <1>3, <1>4 DEF Life!Dispatch

\* Giving up the CPU is leaving it, or nothing for a task that is already marked
\* as asleep, waiting or dead.
LEMMA LeaveStep ==
    ASSUME IInv, NEW p \in Pid, cpu = p, cpu' = SCHED, UNCHANGED <<state, ppid, arg>>
    PROVE  Life!Leave(p) \/ UNCHANGED Life!lifeVars
<1>1. UNCHANGED <<AbsLife, AbsParent, AbsWaits>>
  BY SameTable
<1>2. AbsRun' = 0 /\ (AbsRun = p \/ AbsRun = 0)
  BY Sets DEF AbsRun
<1> QED
  BY <1>1, <1>2 DEF Life!Leave, Life!lifeVars

\* sys_sleep leaves the CPU when it marks the task.
LEMMA SleepStep ==
    ASSUME IInv, NEW p \in Pid, SleepMark(p)
    PROVE  Life!Leave(p)
<1>1. cpu = p /\ cpu' = p /\ state[p] = RUNNABLE /\ AbsRun = p
  BY RunningIsRunnable DEF SleepMark, Goto, cpuVars
<1>2. state' = [state EXCEPT ![p] = SLEEPING] /\ UNCHANGED <<ppid, arg>>
  BY DEF SleepMark
<1>3. UNCHANGED <<AbsLife, AbsParent, AbsWaits>> /\ AbsRun' = 0
  BY <1>1, <1>2, Sets DEF IInv, TypeOK, AbsLife, AbsParent, AbsWaits, AbsRun, RUNNABLE, SLEEPING,
         WAITING, ZOMBIE, NOT_ALLOCATED
<1> QED
  BY <1>1, <1>3 DEF Life!Leave

\* The child exists from ForkPublish on.
LEMMA PublishStep ==
    ASSUME IInv, ParentOK, NEW p \in Pid, ForkPublish(p)
    PROVE  Life!Fork(p, arg[p]) /\ arg[p] \in Pid
<1>1. cpu = p /\ cpu' = p /\ state[p] = RUNNABLE /\ AbsRun = p
  BY RunningIsRunnable DEF ForkPublish, Goto, cpuVars
<1>2. arg[p] \in Pid /\ arg[p] # p /\ state[arg[p]] = NOT_ALLOCATED /\ ppid[arg[p]] = p
  BY DEF IInv, ForkOK, ParentOK, ForkPublish, Goto, ForkWindow
<1>3. state' = [state EXCEPT ![arg[p]] = RUNNABLE] /\ UNCHANGED <<ppid, arg>>
  BY DEF ForkPublish
<1>4. AbsLife[arg[p]] = "unused" /\ AbsLife' = [AbsLife EXCEPT ![arg[p]] = "alive"]
  BY <1>2, <1>3, Sets DEF IInv, TypeOK, AbsLife, RUNNABLE, ZOMBIE, NOT_ALLOCATED
<1>5. AbsParent' = [AbsParent EXCEPT ![arg[p]] = p]
  BY <1>2, <1>3, Sets DEF IInv, TypeOK, AbsParent, RUNNABLE, NOT_ALLOCATED
<1>6. AbsWaits' = AbsWaits /\ AbsRun' = AbsRun
  BY <1>1, <1>2, <1>3, Sets DEF IInv, TypeOK, AbsWaits, AbsRun, RUNNABLE, WAITING, NOT_ALLOCATED
<1> QED
  BY <1>1, <1>2, <1>4, <1>5, <1>6 DEF Life!Fork

\* A task dies when it is marked.
LEMMA ExitStep ==
    ASSUME IInv, NEW p \in Pid, ExitMark(p)
    PROVE  Life!Exit(p)
<1>1. cpu = p /\ cpu' = p /\ state[p] = RUNNABLE /\ AbsRun = p
  BY RunningIsRunnable DEF ExitMark, Goto, cpuVars
<1>2. state' = [state EXCEPT ![p] = ZOMBIE] /\ UNCHANGED <<ppid, arg>>
  BY DEF ExitMark
<1>3. AbsLife' = [AbsLife EXCEPT ![p] = "dead"]
  BY <1>2, Sets DEF IInv, TypeOK, AbsLife, ZOMBIE, NOT_ALLOCATED
<1>4. UNCHANGED <<AbsParent, AbsWaits>> /\ AbsRun' = 0
  BY <1>1, <1>2, Sets DEF IInv, TypeOK, AbsParent, AbsWaits, AbsRun, RUNNABLE, ZOMBIE, WAITING,
         NOT_ALLOCATED
<1> QED
  BY <1>1, <1>3, <1>4 DEF Life!Exit

\* The notification wakes the parent if it waits for this child, and nobody else.
LEMMA NotifyStep ==
    ASSUME IInv, WaitOK, NEW p \in Pid, ExitNotify(p)
    PROVE  (ppid[p] \in Pid /\ Life!Wake(ppid[p], p)) \/ UNCHANGED Life!lifeVars
<1>1. cpu = p /\ cpu' = p /\ state[p] = ZOMBIE /\ ppid[p] \in Slot /\ ppid[p] # p
  BY Sets DEF ExitNotify, Goto, cpuVars, IInv, TypeOK, StateOK, ForkOK, ExitPoint
<1>2. UNCHANGED <<ppid, arg>>
  BY DEF ExitNotify
<1>3. CASE state[ppid[p]] = WAITING /\ wait_pid[ppid[p]] = p
  <2>1. ppid[p] \in Pid
    BY <1>1, <1>3, Sets DEF IInv, MachineOK, WAITING, NOT_ALLOCATED
  <2>2. state' = [state EXCEPT ![ppid[p]] = RUNNABLE]
    BY <1>3 DEF ExitNotify
  <2>3. arg[ppid[p]] = p
    BY <1>1, <1>3, <2>1, Sets DEF IInv, StateOK, WaitOK, WaitWindow
  <2>4. AbsWaits[ppid[p]] = p /\ AbsWaits' = [AbsWaits EXCEPT ![ppid[p]] = 0]
    BY <1>2, <1>3, <2>1, <2>2, <2>3, Sets DEF IInv, TypeOK, AbsWaits, RUNNABLE, WAITING
  <2>5. AbsLife[p] = "dead" /\ AbsParent[p] = ppid[p]
    BY <1>1 DEF AbsLife, AbsParent, ZOMBIE, NOT_ALLOCATED
  <2>6. UNCHANGED <<AbsLife, AbsParent>>
    BY <1>2, <1>3, <2>1, <2>2, Sets DEF IInv, TypeOK, AbsLife, AbsParent, RUNNABLE, WAITING, ZOMBIE,
           NOT_ALLOCATED
  <2>7. AbsRun' = AbsRun
    BY <1>1, <2>1, <2>2, Sets DEF IInv, TypeOK, AbsRun, RUNNABLE, ZOMBIE
  <2> QED
    BY <2>1, <2>4, <2>5, <2>6, <2>7 DEF Life!Wake
<1>4. CASE ~(state[ppid[p]] = WAITING /\ wait_pid[ppid[p]] = p)
  <2>1. state' = state
    BY <1>1, <1>4 DEF ExitNotify, IInv, TypeOK
  <2> QED
    BY <1>1, <1>2, <2>1, SameTable DEF AbsRun, Life!lifeVars
<1> QED
  BY <1>3, <1>4

\* A wait begins when the task is marked.
LEMMA BlockStep ==
    ASSUME IInv, WaitOK, ParentOK, NEW p \in Pid, WaitMark(p)
    PROVE  Life!Block(p, arg[p]) /\ arg[p] \in Pid
<1>1. cpu = p /\ cpu' = p /\ state[p] = RUNNABLE /\ AbsRun = p
  BY RunningIsRunnable DEF WaitMark, Goto, cpuVars
<1>2. arg[p] \in Slot /\ arg[p] # p /\ ppid[arg[p]] = p /\ state[arg[p]] # ZOMBIE
  BY DEF WaitMark, Goto, IInv, ForkOK, WaitPoint, WaitOK, WaitWindow
<1>3. arg[p] \in Pid
  BY <1>2, Sets DEF ParentOK
<1>4. state' = [state EXCEPT ![p] = WAITING] /\ UNCHANGED <<ppid, arg>>
  BY DEF WaitMark
<1>5. AbsLife[arg[p]] = "unused" \/ (AbsLife[arg[p]] = "alive" /\ AbsParent[arg[p]] = p)
  BY <1>2, <1>3 DEF AbsLife, AbsParent
<1>6. AbsWaits' = [AbsWaits EXCEPT ![p] = arg[p]]
  BY <1>4, Sets DEF IInv, TypeOK, AbsWaits
<1>7. UNCHANGED <<AbsLife, AbsParent>> /\ AbsRun' = 0
  BY <1>1, <1>4, Sets DEF IInv, TypeOK, AbsLife, AbsParent, AbsRun, RUNNABLE, WAITING, ZOMBIE,
         NOT_ALLOCATED
<1> QED
  BY <1>1, <1>2, <1>3, <1>5, <1>6, <1>7 DEF Life!Block

\* The entry is free again when sys_wait has reaped it.
LEMMA ReapStep ==
    ASSUME IInv, WaitOK, NEW p \in Pid, WaitReap(p)
    PROVE  Life!Reap(p, arg[p]) /\ arg[p] \in Pid
<1>1. cpu = p /\ cpu' = p /\ state[p] = RUNNABLE /\ AbsRun = p
  BY RunningIsRunnable DEF WaitReap, Goto, cpuVars
<1>2. arg[p] \in Slot /\ arg[p] # p /\ ppid[arg[p]] = p /\ state[arg[p]] = ZOMBIE
  BY DEF WaitReap, Goto, IInv, ForkOK, WaitPoint, WaitOK
<1>3. arg[p] \in Pid
  BY <1>2, Sets DEF IInv, MachineOK, ZOMBIE, NOT_ALLOCATED
<1>4. state' = [state EXCEPT ![arg[p]] = NOT_ALLOCATED] /\ UNCHANGED <<ppid, arg>>
  BY DEF WaitReap
<1>5. AbsLife[arg[p]] = "dead" /\ AbsParent[arg[p]] = p
  BY <1>2, <1>3 DEF AbsLife, AbsParent, ZOMBIE, NOT_ALLOCATED
<1>6. /\ AbsLife' = [AbsLife EXCEPT ![arg[p]] = "unused"]
      /\ AbsParent' = [AbsParent EXCEPT ![arg[p]] = 0]
  BY <1>3, <1>4, Sets DEF IInv, TypeOK, AbsLife, AbsParent
<1>7. AbsWaits' = AbsWaits /\ AbsRun' = AbsRun
  BY <1>1, <1>2, <1>3, <1>4, Sets DEF IInv, TypeOK, AbsWaits, AbsRun, WAITING, ZOMBIE, NOT_ALLOCATED
<1> QED
  BY <1>1, <1>3, <1>5, <1>6, <1>7 DEF Life!Reap

\* A step that changes neither the table nor who is on the CPU.
LEMMA QuietStep ==
    ASSUME UNCHANGED <<state, ppid, cpu>>, \A p \in Pid : state[p] = WAITING => arg'[p] = arg[p]
    PROVE  UNCHANGED Life!lifeVars
<1>1. UNCHANGED <<AbsLife, AbsParent, AbsWaits>>
  BY SameTable
<1>2. AbsRun' = AbsRun
  BY DEF AbsRun
<1> QED
  BY <1>1, <1>2 DEF Life!lifeVars

-----------------------------------------------------------------------------
(* Every step of the scheduler, the timer and the tasks. *)

LEMMA SchedRefine ==
    ASSUME IInv, SchedStep
    PROVE  [Life!LNext]_(Life!lifeVars)
<1> USE DEF taskVars, cpuVars, OnSched
<1>1. CASE SchedSkip
  BY <1>1, QuietStep DEF SchedSkip
<1>2. CASE SchedPick
  <2>1. cpu' = SCHED /\ cpu = SCHED /\ UNCHANGED <<ppid, arg>>
    BY <1>2 DEF SchedPick
  <2>2. state' = [state EXCEPT ![idx] = RUNNABLE] /\ state[idx] \in {RUNNABLE, SLEEPING}
    BY <1>2 DEF SchedPick
  <2>3. UNCHANGED <<AbsLife, AbsParent, AbsWaits>>
    BY <2>1, <2>2, Sets DEF IInv, TypeOK, AbsLife, AbsParent, AbsWaits, RUNNABLE, SLEEPING, WAITING,
           ZOMBIE, NOT_ALLOCATED
  <2> QED
    BY <2>1, <2>3, Sets DEF AbsRun, Life!lifeVars
<1>3. CASE SchedArm
  BY <1>3, QuietStep DEF SchedArm
<1>4. CASE SchedDispatch
  BY <1>4, DispatchStep DEF Life!LNext, Life!Proc, Pid
<1>5. CASE SchedBack
  BY <1>5, QuietStep DEF SchedBack
<1>6. CASE SchedEnd
  BY <1>6, QuietStep DEF SchedEnd
<1> QED
  BY <1>1, <1>2, <1>3, <1>4, <1>5, <1>6 DEF SchedStep

LEMMA TickRefine ==
    ASSUME IInv, Tick
    PROVE  [Life!LNext]_(Life!lifeVars)
<1> USE DEF cpuVars
<1>1. CASE TickSched
  BY <1>1, QuietStep DEF TickSched
<1>2. CASE TickSwitchLost
  <2>1. UNCHANGED <<AbsLife, AbsParent, AbsWaits>>
    BY <1>2, SameTable DEF TickSwitchLost
  <2>2. AbsRun = 0 /\ AbsRun' = 0
    BY <1>2, Sets DEF AbsRun, TickSwitchLost
  <2> QED
    BY <2>1, <2>2 DEF Life!lifeVars
<1>3. CASE TickSwitchLate
  BY <1>3, QuietStep DEF TickSwitchLate
<1>4. ASSUME NEW p \in Pid, TickTask(p)
      PROVE  [Life!LNext]_(Life!lifeVars)
  <2>1. UNCHANGED <<state, ppid, arg>> /\ cpu = p
    BY <1>4 DEF TickTask
  <2>2. CASE Preempts
    <3>1. Life!Leave(p) \/ UNCHANGED Life!lifeVars
      BY <1>4, <2>1, <2>2, LeaveStep DEF TickTask, Yield
    <3> QED
      BY <3>1 DEF Life!LNext, Life!Proc, Pid
  <2>3. CASE ~ Preempts
    BY <1>4, <2>1, <2>3, QuietStep DEF TickTask
  <2> QED
    BY <2>2, <2>3
<1> QED
  BY <1>1, <1>2, <1>3, <1>4 DEF Tick

LEMMA TaskRefine ==
    ASSUME IInv, WaitOK, ParentOK, NEW p \in Pid, KernelStep(p) \/ UserStep(p)
    PROVE  [Life!LNext]_(Life!lifeVars)
<1> USE DEF taskVars, cpuVars, Goto
<1>1. CASE \/ Iret(p) \/ ForkScanFree(p) \/ ForkScanFull(p) \/ ForkClone(p) \/ ForkCloneFail(p)
           \/ ForkRax(p) \/ WaitCheck(p) \/ WaitPid(p) \/ WaitResume(p) \/ WaitBadStatus(p)
           \/ SleepSet(p) \/ Fault(p)
  BY <1>1, QuietStep DEF Iret, ForkScanFree, ForkScanFull, ForkClone, ForkCloneFail, ForkRax,
         WaitCheck, WaitPid, WaitResume, WaitBadStatus, SleepSet, Fault
<1>2. CASE Sysret(p) \/ ForkCall(p) \/ ForkScanBusy(p) \/ WaitCall(p)
  <2>1. cpu = p /\ pc[p] \notin {"sleep_yield", "wait_pid", "wait_yield", "exit_notify", "exit_yield"}
    BY <1>2 DEF Sysret, ForkCall, ForkScanBusy, WaitCall
  <2>2. state[p] # WAITING
    BY <2>1, RunningIsRunnable DEF RUNNABLE, WAITING
  <2>3. UNCHANGED <<state, ppid, cpu>> /\ \E v : arg' = [arg EXCEPT ![p] = v]
    BY <1>2 DEF Sysret, ForkCall, ForkScanBusy, WaitCall
  <2>4. \A q \in Pid : state[q] = WAITING => arg'[q] = arg[q]
    BY <2>2, <2>3, Sets DEF IInv, TypeOK
  <2> QED
    BY <2>3, <2>4, QuietStep
<1>3. CASE SleepYield(p) \/ ExitYield(p) \/ WaitYield(p)
  <2>1. Life!Leave(p) \/ UNCHANGED Life!lifeVars
    BY <1>3, LeaveStep DEF SleepYield, ExitYield, WaitYield, Yield
  <2> QED
    BY <2>1 DEF Life!LNext, Life!Proc, Pid
<1>4. CASE SleepMark(p)
  BY <1>4, SleepStep DEF Life!LNext, Life!Proc, Pid
<1>5. CASE ForkParent(p)
  <2>1. arg[p] \in Pid /\ state[arg[p]] = NOT_ALLOCATED
    BY <1>5 DEF ForkParent, IInv, ForkOK, ForkWindow
  <2>2. ppid' = [ppid EXCEPT ![arg[p]] = p] /\ UNCHANGED <<state, arg, cpu>>
    BY <1>5 DEF ForkParent
  <2>3. UNCHANGED <<AbsLife, AbsParent, AbsWaits>>
    BY <2>1, <2>2, Sets DEF IInv, TypeOK, AbsLife, AbsParent, AbsWaits
  <2> QED
    BY <2>2, <2>3 DEF AbsRun, Life!lifeVars
<1>6. CASE ForkPublish(p)
  BY <1>6, PublishStep DEF Life!LNext, Life!Proc, Pid
<1>7. CASE ExitMark(p)
  BY <1>7, ExitStep DEF Life!LNext, Life!Proc, Pid
<1>8. CASE ExitNotify(p)
  BY <1>8, NotifyStep DEF Life!LNext, Life!Proc, Pid
<1>9. CASE WaitMark(p)
  BY <1>9, BlockStep DEF Life!LNext, Life!Proc, Pid
<1>10. CASE WaitReap(p)
  BY <1>10, ReapStep DEF Life!LNext, Life!Proc, Pid
<1> QED
  BY <1>1, <1>2, <1>3, <1>4, <1>5, <1>6, <1>7, <1>8, <1>9, <1>10 DEF KernelStep, UserStep

LEMMA RefineStep ==
    ASSUME IInv, WaitOK, ParentOK, [Next]_vars
    PROVE  [Life!LNext]_(Life!lifeVars)
<1>1. CASE UNCHANGED vars
  BY <1>1, QuietStep DEF vars
<1> QED
  BY <1>1, SchedRefine, TickRefine, TaskRefine DEF Next, Kernel

\* sched_start is entered with one process alive, init, that runs when it is dispatched.
LEMMA InitMap == Init => Life!LInit /\ ParentOK
<1> SUFFICES ASSUME Init PROVE Life!LInit /\ ParentOK
  OBVIOUS
<1> USE Sets DEF Init
<1>1. ParentOK
  BY DEF ParentOK
<1>2. AbsLife = [p \in Life!Proc |-> IF p = 1 THEN "alive" ELSE "unused"]
  BY DEF AbsLife, Life!Proc, Pid, RUNNABLE, NOT_ALLOCATED, ZOMBIE
<1>3. AbsParent = [p \in Life!Proc |-> 0] /\ AbsWaits = [p \in Life!Proc |-> 0]
  BY DEF AbsParent, AbsWaits, Life!Proc, Pid, RUNNABLE, NOT_ALLOCATED, WAITING
<1>4. AbsRun = 0
  BY DEF AbsRun
<1> QED
  BY <1>1, <1>2, <1>3, <1>4 DEF Life!LInit

\* The scheduler, the timer and the system calls implement the life of processes that
\* ProcessLifecycle describes, as long as the timer does not strike while a fork fills in
\* its entry, or between the test of a child and the wait for it (sys_fork, sys_wait,
\* sys_exit, sched_start).
THEOREM SchedRefines == ASSUME NotInWait PROVE Spec => Lifecycle
<1>1. Init => Life!LInit /\ ParentOK
  BY InitMap
<1>2. IInv /\ ParentOK /\ [Next]_vars => ParentOK'
  BY ParentStep DEF NotInWait
<1>3. IInv /\ WaitOK /\ ParentOK /\ [Next]_vars => [Life!LNext]_(Life!lifeVars)
  BY RefineStep
<1>4. Spec => [](IInv /\ WaitOK /\ NoLostWakeup)
  BY WaitInvariance
<1> QED
  BY <1>1, <1>2, <1>3, <1>4, PTL DEF Spec, Lifecycle, Life!LSpec
=============================================================================
