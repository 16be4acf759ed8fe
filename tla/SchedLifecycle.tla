-------------------------- MODULE SchedLifecycle ---------------------------
(***************************************************************************)
(* The task table of Sched seen as processes: the mapping under which the  *)
(* scheduler and the system calls implement ProcessLifecycle.              *)
(***************************************************************************)
EXTENDS Sched

\* An entry is somebody's child only while it is in use.
AbsLife ==
    [p \in Pid |-> IF state[p] = NOT_ALLOCATED THEN "unused"
                   ELSE IF state[p] = ZOMBIE THEN "dead" ELSE "alive"]

AbsParent == [p \in Pid |-> IF state[p] = NOT_ALLOCATED THEN 0 ELSE ppid[p]]

\* The wait begins when the task is marked, before wait_pid is stored.
AbsWaits == [p \in Pid |-> IF state[p] = WAITING THEN arg[p] ELSE 0]

\* A task that has marked itself asleep, waiting or dead only executes the
\* rest of its system call.
AbsRun == IF cpu \in Pid /\ state[cpu] = RUNNABLE THEN cpu ELSE 0

Life == INSTANCE ProcessLifecycle WITH
            N <- MAX_TASK_COUNT, life <- AbsLife, parent <- AbsParent,
            waits <- AbsWaits, run <- AbsRun

\* Every step of the scheduler, the timer and the system calls is one step of
\* a process's life or none: a parent is woken by the death of the child it
\* waits for and by nothing else, a dead task never runs, an entry is reused
\* only after the parent has reaped it (sys_fork, sys_exit, sys_wait, sched_start).
Lifecycle == Life!LSpec
=============================================================================
