------------------------------ MODULE MCSched ------------------------------
(***************************************************************************)
(* Values of TickPoints for model checking Sched.                          *)
(***************************************************************************)
EXTENDS SchedLifecycle

\* The code as it is: the timer may strike wherever interrupts are enabled.
AnyPoint == TaskPoint \cup SchedPoint

\* The points where a preemption matters, except while a fork prepares the
\* entry it found.
KeyPoints == {"user", "hlt", "fork_rax"} \cup SwitchWindow \cup WaitWindow \cup BlockWindow

\* User mode, the idle scheduler, the point of sys_wait outside the windows of
\* Sched where the state of another task was read before and is relied on after,
\* and the point of sys_fork where the child is published but not complete.
OutsideWindows == {"user", "hlt", "wait_reap", "fork_rax"}
=============================================================================
