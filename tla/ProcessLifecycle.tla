-------------------------- MODULE ProcessLifecycle --------------------------
(***************************************************************************)
(* What the process system calls promise, without the scheduler's loop,    *)
(* the timer or the contents of the task table: a process is created by a  *)
(* running process, runs whenever it is chosen and does not wait, dies     *)
(* once, and its entry is reused only after its parent has seen it die.    *)
(* A process that waits is woken by the death of the very child it waits   *)
(* for, and by nothing else.                                               *)
(***************************************************************************)
EXTENDS Integers

CONSTANT N            \* length of the task table; pid 0 is nobody

Proc == 1 .. N - 1

VARIABLES
    life,     \* "unused", "alive" or "dead"
    parent,   \* who forked the process, 0 for nobody or an unused entry
    waits,    \* the pid the process waits for, 0 when it does not wait
    run       \* the process that executes, 0 for none

lifeVars == <<life, parent, waits, run>>

LInit ==
    /\ life = [p \in Proc |-> IF p = 1 THEN "alive" ELSE "unused"]
    /\ parent = [p \in Proc |-> 0]
    /\ waits = [p \in Proc |-> 0]
    /\ run = 0

\* Any process that is alive and does not wait may be given the CPU.
Dispatch(p) ==
    /\ run = 0
    /\ life[p] = "alive" /\ waits[p] = 0
    /\ run' = p
    /\ UNCHANGED <<life, parent, waits>>

\* The running process is preempted or goes to sleep.
Leave(p) ==
    /\ run = p
    /\ run' = 0
    /\ UNCHANGED <<life, parent, waits>>

Fork(p, c) ==
    /\ run = p
    /\ life[c] = "unused"
    /\ life' = [life EXCEPT ![c] = "alive"]
    /\ parent' = [parent EXCEPT ![c] = p]
    /\ UNCHANGED <<waits, run>>

Exit(p) ==
    /\ run = p
    /\ life' = [life EXCEPT ![p] = "dead"]
    /\ run' = 0
    /\ UNCHANGED <<parent, waits>>

\* A process waits for a child that is still alive, or for an entry that was
\* once its child and is unused now (tasks[].ppid outlives the child).
Block(p, c) ==
    /\ run = p
    /\ c # p
    /\ (life[c] = "alive" /\ parent[c] = p) \/ life[c] = "unused"
    /\ waits' = [waits EXCEPT ![p] = c]
    /\ run' = 0
    /\ UNCHANGED <<life, parent>>

Wake(p, c) ==
    /\ waits[p] = c
    /\ life[c] = "dead" /\ parent[c] = p
    /\ waits' = [waits EXCEPT ![p] = 0]
    /\ UNCHANGED <<life, parent, run>>

Reap(p, c) ==
    /\ run = p
    /\ life[c] = "dead" /\ parent[c] = p
    /\ life' = [life EXCEPT ![c] = "unused"]
    /\ parent' = [parent EXCEPT ![c] = 0]
    /\ UNCHANGED <<waits, run>>

LNext ==
    \/ \E p \in Proc : Dispatch(p) \/ Leave(p) \/ Exit(p)
    \/ \E p, c \in Proc : Fork(p, c) \/ Block(p, c) \/ Wake(p, c) \/ Reap(p, c)

LSpec == LInit /\ [][LNext]_lifeVars
=============================================================================
