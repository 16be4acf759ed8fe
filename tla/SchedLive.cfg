SPECIFICATION FairSpec
CONSTANTS
    MAX_TASK_COUNT = 4
    PREEMPT_TICKS = 1
    MaxSleep = 1
    TickPoints <- OutsideWindows
INVARIANTS
    WaitSafe
    ForkZero
PROPERTIES
    RunnableRuns
    SleepEnds
    WaitWakes
    Lifecycle
CHECK_DEADLOCK FALSE
