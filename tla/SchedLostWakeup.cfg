SPECIFICATION Spec
CONSTANTS
    MAX_TASK_COUNT = 3
    PREEMPT_TICKS = 1
    MaxSleep = 1
    TickPoints <- AnyPoint
INVARIANTS
    NoLostWakeup
CHECK_DEADLOCK FALSE
