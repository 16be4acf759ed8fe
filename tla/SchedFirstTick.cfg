SPECIFICATION Spec
CONSTANTS
    MAX_TASK_COUNT = 3
    PREEMPT_TICKS = 2
    MaxSleep = 1
    TickPoints <- AnyPoint
PROPERTIES
    PreemptAfterDeadline
CHECK_DEADLOCK FALSE
