SPECIFICATION Spec
CONSTANTS
    MAX_TASK_COUNT = 4
    PREEMPT_TICKS = 1
    MaxSleep = 1
    TickPoints <- KeyPoints
INVARIANTS
    TypeOK
    ResourceSafety
    AddressSpace
    ExitOnce
    NoEarlyWake
    HaltsOnlyIdle
PROPERTIES
    WakeupLostOnlyThere
    DeafOnlyThere
CHECK_DEADLOCK FALSE
