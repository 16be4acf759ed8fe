SPECIFICATION Spec
CONSTANTS
    Vm = {v1, v2}
    Areas <- Two
    PAGE_SIZE = 4
    PerPage = 3
    MaxPages = 2
    Callers = {c1}
    SwitchPoints <- OutsidePop
INVARIANTS
    FreeListed
CHECK_DEADLOCK FALSE
