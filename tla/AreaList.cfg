SPECIFICATION Spec
CONSTANTS
    Vm = {v1, v2}
    Areas <- Two
    PAGE_SIZE = 4
    PerPage = 3
    MaxPages = 2
    Callers = {c1, c2}
    SwitchPoints <- OutsidePop
SYMMETRY Interchangeable
INVARIANTS
    TypeOK
    NoDoubleAlloc
    RingsIntact
PROPERTIES
    AreasAreSequences
CHECK_DEADLOCK FALSE
