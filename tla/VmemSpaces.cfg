SPECIFICATION Spec
CONSTANTS
    FANOUT = 2
    FrameCount = 24
    FreeAtBoot = {0, 3, 6, 7, 9, 16, 24}
    MaxVm = 4
    UserPages = {1, 2}
    AreaChoices <- Stacks
    MaxAreas = 2
    MaxCalls = 2
    AreaCalls = TRUE
INVARIANTS
    TypeOK
    ExclusiveFrames
    NoLeak
    TablesPermit
    KernelMapped
PROPERTIES
    CloneFaithful
CHECK_DEADLOCK FALSE
