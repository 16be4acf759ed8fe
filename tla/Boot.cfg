SPECIFICATION Spec
CONSTANTS
    PAGE_SIZE = 4
    MAX_ORDER = 2
    MAX_ZONE_COUNT = 2
    KernelEnd = 13
    InfoStart = 16
    InfoSize = 6
    KernelPages <- KernelSizes
    PDES = 3
    KERNEL_SECTIONS_SIZE_IN_GB = 2
    Infos <- SmallInfos
    SdtLists <- SmallSdtLists
    Madts <- SmallMadts
    MemMaps <- SmallMemMaps
    MaxElapsed = 2
INVARIANTS TypeOK KernelReachable ParserExact LookupFirst IrqReady ZonesApart
PROPERTY BootEnds
