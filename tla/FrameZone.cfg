SPECIFICATION HistSpec
CONSTANTS
    MAX_ORDER = 2
    BlockCount <- TwoBlocks
    Requests = {1, 2, 4}
    OrderBits <- order_bitmap_size
    Callers = {c1, c2}
INVARIANTS
    TypeOK
    Intact
    Owned
    Merged
CONSTRAINTS
    Unexposed
CHECK_DEADLOCK FALSE
