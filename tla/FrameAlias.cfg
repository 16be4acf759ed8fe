SPECIFICATION Spec
CONSTANTS
    MAX_ORDER = 2
    BlockCount <- OneBlock
    Requests = {1, 2}
    OrderBits <- order_bitmap_size
    Callers = {c1}
INVARIANTS
    NoCorruption
