SPECIFICATION Spec
CONSTANTS
    Limits <- SmallLimits
    RANGE = 2
    chunksize = 6
    MaxHeap = 18
    Requests = {1, 3, 4}
INVARIANTS
    TypeOK
    BlocksTileHeap
    BoundaryTags
    ListsHoldFreeBlocks
    PayloadsIntact
PROPERTIES
    ImplementsAllocator
CHECK_DEADLOCK FALSE
