SPECIFICATION Spec
CONSTANTS
    error = error
    Failed = error
    RIO_BUFSIZE = 3
    Length = 6
    Counts <- SomeCounts
INVARIANTS
    TypeOK
    BufferHoldsNext
    CallInOrder
PROPERTIES
    ImplementsByteStream
