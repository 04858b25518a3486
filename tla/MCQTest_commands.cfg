CONSTANTS
    Elements = {e1, e2, e3}
    Queues = {q1, q2}
    Strings = {gerbil, bear}
    NULL = NULL
    Blank = Blank
    fail_limit = 2
    err_limit = 2
    big_queue_size = 1
    MaxReps = 2
    MaxAlarms = 1
    NoQueue = NoQueue
    Broken = Broken
SPECIFICATION Spec
SYMMETRY Addresses
CHECK_DEADLOCK FALSE
INVARIANTS
    TypeOK
    MemorySafe
    ListSafe
    QueueWhole
PROPERTY
    ImplementsDeque
