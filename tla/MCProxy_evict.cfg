SPECIFICATION Spec
CONSTANTS
    t1 = t1
    t2 = t2
    t3 = t3
    b1 = b1
    b2 = b2
    b3 = b3
    b4 = b4
    small = small
    short = short
    middling = middling
    medium = medium
    large = large
    NULL = NULL
    SizeOf <- Size
    MAX_CACHE_SIZE = 5
    MAX_OBJECT_SIZE = 3
    Threads <- OneThread
    Blocks <- FourBlocks
    Urls <- FiveUrls
SYMMETRY BlockSymmetry
INVARIANTS
    TypeOK
    MemorySafe
    ChainSound
    TotalIsSum
    AnswersBelong
PROPERTIES
    KeepsDoublyLinked
    KeepsLru
