SPECIFICATION Spec
CONSTANTS
    Addresses <- SomeAddresses
    MaxE = 3
    set_bit = 1
    block_bit = 1
    MaxAccesses = 6
CHECK_DEADLOCK FALSE
INVARIANTS
    TypeOK
    SetsSound
    Accounting
PROPERTIES
    ImplementsAgedSets
