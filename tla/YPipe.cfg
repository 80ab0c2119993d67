SPECIFICATION FairSpec
CONSTANTS
    Val = {a, b}
    NULL = NULL
    MaxSlots = 4
INVARIANTS
    WakeUps
    Stream
PROPERTIES
    Refines
    Delivered
CHECK_DEADLOCK FALSE
