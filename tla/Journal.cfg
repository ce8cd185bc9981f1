SPECIFICATION FairSpec
CONSTANTS
    Line = {l1, l2, l3}
    Drain = {d1, d2}
    JournalLimit = 2
    DeltaLimit = 1
    MaxFaults = 1
INVARIANTS
    NothingWithheldIsPassed
    DeliveredInOrder
PROPERTIES
    EveryLineIsDelivered
CHECK_DEADLOCK FALSE
