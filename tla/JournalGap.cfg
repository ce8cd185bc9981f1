SPECIFICATION Spec
CONSTANTS
    Line = {l1, l2}
    Drain = {d1}
    JournalLimit = 2
    DeltaLimit = 1
    MaxFaults = 0
INVARIANTS
    NothingIsPassed
CHECK_DEADLOCK FALSE
