SPECIFICATION Spec
CONSTANTS
    Caller = {c1}
    MaxAttempts = 1
    MaxEntries = 2
    MaxLines = 2
    DeltaLimit = 1
INVARIANTS
    NothingSkipped
CHECK_DEADLOCK FALSE
