SPECIFICATION Spec
CONSTANTS
    Caller = {c1}
    MaxAttempts = 2
    MaxEntries = 2
    MaxLines = 2
    DeltaLimit = 1
INVARIANTS
    ReportedIsStored
    NothingSeenTwice
    NeverDeaf
    EveryHintIsHeard
    TimedOutIsQuiet
    DeadEndEndsTheWait
CHECK_DEADLOCK FALSE
