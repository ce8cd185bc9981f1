SPECIFICATION BatchSpec
CONSTANTS
    c1 = c1
    Total = 3
    Concurrency = 2
    Caller <- MCCaller
    HasPeer = TRUE
    Watched <- MCWatched
    Statuses = 1
    MaxStatus <- MCMaxStatus
    MaxMishaps = 1
INVARIANTS
    CompletedIsComplete
    StatusAddsUp
    NothingLeftArmed
    NeverForgotten
PROPERTIES
    EveryBatchEnds
CHECK_DEADLOCK FALSE
