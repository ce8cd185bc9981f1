SPECIFICATION BatchSpec
CONSTANTS
    c1 = c1
    Total = 1
    Concurrency = 1
    Caller <- MCCaller
    HasPeer = FALSE
    Watched <- MCWatched
    Statuses = 1
    MaxStatus <- MCMaxStatus
    MaxMishaps = 0
INVARIANTS
    LeftToFinish
CHECK_DEADLOCK FALSE
