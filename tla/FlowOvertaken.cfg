SPECIFICATION Spec
CONSTANTS
    p1 = p1
    p2 = p2
    p3 = p3
    c1 = c1
    c2 = c2
    s1 = s1
    r1 = r1
    h1 = h1
    h2 = h2
    h3 = h3
    Nobody = Nobody
    Steps = 2
    Ours <- OursTwice
    Msg <- MCMsg
    ActionOf <- MCActionOf
    ByFlow = {p1}
    ByTransaction = {c1}
    Starts = {}
    Restarts = {}
    Inbound = {}
    MaxTxn = 1
    MaxMishaps = 0
INVARIANTS
    SentIsRecorded
CHECK_DEADLOCK FALSE
