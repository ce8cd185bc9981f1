SPECIFICATION Spec
CONSTANTS
    p1 = p1
    p2 = p2
    p3 = p3
    c1 = c1
    c2 = c2
    s1 = s1
    r1 = r1
    h1 = h1
    h2 = h2
    h3 = h3
    Nobody = Nobody
    Steps = 2
    Ours <- NoneOurs
    Msg <- MCMsg
    ActionOf <- MCActionOf
    ByFlow = {}
    ByTransaction = {}
    Starts = {}
    Restarts = {}
    Inbound = {h1, h2, h3}
    MaxTxn = 1
    MaxMishaps = 0
INVARIANTS
    AckAdvances
CHECK_DEADLOCK FALSE
