SPECIFICATION Spec
CONSTANTS
    p1 = p1
    p2 = p2
    p3 = p3
    c1 = c1
    c2 = c2
    s1 = s1
    r1 = r1
    h1 = h1
    h2 = h2
    h3 = h3
    Nobody = Nobody
    Steps = 3
    Ours <- Alternating
    Msg <- MCMsg
    ActionOf <- MCActionOf
    ByFlow = {p1, p2, p3}
    ByTransaction = {}
    Starts = {}
    Restarts = {r1}
    Inbound = {h1, h2}
    MaxTxn = 3
    MaxMishaps = 1
SYMMETRY MCSymmetry
INVARIANTS
    SentOnce
    FirstActionOnce
    NoOrphans
    BindingIsLive
    MarkerHasOwner
CHECK_DEADLOCK FALSE
