SPECIFICATION RFairSpec
CONSTANTS
    t1 = t1
    Absent = Absent
    Call <- MCCall
    Key <- MCKey
    KeyOf <- MCKeyOf
INVARIANTS
    FirstComeFirstServed
    EntriesHavePayloads
PROPERTIES
    SeqNeverRewinds
    ToldIsDurable
    ImplementsLedger
    EveryCallIsServed
CHECK_DEADLOCK FALSE
