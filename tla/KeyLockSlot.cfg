SPECIFICATION RSpec
CONSTANTS
    t1 = t1
    Absent = Absent
    Call <- MCCall
    Key <- MCKey
    KeyOf <- MCKeyOf
INVARIANTS
    TailClearsSlot
CHECK_DEADLOCK FALSE
