SPECIFICATION RSpec
CONSTANTS
    t1 = t1
    Absent = Absent
    Call <- MCCall
    Key <- MCKey
    KeyOf <- MCKeyOf
INVARIANTS
    PayloadsOutlastTheRecord
CHECK_DEADLOCK FALSE
