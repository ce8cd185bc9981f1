SPECIFICATION BuildSpec
CONSTANTS
    search = search
    form = form
    on_status = on_status
    status = status
    cancel = cancel
    m1 = m1
    m2 = m2
    NoPair = NoPair
    Key <- MCKey
    Type <- MCType
    FormType <- MCFormType
    Id <- MCId
    Sequence <- MCSequence
    MoreSequences <- MCMoreSequences
    Extra <- MCExtra
    MaxList = 5
INVARIANTS
    CursorIsGreatest
    FiledOnce
    RepliesOwed
CHECK_DEADLOCK FALSE
