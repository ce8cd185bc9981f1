SPECIFICATION TurnsSpec
CONSTANTS
    search = search
    on_search = on_search
    form = form
    status = status
    on_status = on_status
    NoPair = NoPair
    NoKey = NoKey
    Key <- MCKey
    Type <- MCType
    FormType <- MCFormType
    Id <- MCId
    Sequence <- MCSequence
    MoreSequences <- MCMoreSequences
    Extra <- MCExtra
    Saves <- MCSaves
    MaxTurns = 2
    MaxCalls = 1
    MaxId = 10
    MaxAsides = 1
    MaxFaults = 1
PROPERTIES
    NothingIsTakenBack
    EveryRunEnds
CHECK_DEADLOCK FALSE
