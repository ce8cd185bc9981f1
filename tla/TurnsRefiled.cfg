SPECIFICATION TurnsSpec
CONSTANTS
    search = search
    on_search = on_search
    form = form
    status = status
    on_status = on_status
    NoPair = NoPair
    NoKey = NoKey
    Key <- MCKey
    Type <- MCType
    FormType <- MCFormType
    Id <- MCId
    Sequence <- MCSequence
    MoreSequences <- MCStatusSequences
    Extra <- MCExtra
    Saves <- MCStatusSaves
    MaxTurns = 2
    MaxCalls = 1
    MaxId = 10
    MaxAsides = 1
    MaxFaults = 1
PROPERTIES
    NothingIsRefiled
CHECK_DEADLOCK FALSE
