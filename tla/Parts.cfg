SPECIFICATION PartsSpec
CONSTANTS
    Capacity = 4
    MaxChunk = 6
    MaxTotal = 13
    Requests = {r1}
    MaxLives = 3
    MaxTrouble = 5
    Suspects = {p, q}
    Grace = 1
    QuietAfterAnswer = 2
    QuietAfterFailure = 1
    WarnForgets = 1
    SnoozeFor = 1
    MaxClock = 4
    People = {t, w}
    Tappers = {t}
    MaxPushes = 2
    MaxRequests = 2
    MaxMishaps = 1
    MaxRead = 3
    MaxPending = 5
    TailLength = 2
    MaxMode = 5
    Abandons = FALSE
    MaxMessages = 2
    Saves = {sv1}
    Adapters = {1, 2}
    MaxFaults = 2
    InitialTail = 3
    OneRead = 4
    Telling = 2
    MaxFile = 7
    MaxLooks = 1
    MaxFiles = 2
    LongLines = FALSE
INVARIANTS
    PartsTypeOK
    ReplayExact
    NothingStranded
    
    CutAnywhere
PROPERTIES
    ImplementsWindow
    RunningNotReplaced
    RowFollowsPane
    NothingEndedUnasked
    RequestsEnd
    
    
CHECK_DEADLOCK FALSE
