SPECIFICATION PartsSpec
CONSTANTS
    Attachers = {a1, a2}
    Detachers = {d1}
    None = None
    SlowPump = TRUE
    ObeysTerm = FALSE
    Changers = {h1}
    MaxChanges = 2
    MaxSupervisors = 2
    FailureCap = 2
    MaxJobs = 3
    MaxHash = 2
    MaxRemovals = 1
    MaxPanels = 1
    Impatient = FALSE
    Presses = {p1, p2}
    Runs = {1, 2}
    MaxRelease = 3
    NoFile = NoFile
    SlowRestart = FALSE
INVARIANTS
    PartsTypeOK
    NoStrayProcess
    
PROPERTIES
    CallsReturn
    ImplementsOneClient
    ProcessFollows
    DownloadsEnd
    
CHECK_DEADLOCK FALSE
