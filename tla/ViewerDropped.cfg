SPECIFICATION ViewerSpec
CONSTANTS
    Capacity = 2
    QueueCap = 1
    ReplayChunk = 2
    Unset = Unset
    MaxTotal = 3
    MaxRef = 2
    RemountEarly = FALSE
PROPERTIES
    DroppedRecovers
