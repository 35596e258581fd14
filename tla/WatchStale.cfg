SPECIFICATION WatchSpec
CONSTANTS
    Streams = {s1}
    NoStream = NoStream
    MaxTruth = 1
    MaxFailures = 0
CHECK_DEADLOCK FALSE
PROPERTIES
    StreamCatchesUp
