SPECIFICATION LifeSpec
CONSTANTS
    Requests = {r1, r2}
    MaxLives = 3
    MaxTrouble = 5
PROPERTY
    RunningNotReplaced
CHECK_DEADLOCK FALSE
