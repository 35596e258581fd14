SPECIFICATION Spec
CONSTANTS
    Windows = {w1}
    MaxEdits = 2
    SlowSaves = TRUE
    None = None
INVARIANTS
    MineKept
