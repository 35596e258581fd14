SPECIFICATION PluginSpec
CONSTANTS
    Changers = {h1}
    MaxChanges = 2
    MaxSupervisors = 2
    FailureCap = 2
INVARIANTS
    KeepsItsOwn
CHECK_DEADLOCK FALSE
