SPECIFICATION MCSpec
CONSTANTS
    Commands = {"Getstat", "Setloc", "Read", "Pause", "Reset", "Setmode", "Seek"}
    ModeSets = {{}}
    Uses = {"file", "status", "direct"}
    Hurry = {}
    Count = 2
    Retries = 2
    Errors = 2
    Moves = 2
INVARIANTS DriverSound ReadsWhole FailsForCause
PROPERTY CallsEnd
CHECK_DEADLOCK FALSE
