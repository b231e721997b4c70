SPECIFICATION PsyqoFairSpec
CONSTANTS
    Commands = {"Setloc", "Setmode", "Read", "Pause", "Stop", "GetTN", "Seek", "Play", "Mute", "Reset", "Getparam"}
    ModeSets = {{}}
    Uses = {"mute"}
    Hurry = {}
    Count = 1
    Tracks = 1
    Sizes = {2}
INVARIANT NeverAborts
CHECK_DEADLOCK FALSE
