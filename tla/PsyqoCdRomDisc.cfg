SPECIFICATION PsyqoFairSpec
CONSTANTS
    Commands = {"Setloc", "Setmode", "Read", "Pause", "Stop", "GetTN", "Seek", "Play", "Mute", "Reset", "Getparam"}
    ModeSets = {{}}
    Uses = {"disc"}
    Hurry = {}
    Count = 1
    Tracks = 1
    Sizes = {2}
PROPERTY DiscEnds
CHECK_DEADLOCK FALSE
