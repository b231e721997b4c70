SPECIFICATION PsyqoFairSpec
CONSTANTS
    Commands = {"Setloc", "Setmode", "Read", "Pause", "Stop", "GetTN", "Seek", "Play", "Mute", "Reset", "Getparam"}
    ModeSets = {{}}
    Uses = {"read", "track", "disc", "pause", "locate", "reset", "size", "toc", "test", "block"}
    Hurry = {"restart", "late"}
    Count = 2
    Tracks = 2
    Sizes = {2, 3}
INVARIANTS ResponseSeen DeviceAgrees
PROPERTIES ActionsEnd PlaysEnd
CHECK_DEADLOCK FALSE
