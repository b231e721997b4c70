SPECIFICATION MCSpec
CONSTANTS
    Commands = {"Setloc", "Setmode", "Play", "Read", "Stop", "Pause", "Seek", "Init", "Sync"}
    ModeSets = {{}, {"CDDA", "AUTOPAUSE", "REPORT", "STRSND"}}
    Ch = {"MDECin", "MDECout"}
INVARIANTS CommandDue EventsRight QuietWhileStopping DriveGetsReady NotForgotten
PROPERTIES ResponseKept InterruptsOnEdge
