SPECIFICATION FairSpec
CONSTANTS
    Half = 8
    Behind = 2
    MaxDrift = 3
    Steps = {2}
    Chunks = {2}
    Period = 1
    Frame = {1, 2}
    Silence = 1
    Cap = 3
    Blocks <- MCBlocks
INVARIANT NotEarly
PROPERTIES StreamSafe WaitEnds MixerStops
