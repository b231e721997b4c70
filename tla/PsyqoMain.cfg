SPECIFICATION MainSpec
CONSTANTS
    Capacity = 3
    MaxQueued = 8
    MaxDepth = 1
    Timers = {1, 2}
    Delays = {1, 2}
    CounterRange = 2
    Half = 3
    Length = 2
    MaxRuns = 2
    Habits = {}
INVARIANTS CalledInOrder RingSound QueuesSound
PROPERTIES TimersSound AllDone
CHECK_DEADLOCK FALSE
