SPECIFICATION FairSpec
CONSTANTS
    MaxSize = 2
    MaxWrites = 2
INVARIANTS HandleKept CacheKept WaitsRight ReadsLast Durable
PROPERTY CloseEnds
CHECK_DEADLOCK FALSE
