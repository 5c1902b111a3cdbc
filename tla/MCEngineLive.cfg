SPECIFICATION FairSpec
CONSTANTS
    a = a
    b = b
    c = c
    None = None
    Tasks = {a, b}
    Sync = {a}
    Spawned = {b}
    QueueDepth = 1
    Every <- EveryPulse
    MaxTime = 1
PROPERTIES
    AcceptedRuns
    SyncComesBack
    CancelStops
CHECK_DEADLOCK FALSE
