SPECIFICATION FairSpec
CONSTANTS
    a = a
    b = b
    c = c
    None = None
    Tasks = {a}
    Sync = {a}
    Spawned = {}
    QueueDepth = 1
    Every <- EveryZeroTwoThree
    MaxTime = 7
INVARIANTS
    PulseFollowsTime
    PeriodicCaughtUp
PROPERTIES
    AcceptedRuns
    SyncComesBack
    CancelStops
CHECK_DEADLOCK FALSE
