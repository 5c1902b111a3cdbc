SPECIFICATION Spec
CONSTANTS
    a = a
    b = b
    c = c
    None = None
    Tasks = {a, b, c}
    Sync = {a}
    Spawned = {c}
    QueueDepth = 2
    Every <- EveryPulse
    MaxTime = 2
INVARIANTS
    TypeOK
    AcceptedInOrder
    SyncReturnMeansRan
    StopKeepsPromises
    PulseIsBounded
CHECK_DEADLOCK FALSE
