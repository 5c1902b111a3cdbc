\* A login during a sweep.
CONSTANTS
    Last = 2
    MaxRec = 0
    Jobs = 1
    Many = 2
    May = {"reap"}
    Overlap = {"sweep"}
    None = None
SPECIFICATION Spec
INVARIANTS
    PlayingInWorld
\* A behaviour ends when every connection has come and gone.
CHECK_DEADLOCK FALSE
