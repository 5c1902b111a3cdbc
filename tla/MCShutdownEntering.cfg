\* The signal comes while a player is entering the world, nothing set aside.
CONSTANTS
    Last = 1
    MaxRec = 0
    Jobs = 1
    Many = 2
    May = {}
    Overlap = {}
    None = None
    Late = FALSE
SPECIFICATION StopSpec
INVARIANTS
    NothingLost
\* The process ends.
CHECK_DEADLOCK FALSE
