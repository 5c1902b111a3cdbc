\* A god purges a player.
CONSTANTS
    Last = 2
    MaxRec = 0
    Jobs = 1
    Many = 2
    May = {"purge"}
    Overlap = {}
    None = None
SPECIFICATION Spec
INVARIANTS
    PurgedUnsaved
\* A behaviour ends when every connection has come and gone.
CHECK_DEADLOCK FALSE
