\* Three connections, one handler at a time.
CONSTANTS
    Last = 3
    MaxRec = 1
    Jobs = 1
    Many = 2
    May = {"quit", "rent", "arrears", "trap", "kick", "guess", "autosave", "reap"}
    Overlap = {}
    None = None
SPECIFICATION Spec
INVARIANTS
    WorldAgrees
    RecordKept
    BelongingsSound
\* A behaviour ends when every connection has come and gone.
CHECK_DEADLOCK FALSE
