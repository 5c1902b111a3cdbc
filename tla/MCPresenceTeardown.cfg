\* Three connections: logins and commands in the middle of a teardown or a sweep.
CONSTANTS
    Last = 3
    MaxRec = 0
    Jobs = 1
    Many = 2
    May = {"quit", "trap", "purge"}
    Overlap = {"leave", "sweep"}
    None = None
SPECIFICATION Spec
INVARIANTS
    WorldAgrees
    DrivenOnce
\* A behaviour ends when every connection has come and gone.
CHECK_DEADLOCK FALSE
