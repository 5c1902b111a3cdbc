\* Two connections, every handler of theirs and of the server's in each other's middle.
CONSTANTS
    Last = 2
    MaxRec = 0
    Jobs = 1
    Many = 2
    May = {"quit", "again", "rent", "purge", "reap"}
    Overlap = {"login", "enter", "command", "leave", "job", "sweep"}
    None = None
SPECIFICATION Spec
INVARIANTS
    DrivenOnce
PROPERTIES
    LostByLateSteps
\* A behaviour ends when every connection has come and gone.
CHECK_DEADLOCK FALSE
