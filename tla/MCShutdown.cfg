\* The signal comes at any point of two connections' lives.
CONSTANTS
    Last = 2
    MaxRec = 1
    Jobs = 1
    Many = 2
    May = {"quit", "rent", "arrears", "trap", "kick", "guess", "autosave", "reap"}
    Overlap = {}
    None = None
    Late = FALSE
SPECIFICATION FairStopSpec
INVARIANTS
    StopTypeOK
    StopKeeps
PROPERTIES
    StopEnds
\* The process ends.
CHECK_DEADLOCK FALSE
