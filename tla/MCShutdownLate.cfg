\* Lines that have come in are still begun after the signal.
CONSTANTS
    Last = 1
    MaxRec = 1
    Jobs = 1
    Many = 2
    May = {}
    Overlap = {}
    None = None
    Late = TRUE
SPECIFICATION StopSpec
INVARIANTS
    StopKeeps
\* The process ends.
CHECK_DEADLOCK FALSE
