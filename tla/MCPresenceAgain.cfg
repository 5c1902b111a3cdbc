\* A player who quits and plays on over the same connection.
CONSTANTS
    Last = 2
    MaxRec = 0
    Jobs = 1
    Many = 2
    May = {"quit", "again"}
    Overlap = {}
    None = None
SPECIFICATION Spec
INVARIANTS
    NoDuplication
\* A behaviour ends when every connection has come and gone.
CHECK_DEADLOCK FALSE
