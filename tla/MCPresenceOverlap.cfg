\* Three connections: logins, entries, commands and teardowns in each other's
\* middle.
CONSTANTS
    Last = 3
    MaxRec = 0
    Jobs = 1
    Many = 2
    May = {"quit"}
    Overlap = {"login", "enter", "command", "leave"}
    None = None
SPECIFICATION Spec
INVARIANTS
    NoSharedBody
    PlayingIsConnected
\* A behaviour ends when every connection has come and gone.
CHECK_DEADLOCK FALSE
