\* A login while another login is entering the world.
CONSTANTS
    Last = 2
    MaxRec = 0
    Jobs = 1
    Many = 2
    May = {}
    Overlap = {"enter"}
    None = None
SPECIFICATION Spec
INVARIANTS
    OneBody
\* A behaviour ends when every connection has come and gone.
CHECK_DEADLOCK FALSE
