\* A connection that ends at the menu it logged in to.
CONSTANTS
    Last = 2
    MaxRec = 0
    Jobs = 1
    Many = 2
    May = {"menuHangup"}
    Overlap = {}
    None = None
SPECIFICATION Spec
INVARIANTS
    BelongingsKept
\* A behaviour ends when every connection has come and gone.
CHECK_DEADLOCK FALSE
