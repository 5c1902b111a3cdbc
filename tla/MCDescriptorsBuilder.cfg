SPECIFICATION Spec
CONSTANTS
  Last = 2
  MaxRec = 1
  May = {"build", "dc", "dcBuilder"}
INVARIANT NothingFreedInUse
CHECK_DEADLOCK FALSE
