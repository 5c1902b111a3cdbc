SPECIFICATION Spec
CONSTANTS
  Last = 2
  MaxRec = 1
  May = {"quitAtAutosave"}
INVARIANT BelongingsOnce
CHECK_DEADLOCK FALSE
