SPECIFICATION Spec
CONSTANTS
  Last = 2
  MaxRec = 1
  May = {"unsaved"}
INVARIANT RecordKept
CHECK_DEADLOCK FALSE
