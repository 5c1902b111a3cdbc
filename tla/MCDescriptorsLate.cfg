SPECIFICATION Spec
CONSTANTS
  Last = 2
  MaxRec = 1
  May = {"lateLogin", "die"}
INVARIANT RecordKept
CHECK_DEADLOCK FALSE
