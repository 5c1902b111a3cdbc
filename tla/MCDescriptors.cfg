SPECIFICATION Spec
CONSTANTS
  Last = 2
  MaxRec = 1
  May = {"drop", "die", "build", "switch", "dc", "purge", "idle", "guess"}
INVARIANTS
  TypeOK
  PointersSound
  OneBody
  BelongingsOnce
PROPERTY IsStay
CHECK_DEADLOCK FALSE
