\* Three characters in two rooms, two deaths in a pulse, one whom a bash got up while
\* nobody follows anybody.
SPECIFICATION Spec
CONSTANTS
  Chars = {a, b, c}
  NoChar = NoChar
  MaxMarks = 2
  MaxRisen = 1
SYMMETRY Symmetry
CONSTRAINT Apart
INVARIANTS
  TypeOK
  BondsSound
  CombatListed
  RoundFair
  DeadArePending
