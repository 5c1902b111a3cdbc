\* As MCCombat.cfg, with those who follow somebody in bashes too.
SPECIFICATION Spec
CONSTANTS
  Chars = {a, b, c}
  NoChar = NoChar
  MaxMarks = 2
  MaxRisen = 1
SYMMETRY Symmetry
INVARIANTS
  TypeOK
  BondsSound
  CombatListed
  RoundFair
  DeadArePending
