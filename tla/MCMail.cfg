SPECIFICATION FairSpec
CONSTANTS
  Players = {p, q}
  MaxLetters = 3
  MaxParts = 3
  MaxBlocks = 5
  Stops = {"idle", "receiving"}
INVARIANTS
  TypeOK
  LettersReadable
  MemoryIsFile
PROPERTIES
  IsMailbox
  ReceivingEnds
CHECK_DEADLOCK FALSE
