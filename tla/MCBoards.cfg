SPECIFICATION Spec
CONSTANTS
  Authors = {a, b}
  NumBoards = 2
  MaxMessages = 2
  Spare = 1
  MaxPosts = 3
  MaxLines = 2
SYMMETRY AuthorSymmetry
INVARIANTS
  TypeOK
  SlotsHeldOnce
  AuthorKeepsMessage
  EndedIsSaved
CHECK_DEADLOCK FALSE
