SPECIFICATION LogSpec
CONSTANTS
  Pages = {b1}
  Inodes = {i1, i2}
  NoFile = NoFile
  PageLimit = 1
  MaxLines = 2
  MaxUpsets = 2
  MaxRestarts = 1
INVARIANTS
  LogTypeOK
  ShownIsBeginning
PROPERTIES
  ResetsForAReason
  CatchesUp
CHECK_DEADLOCK FALSE
