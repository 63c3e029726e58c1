SPECIFICATION Spec
CONSTANTS
  NumRuns = 2
  Pieces = 2
  Sequential = FALSE
  RenameMayFail = FALSE
INVARIANTS
  NoUnfinishedDest
CHECK_DEADLOCK FALSE
