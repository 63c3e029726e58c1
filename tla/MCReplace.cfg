SPECIFICATION Spec
CONSTANTS
  NumRuns = 3
  Pieces = 2
  Sequential = TRUE
  RenameMayFail = TRUE
INVARIANTS
  AtomicInv OutcomeIsTrue
PROPERTIES
  ReplacesAtomically ReturnsClean
CHECK_DEADLOCK FALSE
