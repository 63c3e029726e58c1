SPECIFICATION Spec
CONSTANTS
  a = a  b = b  p1 = p1  p2 = p2
  Hash <- MCHash
  Proc <- MCProc
  Streams <- MCStreams
  Kills = TRUE
INVARIANTS
  SpillInvariant VerifiedRestores PutsConverge
CHECK_DEADLOCK FALSE
