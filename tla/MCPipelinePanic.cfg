SPECIFICATION PipeSpec
CONSTANTS
  a = a  b = b  c = c  d = d
  Hash <- MCHash
  Inputs <- MCFailing
  Strict = TRUE
  FailOnSigned = TRUE
  MaxInflight = 3
  MayPanic = TRUE
  Unwinds = TRUE
INVARIANTS
  IInv
PROPERTIES
  Terminates
CHECK_DEADLOCK FALSE
