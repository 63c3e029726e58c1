SPECIFICATION PipeSpec
CONSTANTS
  a = a  b = b  c = c  d = d
  Hash <- MCHash
  Inputs <- MCFailingStrict
  Strict = TRUE
  FailOnSigned = TRUE
  MaxInflight = 3
  MayPanic = TRUE
  Unwinds = FALSE
PROPERTIES
  Terminates
CHECK_DEADLOCK FALSE
