SPECIFICATION PipeSpec
CONSTANTS
  a = a  b = b  c = c  d = d
  Hash <- MCHash
  Inputs <- MCInputs
  Strict = FALSE
  FailOnSigned = FALSE
  MaxInflight = 3
  MayPanic = FALSE
  Unwinds = TRUE
INVARIANTS
  IInv SeenIndexesBlobs InflightExact InflightBounded NoAccountingDeadlock
  JarLeavesNothing HeldBounded PackedSoFar ArchiveIsDeterministic
PROPERTIES
  Spec CompletesUnlessIoFails
CHECK_DEADLOCK FALSE
