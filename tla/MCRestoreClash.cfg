SPECIFICATION Spec
CONSTANTS
  Kind <- MCKind
  Below <- MCBelow
  PathOrder <- MCPathOrder
  ArchiveExts = {"jar", "zip"}
  UnsafeNames <- MCUnsafe
  MaxCopies = 2
  Canonical <- MCCanonical
  Path <- MCPath
  Out = "out"
  Commands <- ClashCommands
  Trees <- ClashTrees
  MaxRuns = 2
INVARIANTS
  EveryJarIsRestored
CHECK_DEADLOCK FALSE
