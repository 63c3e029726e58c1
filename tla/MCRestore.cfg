SPECIFICATION Spec
CONSTANTS
  Kind <- MCKind
  Below <- MCBelow
  PathOrder <- MCPathOrder
  ArchiveExts = {"jar", "zip"}
  UnsafeNames <- MCUnsafe
  MaxCopies = 2
  Canonical <- MCCanonical
  Path <- MCPath
  Out = "out"
  Commands <- MCCommands
  Trees <- MCTrees
  MaxRuns = 2
INVARIANTS
  RestoreInvariant PacksEachPathOnce NamesAreUnique EveryJarIsRestored DestsAreOldOrNew
PROPERTIES
  NothingIsClobbered
CHECK_DEADLOCK FALSE
