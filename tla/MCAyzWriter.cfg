SPECIFICATION Spec
CONSTANTS
  empty = empty  small = small  exact = exact  large = large
  Hash <- MCHash
  Size <- MCSize
  BlobFrameFlush = 10
  BlobHead = 1
  CompressedLen = {2, 3}
  HeaderTotal = 5
  ManifestLen = 4
  MaxBlobs = 4
INVARIANTS
  WriterInv TocLocatesBlobs ListReadsTheManifest FramesAreGrouped
  FramesTileThePayload OnlyWholeFilesOpen
CHECK_DEADLOCK FALSE
