\* A JAR with leftover bytes between its directory and a Zip64 footer.
SPECIFICATION Spec
CONSTANTS
    MaxU32 = 13
    MaxU16 = 3
    MaxPrefix = 4
    MaxNested = 1
    DirNames = {"d/"}
    LongNames = {"long"}
    DotDotNames = {"../x"}
    Sources <- LeftoverSources
INVARIANTS
    RestoredIsAZip
