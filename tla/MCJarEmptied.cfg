\* A JAR whose directory lists nothing, with members in front of it.
SPECIFICATION Spec
CONSTANTS
    MaxU32 = 13
    MaxU16 = 3
    MaxPrefix = 4
    MaxNested = 1
    DirNames = {"d/"}
    LongNames = {"long"}
    DotDotNames = {"../x"}
    Sources <- EmptiedSources
INVARIANTS
    ExactIsByteIdentical
