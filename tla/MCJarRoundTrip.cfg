\* One JAR, packed, verified and restored.
SPECIFICATION Spec
CONSTANTS
    MaxU32 = 13
    MaxU16 = 3
    MaxPrefix = 4
    MaxNested = 1
    DirNames = {"d/"}
    LongNames = {"long"}
    DotDotNames = {"../x"}
    Sources <- MCSources
INVARIANTS
    RoundTripInv
    PrefixIsFound
    ExactRestoresSource
    PackedJarsRestore
    RestoredListingIsSource
    VerifyAcceptsOwnPack
    VerifiedHasEveryBlob
