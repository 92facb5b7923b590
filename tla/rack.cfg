SPECIFICATION Spec
CONSTANTS
    N = 3
    Keys = {0, 1, 2, 3}
    Core = 3
    Unknown = Unknown
    Files <- AllFiles
INVARIANTS
    TypeOK
    PlacementAgreed
    OneBlockPerServer
    NoWildPointer
CHECK_DEADLOCK FALSE
