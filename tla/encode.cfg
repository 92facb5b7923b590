SPECIFICATION Spec
CONSTANTS
    MaxN = 20
    Codes <- AllCodes
    Lengths <- AllLengths
    SizeT = 1000000
INVARIANTS
    TypeOK
    IndicesInBounds
    DataWhereGetLooks
    ParityCoversGroup
    EachBlockPlacedOnce
    DegradedGetReadsGroup
    ValuesReassemble
    SimulatorMatchesLayout
    RackLossTolerated
    OursNoWorseThanFlat
    CrossingsAsSimulated
PROPERTIES
    NothingOverwritten
CHECK_DEADLOCK FALSE
