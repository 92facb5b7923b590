SPECIFICATION FairSpec
CONSTANTS
    N = 2
    K = 1
    R = 1
    B = 1
    Clients = {c1}
    Core = Core
    None = None
    Junk = Junk
    MaxSets = 2
    MaxLosses = 2
    MaxInFlight = 2
    MaxLate = 1
    MaxReaders = 1
PROPERTIES
    OperationsEnd
    ImplementsObjectStore
CHECK_DEADLOCK FALSE
