SPECIFICATION Spec
CONSTANTS
    N = 5
    K = 2
    R = 2
    B = 3
    Clients = {c1}
    Core = Core
    None = None
    Junk = Junk
    MaxSets = 1
    MaxLosses = 2
    MaxInFlight = 1
    MaxLate = 1
    MaxReaders = 1
INVARIANTS
    GetToleratesB
CHECK_DEADLOCK FALSE
