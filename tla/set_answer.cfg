SPECIFICATION Spec
CONSTANTS
    N = 4
    K = 2
    R = 1
    B = 1
    Clients = {c1}
    Core = Core
    None = None
    Junk = Junk
    MaxSets = 1
    MaxLosses = 1
    MaxInFlight = 1
    MaxLate = 1
    MaxReaders = 1
INVARIANTS
    SetSuccessMeansStored
CHECK_DEADLOCK FALSE
