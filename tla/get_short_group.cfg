SPECIFICATION Spec
CONSTANTS
    N = 5
    K = 3
    R = 2
    B = 2
    Clients = {c1}
    Core = Core
    None = None
    Junk = Junk
    MaxSets = 1
    MaxLosses = 1
    MaxInFlight = 1
    MaxLate = 1
    MaxReaders = 1
INVARIANTS
    GetReturnsLastSet
CHECK_DEADLOCK FALSE
