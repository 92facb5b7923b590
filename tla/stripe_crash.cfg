SPECIFICATION Spec
CONSTANTS
    N = 2
    K = 1
    R = 1
    B = 1
    Clients = {c1, c2}
    Core = Core
    None = None
    Junk = Junk
    MaxSets = 2
    MaxLosses = 1
    MaxInFlight = 1
    MaxLate = 0
    MaxReaders = 1
SYMMETRY ClientSymmetry
INVARIANTS
    StripeInv
    GetReturnsLastSet
CHECK_DEADLOCK FALSE
