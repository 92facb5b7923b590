SPECIFICATION Spec
CONSTANTS
    N = 4
    K = 2
    R = 1
    B = 1
    Clients = {c1, c2}
    Core = Core
    None = None
    Junk = Junk
    MaxSets = 2
    MaxLosses = 0
    MaxInFlight = 1
    MaxLate = 1
    MaxReaders = 2
SYMMETRY ClientSymmetry
INVARIANTS
    StripeConsistent
    DamageStaysInGroup
PROPERTIES
    ImplementsObjectStore
CHECK_DEADLOCK FALSE
