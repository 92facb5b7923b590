SPECIFICATION Spec
CONSTANTS
    N = 8
    K = 3
    R = 2
    B = 3
    Clients = {c1}
    Core = Core
    None = None
    Junk = Junk
    MaxSets = 2
    MaxLosses = 1
    MaxInFlight = 1
    MaxLate = 0
    MaxReaders = 1
INVARIANTS
    TypeOK
    StripeConsistent
    SoundBlocksReturned
    DamageStaysInGroup
CHECK_DEADLOCK FALSE
