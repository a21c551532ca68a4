SPECIFICATION LimiterSpec
CONSTANTS
    alice = alice
    r1 = r1
    r2 = r2
    r3 = r3
    NoBucket = NoBucket
    Clients = {alice}
    Owner <- OneOwner
    Capacity = 2
    Grain = 2
    Refill = 1
    Second = 2
    MinTTL = 1
    Steps = {3}
    MaxSends = 2
    MaxTravel = 12
INVARIANTS LimiterTypeOK AdmissionBound ExpiryIsInvisible AdmissionIsPaid
PROPERTIES TokensAreConserved
SYMMETRY Symmetry
