SPECIFICATION FairSpec
CONSTANTS
    Rides = {r1}
    Drivers = {d1, d2}
    Tasks = {w1, w2}
    None = None
    LockTTL = 3
    OfferTTL = 2
    MaxAttempts = 2
INVARIANTS
    TypeOK
    OneOfferAtATime
PROPERTIES
    DispatchEnds
