SPECIFICATION Spec
CONSTANTS
    Rides = {r1, r2}
    Users = {u1}
    Drivers = {d1, d2}
    Handlers = {h1, h2}
    None = None
SYMMETRY Symmetry
INVARIANTS
    TypeOK
    TripHasDriver
    EventHasCause
PROPERTIES
    TableObeyedUnlessStale
CHECK_DEADLOCK FALSE
