SPECIFICATION Spec
CONSTANTS
    Rides = {r1, r2}
    Users = {u1}
    Drivers = {d1}
    Handlers = {h1}
    None = None
INVARIANTS
    OneActiveRidePerDriver
CHECK_DEADLOCK FALSE
