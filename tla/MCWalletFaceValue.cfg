SPECIFICATION Spec
CONSTANTS
    Users = {u1}
    Payments = {p1}
    Rides = {r1}
    Prices = {1}
    Handlers = {h1}
    Credits = {c1}
    None = None
INVARIANTS
    TopupAtFaceValue
CHECK_DEADLOCK FALSE
