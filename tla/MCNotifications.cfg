SPECIFICATION Spec
CONSTANTS
    u1 = u1
    s1 = s1
    Users = {u1}
    Sockets = {s1}
    Owner <- MCOwner
    Handlers = {h1}
    Channels = {"push", "websocket"}
    Attempts = 2
    MaxRows = 2
    MaxRequests = 2
    MaxFaults = 1
    None = None
INVARIANTS
    TypeOK
    WaitingHasJob
    DeliveredWasReached
CHECK_DEADLOCK FALSE
