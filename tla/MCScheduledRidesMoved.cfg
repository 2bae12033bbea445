SPECIFICATION SchedSpec
CONSTANTS
    Rides = {r1}
    Users = {u1}
    Drivers = {d1}
    Handlers = {h1, h2}
    None = None
    MaxTime = 4
    Window = 2
    Lead = 1
    Grace = 1
    Advance = 1
    MaxAttempts = 2
PROPERTIES
    NotBeforeDue
CHECK_DEADLOCK FALSE
