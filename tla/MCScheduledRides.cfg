SPECIFICATION FairSchedSpec
CONSTANTS
    Rides = {r1}
    Users = {u1}
    Drivers = {d1}
    Handlers = {h1, h2}
    None = None
    MaxTime = 4
    Window = 2
    Lead = 1
    Grace = 1
    Advance = 1
    MaxAttempts = 2
INVARIANTS
    SchedTypeOK
    RequestedAtMostOnce
PROPERTIES
    TableObeyedUnlessStale
    ScheduledRideLeaves
CHECK_DEADLOCK FALSE
