SPECIFICATION ModificationSpec
CONSTANTS
    Drivers = {d1}
    Dests = {1, 4}
    Handlers = {h1, h2}
    Fee = 200
    EnRouteFee = 500
    Attempts = 2
    MaxModifications = 2
    MaxFaults = 0
    None = None
SYMMETRY Symmetry
\* Each of these properties is refuted, whichever is checked alone.
PROPERTIES
    DriverKept
    OnlyWaitingReleased
    LogsImmutable
INVARIANT
    EveryChangeLogged
CHECK_DEADLOCK FALSE
