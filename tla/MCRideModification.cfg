SPECIFICATION ModificationSpec
CONSTANTS
    Drivers = {d1}
    Dests = {1, 4}
    Handlers = {h1, h2}
    Fee = 200
    EnRouteFee = 500
    Attempts = 2
    MaxModifications = 2
    MaxFaults = 1
    None = None
SYMMETRY Symmetry
INVARIANTS
    ModificationTypeOK
    RowAgreesWithLogs
    ReleasedIfAsked
CHECK_DEADLOCK FALSE
