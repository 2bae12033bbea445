SPECIFICATION Spec
CONSTANTS
    Users = {u1}
    Admins = {u1}
    Handlers = {h1, h2}
    Limits <- MCLimits
    MaxAttempts = 1
    MaxTokens = 3
    MaxCodes = 2
    MaxRequests = 3
    MaxFaults = 1
    None = None
SYMMETRY Symmetry
INVARIANTS
    TypeOK
    RefreshOnce
    SessionsEndAtReset
    CodeKeptUnlessMixed
    CounterExpires
CHECK_DEADLOCK FALSE
