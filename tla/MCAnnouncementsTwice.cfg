SPECIFICATION Spec
CONSTANTS
    root = root
    mayor = mayor
    c1 = c1
    u1 = u1
    u2 = u2
    Anns = {a1}
    Drafts = {a1}
    Cities = {c1}
    Global = Global
    Admins = {root}
    AdminCity <- MCAdminCity
    Managers = {root}
    Users = {u1}
    UserCity <- MCUserCity
    Handlers = {h1}
    Crons = {k1}
    MaxBroadcasts = 2
    BatchSize = 1
    MaxTime = 1
    MaxRequests = 1
    MaxFaults = 1
    None = None
INVARIANT BroadcastOnce
CHECK_DEADLOCK FALSE
