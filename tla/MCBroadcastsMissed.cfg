SPECIFICATION Spec
CONSTANTS
    root = root
    mayor = mayor
    c1 = c1
    u1 = u1
    u2 = u2
    Anns = {a1}
    Drafts = {a1}
    Cities = {c1}
    Global = Global
    Admins = {root}
    AdminCity <- MCAdminCity
    Managers = {root}
    Users = {u1, u2}
    UserCity <- MCUserCity
    Handlers = {h1}
    Crons = {k1}
    MaxBroadcasts = 1
    BatchSize = 1
    MaxTime = 0
    MaxRequests = 1
    MaxFaults = 0
    None = None
INVARIANT RecipientsIdentified
CHECK_DEADLOCK FALSE
