SPECIFICATION Spec
CONSTANTS
    root = root
    mayor = mayor
    c1 = c1
    u1 = u1
    u2 = u2
    Anns = {a1, a2}
    Drafts = {a1}
    Cities = {c1}
    Global = Global
    Admins = {root, mayor}
    AdminCity <- MCAdminCity
    Managers = {root, mayor}
    Users = {u1}
    UserCity <- MCUserCity
    Handlers = {h1}
    Crons = {k1}
    MaxBroadcasts = 3
    BatchSize = 1
    MaxTime = 1
    MaxRequests = 2
    MaxFaults = 1
    None = None
INVARIANTS
    TypeOK
    VisibleWasBroadcast
    BroadcastAccounted
PROPERTIES
    LifeCycleObeyedUnlessStale
    DueLeaves
CHECK_DEADLOCK FALSE
