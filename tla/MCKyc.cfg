SPECIFICATION Spec
CONSTANTS
    root = root
    mayor = mayor
    c1 = c1
    c2 = c2
    u1 = u1
    u2 = u2
    u3 = u3
    Users = {u1, u2, u3}
    UserCity <- MCUserCity
    Admins = {root, mayor}
    Globals = {root}
    Managed <- MCManaged
    Handlers = {h1, h2}
    BatchSize = 2
    MaxDocs = 2
    MaxRequests = 3
    MaxFaults = 1
    None = None
SYMMETRY Symmetry
INVARIANTS
    TypeOK
    KycAgrees
    EachCalledOnce
CHECK_DEADLOCK FALSE
