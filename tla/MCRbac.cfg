SPECIFICATION Spec
CONSTANTS
    super = super
    moderator = moderator
    s1 = s1
    Users = {u1, u2}
    Roles = {super, moderator}
    SystemRoles = {super}
    SuperAdmin = super
    Scope <- MCScope
    Slugs = {s1}
    Seeded <- MCSeeded
    Cities = {c1}
    Handlers = {h1, h2}
    MaxGrants = 2
    MaxRequests = 3
    MaxFaults = 1
    None = None
SYMMETRY Symmetry
INVARIANTS
    TypeOK
    CacheAgrees
    GrantedOnce
CHECK_DEADLOCK FALSE
