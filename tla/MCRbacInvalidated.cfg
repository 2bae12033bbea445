SPECIFICATION Spec
CONSTANTS
    super = super
    moderator = moderator
    s1 = s1
    Users = {u1, u2}
    Roles = {super, moderator}
    SystemRoles = {super}
    SuperAdmin = super
    Scope <- MCScope
    Slugs = {s1}
    Seeded <- MCSeeded
    Cities = {c1}
    Handlers = {h1}
    MaxGrants = 2
    MaxRequests = 3
    MaxFaults = 0
    None = None
PROPERTY InvalidatedOnChange
CHECK_DEADLOCK FALSE
