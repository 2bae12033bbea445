-------------------------------- MODULE Rbac --------------------------------
(***************************************************************************)
(* Roles and permissions: what the administrators change, and the guards   *)
(* that decide by what a cache says of it.                                 *)
(*                                                                         *)
(* The permissions of a user are computed from four tables and kept in     *)
(* Redis for five minutes.  Some changes delete the cached entries they    *)
(* touch, one step after they are written; others leave them.  Names,      *)
(* colours and reasons are left out; so is what a query returns.           *)
(***************************************************************************)
EXTENDS Integers, FiniteSets

CONSTANTS
    Users,
    Roles,
    SystemRoles,    \* the roles of the seed, which cannot be changed
    SuperAdmin,     \* the role the bootstrap grants
    Scope,          \* global or city
    Slugs,          \* the permissions
    Seeded,         \* the pairs of a role and a permission of the seed
    Cities,
    Handlers,       \* requests that can run at the same time
    MaxGrants,      \* bound of the rows of user_roles
    MaxRequests,    \* bound of the requests
    MaxFaults,      \* bound of the failures
    None

ASSUME RbacAssumption ==
    /\ SystemRoles \subseteq Roles /\ SuperAdmin \in SystemRoles
    /\ Scope \in [Roles -> {"global", "city"}] /\ Scope[SuperAdmin] = "global"
    /\ Seeded \subseteq SystemRoles \X Slugs
    /\ \A n \in {MaxGrants, MaxRequests, MaxFaults} : n \in Nat

VARIABLES
    role,           \* the table of roles
    rolePermission, \* the pairs of a role and a permission
    grant,          \* the table user_roles
    cache,          \* rbac:perms:{userId}
    audit,          \* the last decision written for each user
    work,           \* the local state of each request
    requests, faults,
    excused,        \* users whose entry was changed under the cache, see below
    overlapped      \* grants two requests found missing at once

vars == <<role, rolePermission, grant, cache, audit, work, requests, faults, excused, overlapped>>

RoleState == {"absent", "active", "inactive"}
Grants == 1..MaxGrants
UserRole == [user : Users, role : Roles, city : Cities \cup {None}, isActive : BOOLEAN,
             expired : BOOLEAN, bootstrap : BOOLEAN]

\* null is no row of the table.
ASSUME NoneIsNoRow == None \notin UserRole

EffectivePermissions == [slugs : SUBSET Slugs, cities : SUBSET Cities,
                         hasGlobalRole : BOOLEAN, roles : SUBSET Roles]
NoPermissions == [slugs |-> {}, cities |-> {}, hasGlobalRole |-> FALSE, roles |-> {}]

\* The foreign key removes the pairs of a role with it.
RolePermission == {r \in Roles : role[r] # "absent"} \X Slugs

AuditLog == {"none", "allowed", "denied"}

Readers == {"permission", "cityScope", "read"}
Local == [pc : {"idle", "get", "load", "fill", "use", "role", "existing", "insert", "revoke",
                "pair", "users", "invalidate"},
          op : Readers \cup {"assign", "bootstrap", "admin", "revoke", "add", "remove", "none"},
          user : Users \cup {None}, perms : EffectivePermissions,
          slug : Slugs \cup {None}, city : Cities \cup {None}, role : Roles \cup {None},
          grant : Grants \cup {None}, decided : AuditLog, todo : SUBSET Users, moved : BOOLEAN]
Idle == [pc |-> "idle", op |-> "none", user |-> None, perms |-> NoPermissions, slug |-> None,
         city |-> None, role |-> None, grant |-> None, decided |-> "none", todo |-> {}, moved |-> FALSE]

-----------------------------------------------------------------------------
(* What the tables say.                                                     *)

Held(u) == {g \in Grants : grant[g] # None /\ grant[g].user = u /\ grant[g].isActive}

loadFromDb(u) ==
    LET live == {g \in Held(u) : ~grant[g].expired /\ role[grant[g].role] = "active"}
        mine == {grant[g].role : g \in live}
    IN  [slugs |-> {s \in Slugs : \E r \in mine : <<r, s>> \in rolePermission},
         cities |-> {grant[g].city : g \in {i \in live : Scope[grant[i].role] = "city"}} \ {None},
         hasGlobalRole |-> \E r \in mine : Scope[r] = "global",
         roles |-> mine]

hasPermission(perms, slug, city) ==
    /\ slug \in perms.slugs
    /\ perms.hasGlobalRole \/ city = None \/ city \in perms.cities

CityScopeAllows(perms, city) == perms.hasGlobalRole \/ city \in perms.cities

UsersOf(r) == {grant[g].user : g \in {i \in Grants : grant[i] # None /\ grant[i].role = r /\ grant[i].isActive}}

-----------------------------------------------------------------------------

At(h, pc) == work[h].pc = pc
Goto(h, pc) == work' = [work EXCEPT ![h].pc = pc]
End(h) == work' = [work EXCEPT ![h] = Idle]

Tables == <<role, rolePermission, grant>>

Receive(h, w) ==
    /\ At(h, "idle") /\ requests < MaxRequests
    /\ requests' = requests + 1
    /\ work' = [work EXCEPT ![h] = w]
    /\ UNCHANGED <<Tables, cache, audit, faults, excused, overlapped>>

\* A command through the wrapper of Redis, lost in silence or not.
Write(lost) ==
    /\ lost => faults < MaxFaults
    /\ faults' = IF lost THEN faults + 1 ELSE faults

\* h is about to invalidate the entry of u.
Pending(h, u) == \/ At(h, "invalidate") /\ u \in work[h].todo
                 \/ At(h, "users") /\ u \in UsersOf(work[h].role)

\* h writes a change of the tables, and goes on with w: those who read the
\* permissions of one of the users before it hold old ones.
Change(h, touched, w) ==
    work' = [g \in Handlers |->
               IF g = h THEN w
               ELSE IF work[g].op \in Readers /\ work[g].user \in touched
                    THEN [work[g] EXCEPT !.moved = TRUE] ELSE work[g]]

-----------------------------------------------------------------------------
(* getEffectivePermissions: the cache, else the tables and then the cache.  *)
(* PermissionGuard asks it twice, to decide and to name the roles it logs.  *)

request(h, u) ==
    \E op \in Readers, s \in Slugs, c \in Cities \cup {None} :
        Receive(h, [Idle EXCEPT !.pc = "get", !.op = op, !.user = u, !.slug = s, !.city = c])

getEffectivePermissions(h) ==
    LET u == work[h].user IN
    /\ At(h, "get")
    /\ work' = [work EXCEPT ![h] = IF cache[u] = None THEN [@ EXCEPT !.pc = "load"]
                                   ELSE [@ EXCEPT !.pc = "use", !.perms = cache[u],
                                               !.moved = \E g \in Handlers : Pending(g, u)]]
    /\ UNCHANGED <<Tables, cache, audit, requests, faults, excused, overlapped>>

load(h) ==
    /\ At(h, "load")
    /\ work' = [work EXCEPT ![h].pc = "fill", ![h].perms = loadFromDb(work[h].user), ![h].moved = FALSE]
    /\ UNCHANGED <<Tables, cache, audit, requests, faults, excused, overlapped>>

fill(h) ==
    \E lost \in BOOLEAN :
        /\ At(h, "fill")
        /\ Write(lost)
        /\ cache' = IF lost THEN cache ELSE [cache EXCEPT ![work[h].user] = work[h].perms]
        /\ Goto(h, "use")
        /\ UNCHANGED <<Tables, audit, requests, excused, overlapped>>

canActivate(h) ==
    LET w == work[h]
        allowed == IF w.op = "permission" THEN hasPermission(w.perms, w.slug, w.city)
                   ELSE CityScopeAllows(w.perms, w.city)
    IN  /\ At(h, "use")
        /\ IF w.op = "permission" /\ w.decided = "none"
           THEN /\ work' = [work EXCEPT ![h].pc = "get",
                                        ![h].decided = IF allowed THEN "allowed" ELSE "denied"]
                /\ UNCHANGED audit
           ELSE /\ audit' = IF w.op = "permission" THEN [audit EXCEPT ![w.user] = w.decided] ELSE audit
                /\ End(h)
        /\ UNCHANGED <<Tables, cache, requests, faults, excused, overlapped>>

-----------------------------------------------------------------------------
(* The grants.                                                              *)

\* A date of expiry passes in GrantExpires, whatever it is.
AssignRoleDto == [roleId : Roles, cityId : Cities \cup {None}]

assign(h, u) ==
    \E dto \in AssignRoleDto :
        Receive(h, [Idle EXCEPT !.pc = "role", !.op = "assign", !.user = u,
                                !.role = dto.roleId, !.city = dto.cityId])

\* The first super_admin, by the secret of the deployment.
bootstrapSuperAdmin(h, u) ==
    /\ \A g \in Grants : grant[g] # None /\ grant[g].isActive => grant[g].role # SuperAdmin
    /\ At(h, "idle") /\ requests < MaxRequests
    /\ requests' = requests + 1
    /\ work' = [work EXCEPT ![h] = [Idle EXCEPT !.pc = "role", !.op = "bootstrap",
                                                !.user = u, !.role = SuperAdmin]]
    /\ overlapped' = IF \E g \in Handlers : work[g].op = "bootstrap"
                     THEN overlapped \cup {<<v, SuperAdmin>> : v \in Users} ELSE overlapped
    /\ UNCHANGED <<Tables, cache, audit, faults, excused>>

\* The role exists and is active, and the city fits its scope.
assignRole(h) ==
    LET w == work[h] IN
    /\ At(h, "role")
    /\ IF role[w.role] = "active" /\ (Scope[w.role] = "city" <=> w.city # None)
       THEN Goto(h, "existing") ELSE End(h)
    /\ UNCHANGED <<Tables, cache, audit, requests, faults, excused, overlapped>>

\* Mutant: the grants of the user are not looked up.
findNoExisting(h) ==
    /\ At(h, "existing")
    /\ Goto(h, "insert")
    /\ UNCHANGED <<Tables, cache, audit, requests, faults, excused, overlapped>>

\* An active grant is returned as it is, expired or not; AdminService looks
\* for any row of the user and the role, revoked or not.
Existing(w) ==
    IF w.op = "admin"
    THEN \E g \in Grants : grant[g] # None /\ grant[g].user = w.user /\ grant[g].role = w.role
    ELSE \E g \in Held(w.user) : grant[g].role = w.role /\ (w.city = None \/ grant[g].city = w.city)

findExisting(h) ==
    LET w == work[h] IN
    /\ At(h, "existing")
    /\ IF Existing(w)
       THEN End(h) /\ UNCHANGED overlapped
       ELSE /\ Goto(h, "insert")
            /\ overlapped' = IF \E g \in Handlers : At(g, "insert") /\ work[g].user = w.user /\ work[g].role = w.role
                             THEN overlapped \cup {<<w.user, w.role>>} ELSE overlapped
    /\ UNCHANGED <<Tables, cache, audit, requests, faults, excused>>

\* The next free row gets the new grant.
Insert(u, r, c, bootstrap) ==
    \E g \in Grants :
        /\ grant[g] = None /\ \A i \in Grants : i < g => grant[i] # None
        /\ grant' = [grant EXCEPT ![g] = [user |-> u, role |-> r, city |-> c, isActive |-> TRUE,
                                          expired |-> FALSE, bootstrap |-> bootstrap]]

\* The foreign key refuses a role that is not there.  AdminService leaves the
\* cache as it is.
insertGrant(h) ==
    LET w == work[h] IN
    /\ At(h, "insert")
    /\ IF role[w.role] = "absent"
       THEN End(h) /\ UNCHANGED <<grant, excused>>
       ELSE /\ Insert(w.user, w.role, w.city, w.op = "bootstrap")
            /\ IF w.op = "admin"
               THEN Change(h, {w.user}, Idle) /\ excused' = excused \cup {w.user}
               ELSE /\ Change(h, {w.user}, [w EXCEPT !.pc = "invalidate", !.todo = {w.user}])
                    /\ UNCHANGED excused
    /\ UNCHANGED <<role, rolePermission, cache, audit, requests, faults, overlapped>>

\* AdminService.assignRole: the role and its scope are not checked.
adminAssignRole(h, u) ==
    \E dto \in AssignRoleDto :
        Receive(h, [Idle EXCEPT !.pc = "existing", !.op = "admin", !.user = u,
                                !.role = dto.roleId, !.city = dto.cityId])

revoke(h, g) ==
    /\ grant[g] # None
    /\ Receive(h, [Idle EXCEPT !.pc = "revoke", !.op = "revoke", !.grant = g, !.user = grant[g].user])

revokeRole(h) ==
    LET w == work[h] IN
    /\ At(h, "revoke")
    /\ grant' = [grant EXCEPT ![w.grant].isActive = FALSE]
    /\ Change(h, {w.user}, [w EXCEPT !.pc = "invalidate", !.todo = {w.user}])
    /\ UNCHANGED <<role, rolePermission, cache, audit, requests, faults, excused, overlapped>>

-----------------------------------------------------------------------------
(* The roles and their permissions.                                         *)

createRole(r) ==
    /\ role[r] = "absent"
    /\ role' = [role EXCEPT ![r] = "active"]
    /\ UNCHANGED <<rolePermission, grant, cache, audit, work, requests, faults, excused, overlapped>>

\* The cache of the users of the role is not invalidated.
updateRole(h, r) ==
    \E state \in {"active", "inactive"} :
        /\ At(h, "idle") /\ requests < MaxRequests
        /\ role[r] # "absent" /\ r \notin SystemRoles
        /\ role' = [role EXCEPT ![r] = state]
        /\ requests' = requests + 1
        /\ Change(h, UsersOf(r), Idle)
        /\ excused' = excused \cup UsersOf(r)
        /\ UNCHANGED <<rolePermission, grant, cache, audit, faults, overlapped>>

\* The foreign key keeps a role that has a row of user_roles, revoked or not.
deleteRole(r) ==
    /\ role[r] # "absent" /\ r \notin SystemRoles
    /\ \A g \in Grants : grant[g] # None => grant[g].role # r
    /\ role' = [role EXCEPT ![r] = "absent"]
    /\ rolePermission' = {p \in rolePermission : p[1] # r}
    /\ UNCHANGED <<grant, cache, audit, work, requests, faults, excused, overlapped>>

changePermissions(h) ==
    \E r \in Roles, s \in Slugs, op \in {"add", "remove"} :
        /\ role[r] # "absent"
        /\ op = "remove" => <<r, s>> \in rolePermission
        /\ Receive(h, [Idle EXCEPT !.pc = "pair", !.op = op, !.role = r, !.slug = s])

\* Mutant: the permissions of a deleted role can be written.
changePairAnyway(h) ==
    LET w == work[h] IN
    /\ At(h, "pair")
    /\ rolePermission' = IF w.op = "add" THEN rolePermission \cup {<<w.role, w.slug>>}
                         ELSE rolePermission \ {<<w.role, w.slug>>}
    /\ Change(h, UsersOf(w.role), [w EXCEPT !.pc = "users"])
    /\ UNCHANGED <<role, grant, cache, audit, requests, faults, excused, overlapped>>

changePair(h) ==
    LET w == work[h] IN
    /\ At(h, "pair")
    /\ IF role[w.role] = "absent"
       THEN End(h) /\ UNCHANGED rolePermission
       ELSE /\ rolePermission' = IF w.op = "add" THEN rolePermission \cup {<<w.role, w.slug>>}
                                 ELSE rolePermission \ {<<w.role, w.slug>>}
            /\ Change(h, UsersOf(w.role), [w EXCEPT !.pc = "users"])
    /\ UNCHANGED <<role, grant, cache, audit, requests, faults, excused, overlapped>>

\* Mutant: only the users with a global role are looked up.
invalidateCacheForFew(h) ==
    /\ At(h, "users")
    /\ work' = [work EXCEPT ![h].pc = "invalidate",
                            ![h].todo = {u \in UsersOf(work[h].role) : loadFromDb(u).hasGlobalRole}]
    /\ UNCHANGED <<Tables, cache, audit, requests, faults, excused, overlapped>>

invalidateCacheForRole(h) ==
    /\ At(h, "users")
    /\ work' = [work EXCEPT ![h].pc = "invalidate", ![h].todo = UsersOf(work[h].role)]
    /\ UNCHANGED <<Tables, cache, audit, requests, faults, excused, overlapped>>

\* One entry after the other; a request that has read the tables and not yet
\* filled the cache will put back what it read.
invalidateCache(h) ==
    \E u \in work[h].todo, lost \in BOOLEAN :
        /\ At(h, "invalidate")
        /\ Write(lost)
        /\ cache' = IF lost THEN cache ELSE [cache EXCEPT ![u] = None]
        /\ excused' = IF lost \/ \E g \in Handlers : At(g, "fill") /\ work[g].user = u /\ work[g].moved
                      THEN excused \cup {u} ELSE excused
        /\ work' = [work EXCEPT ![h].todo = @ \ {u}]
        /\ UNCHANGED <<Tables, audit, requests, overlapped>>

Invalidated(h) ==
    /\ At(h, "invalidate") /\ work[h].todo = {}
    /\ End(h)
    /\ UNCHANGED <<Tables, cache, audit, requests, faults, excused, overlapped>>

-----------------------------------------------------------------------------

CacheExpires(u) ==
    /\ cache[u] # None
    /\ cache' = [cache EXCEPT ![u] = None]
    /\ UNCHANGED <<Tables, audit, work, requests, faults, excused, overlapped>>

\* A date passes: nobody writes, and the cache keeps the role.
GrantExpires(g) ==
    /\ grant[g] # None /\ ~grant[g].expired /\ ~grant[g].bootstrap
    /\ grant' = [grant EXCEPT ![g].expired = TRUE]
    /\ excused' = excused \cup {grant[g].user}
    /\ UNCHANGED <<role, rolePermission, cache, audit, work, requests, faults, overlapped>>

\* A crash, or a failing query, ends a request where it is.
Fail(h) ==
    LET w == work[h] IN
    /\ ~At(h, "idle") /\ faults < MaxFaults
    /\ faults' = faults + 1
    /\ excused' = CASE At(h, "invalidate") -> excused \cup w.todo
                    [] At(h, "users") -> excused \cup UsersOf(w.role)
                    [] OTHER -> excused
    /\ End(h)
    /\ UNCHANGED <<Tables, cache, audit, requests, overlapped>>

-----------------------------------------------------------------------------

\* The seed; nobody holds a role.
Init ==
    /\ role = [r \in Roles |-> IF r \in SystemRoles THEN "active" ELSE "absent"]
    /\ rolePermission = Seeded
    /\ grant = [g \in Grants |-> None]
    /\ cache = [u \in Users |-> None]
    /\ audit = [u \in Users |-> "none"]
    /\ work = [h \in Handlers |-> Idle]
    /\ requests = 0 /\ faults = 0
    /\ excused = {} /\ overlapped = {}

Next ==
    \/ \E h \in Handlers :
           \/ \E u \in Users : \/ request(h, u) \/ assign(h, u)
                               \/ bootstrapSuperAdmin(h, u) \/ adminAssignRole(h, u)
           \/ \E g \in Grants : revoke(h, g)
           \/ \E r \in Roles : updateRole(h, r)
           \/ getEffectivePermissions(h) \/ load(h) \/ fill(h) \/ canActivate(h)
           \/ assignRole(h) \/ findExisting(h) \/ insertGrant(h) \/ revokeRole(h)
           \/ changePermissions(h) \/ changePair(h)
           \/ invalidateCacheForRole(h) \/ invalidateCache(h) \/ Invalidated(h)
           \/ Fail(h)
    \/ \E r \in Roles : createRole(r) \/ deleteRole(r)
    \/ \E u \in Users : CacheExpires(u)
    \/ \E g \in Grants : GrantExpires(g)

Spec == Init /\ [][Next]_vars

-----------------------------------------------------------------------------

\* The variables have their types.
TypeOK ==
    /\ role \in [Roles -> RoleState]
    /\ rolePermission \subseteq RolePermission
    /\ grant \in [Grants -> UserRole \cup {None}]
    /\ cache \in [Users -> EffectivePermissions \cup {None}]
    /\ audit \in [Users -> AuditLog]
    /\ work \in [Handlers -> Local]

\* "The key is invalidated when a role or a permission changes": a cached entry,
\* and what a guard is about to decide with, is what the tables say, unless
\* its invalidation is on its way, or it was changed by one of those who do not
\* invalidate (an update of the role, AdminService.assignRole, a date that
\* passes), the invalidation was lost, or met a request between its read of
\* the tables and its write of the cache.
CacheAgrees ==
    \A u \in Users \ excused :
        (\A h \in Handlers : ~Pending(h, u)) =>
            /\ cache[u] \in {None, loadFromDb(u)}
            /\ \A h \in Handlers :
                   At(h, "use") /\ work[h].user = u /\ ~work[h].moved => work[h].perms = loadFromDb(u)

\* A user holds a role in a city by one active row, and one bootstrap is
\* enough, unless two requests looked for the row before either wrote it:
\* there is no unique index.
GrantedOnce ==
    \A g, i \in Grants :
        /\ g # i /\ grant[g] # None /\ grant[i] # None
        /\ grant[g].isActive /\ grant[i].isActive
        /\ \/ <<grant[g].user, grant[g].role, grant[g].city>> = <<grant[i].user, grant[i].role, grant[i].city>>
           \/ grant[g].bootstrap /\ grant[i].bootstrap
        => <<grant[g].user, grant[g].role>> \in overlapped

\* "La clé Redis est invalidée lors d'un changement de rôle/permission": whoever
\* changes what a user may do leaves no older entry of the cache behind, or is
\* about to delete it.
InvalidatedOnChange ==
    [][<<role, rolePermission>>' # <<role, rolePermission>> \/ work' # work =>
        \A u \in Users : loadFromDb(u)' # loadFromDb(u) =>
            cache'[u] \in {None, loadFromDb(u)'} \/ \E h \in Handlers : Pending(h, u)']_vars
=============================================================================
