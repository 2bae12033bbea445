----------------------------- MODULE RbacProof -----------------------------
(***************************************************************************)
(* Proofs about Rbac for every set of users, roles, permissions, cities    *)
(* and requests, and any number of grants, requests and failures: typing,  *)
(* the agreement of the cache with the tables, and the one active grant.   *)
(***************************************************************************)
EXTENDS Rbac, TLAPS

\* A request on its way to the insertion of a grant.
Asking == {"role", "existing", "insert"}

\* What a request knows by the place it is at.
Knows(w) ==
    /\ w.pc \in {"get", "load", "fill", "use"} => w.op \in Readers /\ w.user \in Users
    /\ w.pc \in Asking => w.user \in Users /\ w.role \in Roles
    /\ w.op = "bootstrap" => w.role = SuperAdmin
    /\ w.pc = "revoke" => /\ w.grant \in Grants /\ grant[w.grant] # None
                          /\ w.user \in Users /\ w.user = grant[w.grant].user
    /\ w.pc \in {"pair", "users"} => w.role \in Roles
    /\ w.pc = "pair" => w.slug \in Slugs

KnowsOK == \A h \in Handlers : Knows(work[h])

\* The foreign keys: a role that is granted is there; and the bootstrap grants but one.
RowsOK ==
    \A g \in Grants : grant[g] # None =>
        /\ role[grant[g].role] # "absent"
        /\ grant[g].bootstrap => grant[g].role = SuperAdmin

\* A grant that is about to be inserted is not there yet, and is asked for once.
Asks(w, u, r) == w.pc = "insert" /\ w.user = u /\ w.role = r
ActiveGrant(g, u, r, c) ==
    grant[g] # None /\ grant[g].isActive /\ grant[g].user = u /\ grant[g].role = r /\ grant[g].city = c
Missing(w) ==
    w.pc = "insert" =>
        \/ <<w.user, w.role>> \in overlapped
        \/ /\ \A g, h \in Handlers :
                 Asks(work[g], w.user, w.role) /\ Asks(work[h], w.user, w.role) => g = h
           /\ \A g \in Grants : ~ActiveGrant(g, w.user, w.role, w.city)

MissingOK == \A h \in Handlers : Missing(work[h])

\* A bootstrap runs alone and finds no active one.
AllOverlap == \A u \in Users : <<u, SuperAdmin>> \in overlapped
Alone(h) ==
    work[h].op = "bootstrap" =>
        \/ AllOverlap
        \/ /\ \A g \in Handlers : work[g].op = "bootstrap" => g = h
           /\ work[h].pc \in Asking =>
                 \A g \in Grants : ~(grant[g] # None /\ grant[g].isActive /\ grant[g].bootstrap)

AloneOK == \A h \in Handlers : Alone(h)

\* w is about to invalidate the entry of u.
Invalidates(w, u) ==
    (w.pc = "invalidate" /\ u \in w.todo) \/ (w.pc = "users" /\ u \in UsersOf(w.role))
Awaited(u) == \E g \in Handlers : Invalidates(work[g], u)

\* What a request has read is what the tables say, unless they changed since; then, as
\* long as it may still fill the cache, an invalidation will find it.
Reads(w, u) == w.user = u /\ w.pc \in {"fill", "use"}
Fresh(w, u) ==
    /\ ~w.moved => w.perms = loadFromDb(u)
    /\ w.pc = "fill" /\ w.moved => Awaited(u)

CacheOK(u) ==
    /\ Awaited(u) \/ cache[u] \in {None, loadFromDb(u)}
    /\ \A h \in Handlers : Reads(work[h], u) => Fresh(work[h], u)

CachesOK == \A u \in Users \ excused : CacheOK(u)

IInv == TypeOK /\ KnowsOK /\ RowsOK /\ MissingOK /\ AloneOK /\ CachesOK /\ GrantedOnce

-----------------------------------------------------------------------------
(* What is typed *)

\* A request at rest.
LEMMA IdleLocal == /\ Idle \in Local /\ Idle.pc = "idle" /\ Idle.op = "none" /\ Knows(Idle)
                   /\ \A u : ~Invalidates(Idle, u) /\ ~Reads(Idle, u)
  <1>1. NoPermissions \in EffectivePermissions
    BY DEF NoPermissions, EffectivePermissions
  <1>2. Idle \in Local
    BY <1>1 DEF Idle, Local, AuditLog
  <1> QED
    BY <1>2 DEF Idle, Knows, Invalidates, Reads, Asking

\* What the tables say of a user.
LEMMA LoadTyped == ASSUME TypeOK, NEW u \in Users PROVE loadFromDb(u) \in EffectivePermissions
  <1> DEFINE live == {g \in Held(u) : ~grant[g].expired /\ role[grant[g].role] = "active"}
             mine == {grant[g].role : g \in live}
             cities == {grant[g].city : g \in {i \in live : Scope[grant[i].role] = "city"}} \ {None}
  <1>1. \A g \in live : g \in Grants /\ grant[g] \in UserRole
    BY DEF Held, TypeOK
  <1>2. mine \subseteq Roles
    BY <1>1 DEF UserRole
  <1>3. cities \subseteq Cities
    BY <1>1 DEF UserRole
  <1> HIDE DEF live
  <1>4. loadFromDb(u) = [slugs |-> {s \in Slugs : \E r \in mine : <<r, s>> \in rolePermission},
                         cities |-> cities,
                         hasGlobalRole |-> \E r \in mine : Scope[r] = "global", roles |-> mine]
    BY DEF loadFromDb, live
  <1> HIDE DEF mine, cities
  <1> QED
    BY <1>2, <1>3, <1>4 DEF EffectivePermissions

\* The users of a role.
LEMMA UsersOfTyped == ASSUME TypeOK, NEW r PROVE UsersOf(r) \subseteq Users
  BY DEF UsersOf, TypeOK, UserRole

\* The users of a role only depend on the active grants.
LEMMA InUsersOf ==
  ASSUME NEW u, NEW r
  PROVE  u \in UsersOf(r) <=>
            \E g \in Grants : grant[g] # None /\ grant[g].role = r /\ grant[g].isActive /\ grant[g].user = u
  BY DEF UsersOf

\* A user whose grants, and the roles of whose active grants with their permissions,
\* are as before has the permissions of before.
LEMMA LoadSame ==
  ASSUME NEW u,
         \A g \in Grants :
            (grant'[g] # None /\ grant'[g].user = u /\ grant'[g].isActive)
                <=> (grant[g] # None /\ grant[g].user = u /\ grant[g].isActive),
         \A g \in Held(u) :
            /\ grant'[g].expired = grant[g].expired /\ grant'[g].role = grant[g].role
            /\ grant'[g].city = grant[g].city
            /\ role'[grant[g].role] = "active" <=> role[grant[g].role] = "active"
            /\ \A s \in Slugs : <<grant[g].role, s>> \in rolePermission' <=> <<grant[g].role, s>> \in rolePermission
  PROVE  loadFromDb(u)' = loadFromDb(u)
  <1> DEFINE live == {g \in Held(u) : ~grant[g].expired /\ role[grant[g].role] = "active"}
             mine == {grant[g].role : g \in live}
  <1>1. Held(u)' = Held(u)
    BY DEF Held
  <1>2. live' = live /\ \A g \in live : g \in Held(u)
    BY <1>1
  <1> HIDE DEF live
  <1>3. mine' = mine
    BY <1>2
  <1>4. \A r \in mine, s \in Slugs : <<r, s>> \in rolePermission' <=> <<r, s>> \in rolePermission
    BY <1>2
  <1>5. {grant'[g].city : g \in {i \in live' : Scope[grant'[i].role] = "city"}}
          = {grant[g].city : g \in {i \in live : Scope[grant[i].role] = "city"}}
    <2>1. {i \in live' : Scope[grant'[i].role] = "city"} = {i \in live : Scope[grant[i].role] = "city"}
      BY <1>2
    <2> QED
      BY <1>2, <2>1
  <1> HIDE DEF mine
  <1>6. {s \in Slugs : \E r \in mine' : <<r, s>> \in rolePermission'}
          = {s \in Slugs : \E r \in mine : <<r, s>> \in rolePermission}
    BY <1>3, <1>4
  <1> QED
    BY <1>3, <1>5, <1>6 DEF loadFromDb, live, mine

-----------------------------------------------------------------------------
(* Steps of one request h, whose local state becomes w *)

\* A request after a change that touches what it may have read.
Same(x, w) ==
    /\ x.pc = w.pc /\ x.op = w.op /\ x.user = w.user /\ x.perms = w.perms /\ x.slug = w.slug
    /\ x.city = w.city /\ x.role = w.role /\ x.grant = w.grant /\ x.todo = w.todo
    /\ w.moved => x.moved

Steps(h, w) == work'[h] = w /\ \A g \in Handlers : g # h => Same(work'[g], work[g])

\* A step that leaves the other requests as they are.
LEMMA AloneSteps ==
  ASSUME TypeOK, NEW h \in Handlers, NEW w \in Local, work' = [work EXCEPT ![h] = w]
  PROVE  /\ work' \in [Handlers -> Local] /\ Steps(h, w)
         /\ \A g \in Handlers : g # h => work'[g] = work[g]
  BY DEF TypeOK, Steps, Same

\* A step that changes the tables for some users.
LEMMA ChangeSteps ==
  ASSUME TypeOK, KnowsOK, NEW h \in Handlers, NEW w \in Local, NEW touched, Change(h, touched, w)
  PROVE  /\ work' \in [Handlers -> Local] /\ Steps(h, w)
         /\ \A g \in Handlers : g # h /\ work[g].user \notin touched => work'[g] = work[g]
         /\ \A g \in Handlers, u \in touched : g # h /\ Reads(work[g], u) => work'[g].moved
  <1>1. ASSUME NEW x \in Local
        PROVE  [x EXCEPT !.moved = TRUE] \in Local /\ Same([x EXCEPT !.moved = TRUE], x)
               /\ [x EXCEPT !.moved = TRUE].moved
    <2> PICK y : y = [x EXCEPT !.moved = TRUE]
      OBVIOUS
    <2>1. y \in Local /\ y.moved
      BY DEF Local
    <2>2. /\ y.pc = x.pc /\ y.op = x.op /\ y.user = x.user /\ y.perms = x.perms /\ y.slug = x.slug
          /\ y.city = x.city /\ y.role = x.role /\ y.grant = x.grant /\ y.todo = x.todo
      BY DEF Local
    <2>3. Same(y, x)
      BY <2>1, <2>2 DEF Same
    <2> QED
      BY <2>1, <2>3
  <1>2. ASSUME NEW g \in Handlers
        PROVE  /\ work'[g] \in Local /\ (g = h => work'[g] = w)
               /\ g # h => Same(work'[g], work[g])
               /\ g # h /\ work[g].user \notin touched => work'[g] = work[g]
               /\ g # h /\ work[g].user \in touched /\ work[g].op \in Readers => work'[g].moved
    <2>1. work[g] \in Local /\ Same(work[g], work[g])
      BY DEF TypeOK, Same
    <2>2. work'[g] = IF g = h THEN w
                     ELSE IF work[g].op \in Readers /\ work[g].user \in touched
                          THEN [work[g] EXCEPT !.moved = TRUE] ELSE work[g]
      BY DEF Change
    <2> QED
      BY <1>1, <2>1, <2>2
  <1>3. work' \in [Handlers -> Local]
    BY <1>2 DEF Change
  <1>4. \A g \in Handlers : \A u : Reads(work[g], u) => work[g].op \in Readers /\ work[g].user = u
    BY DEF KnowsOK, Knows, Reads
  <1> QED
    BY <1>2, <1>3, <1>4 DEF Steps

\* Rows are never deleted, and keep their user.
LEMMA KnowsFrame ==
  ASSUME KnowsOK, NEW h \in Handlers, NEW w, Steps(h, w), Knows(w)',
         \A g \in Grants : grant[g] # None => grant'[g] # None /\ grant'[g].user = grant[g].user
  PROVE  KnowsOK'
  <1> SUFFICES ASSUME NEW g \in Handlers PROVE Knows(work[g])'
    BY DEF KnowsOK
  <1>1. CASE g = h
    BY <1>1 DEF Steps, Knows
  <1>2. CASE g # h
    <2>1. Knows(work[g]) /\ Same(work'[g], work[g])
      BY <1>2 DEF KnowsOK, Steps
    <2> QED
      BY <2>1 DEF Same, Knows
  <1> QED
    BY <1>1, <1>2

\* No grant becomes active that was not.
NoNewGrant ==
    \A g \in Grants : grant'[g] # None /\ grant'[g].isActive =>
        /\ grant[g] # None /\ grant[g].isActive /\ grant'[g].user = grant[g].user
        /\ grant'[g].role = grant[g].role /\ grant'[g].city = grant[g].city
        /\ grant'[g].bootstrap = grant[g].bootstrap

\* w does not become a request of its own for a grant.
Continues(w, v) ==
    /\ w.pc # "insert"
    /\ w.op = "bootstrap" => v.op = "bootstrap" /\ (w.pc \in Asking => v.pc \in Asking)

\* A request that does not come to an insertion.
LEMMA MissingFrame ==
  ASSUME MissingOK, NEW h \in Handlers, NEW w, Steps(h, w), w.pc # "insert", NoNewGrant,
         \A p \in overlapped : p \in overlapped'
  PROVE  MissingOK'
  <1> SUFFICES ASSUME NEW g \in Handlers PROVE Missing(work[g])'
    BY DEF MissingOK
  <1>1. CASE g = h
    BY <1>1 DEF Steps, Missing
  <1>2. CASE g # h
    <2>1. Missing(work[g]) /\ Same(work'[g], work[g])
      BY <1>2 DEF MissingOK, Steps
    <2>2. \A f \in Handlers : \A u, r : Asks(work'[f], u, r) => Asks(work[f], u, r)
      BY DEF Steps, Same, Asks
    <2>3. \A i \in Grants : \A u, r, c : ActiveGrant(i, u, r, c)' => ActiveGrant(i, u, r, c)
      BY DEF ActiveGrant, NoNewGrant
    <2> QED
      BY <2>1, <2>2, <2>3 DEF Same, Missing, Asks
  <1> QED
    BY <1>1, <1>2

\* Nobody new bootstraps, and no bootstrap becomes active.
LEMMA AloneFrame ==
  ASSUME AloneOK, NEW h \in Handlers, NEW w, Steps(h, w),
         \A p \in overlapped : p \in overlapped',
         w.op = "bootstrap" =>
            work[h].op = "bootstrap" /\ (w.pc \in Asking => work[h].pc \in Asking),
         \A i \in Grants : grant'[i] # None /\ grant'[i].isActive /\ grant'[i].bootstrap
                            => grant[i] # None /\ grant[i].isActive /\ grant[i].bootstrap
  PROVE  AloneOK'
  <1> SUFFICES ASSUME NEW g \in Handlers PROVE Alone(g)'
    BY DEF AloneOK
  <1>1. \A f \in Handlers : work'[f].op = "bootstrap" =>
           work[f].op = "bootstrap" /\ (work'[f].pc \in Asking => work[f].pc \in Asking)
    BY DEF Steps, Same
  <1>2. AllOverlap => AllOverlap'
    BY DEF AllOverlap
  <1>3. Alone(g)
    BY DEF AloneOK
  <1>4. ASSUME work'[g].op = "bootstrap", ~AllOverlap
        PROVE  /\ \A f \in Handlers : work'[f].op = "bootstrap" => f = g
               /\ work'[g].pc \in Asking => \A i \in Grants :
                     ~(grant'[i] # None /\ grant'[i].isActive /\ grant'[i].bootstrap)
    <2>1. work[g].op = "bootstrap" /\ (work'[g].pc \in Asking => work[g].pc \in Asking)
      BY <1>1, <1>4
    <2>2. /\ \A f \in Handlers : work[f].op = "bootstrap" => f = g
          /\ work[g].pc \in Asking => \A i \in Grants :
                ~(grant[i] # None /\ grant[i].isActive /\ grant[i].bootstrap)
      BY <1>3, <1>4, <2>1 DEF Alone
    <2>3. \A f \in Handlers : work'[f].op = "bootstrap" => f = g
      BY <1>1, <2>2
    <2> QED
      BY <2>1, <2>2, <2>3
  <1> QED
    BY <1>2, <1>4 DEF Alone, AllOverlap

\* What is said of the grants and of those who ask for one.
LEMMA GrantsFrame ==
  ASSUME MissingOK, AloneOK, GrantedOnce, NEW h \in Handlers, NEW w, Steps(h, w),
         \A p \in overlapped : p \in overlapped', Continues(w, work[h]), NoNewGrant
  PROVE  MissingOK' /\ AloneOK' /\ GrantedOnce'
  <1>1. MissingOK'
    BY MissingFrame DEF Continues
  <1>2. AloneOK'
    <2>1. \A i \in Grants : grant'[i] # None /\ grant'[i].isActive /\ grant'[i].bootstrap
                            => grant[i] # None /\ grant[i].isActive /\ grant[i].bootstrap
      BY DEF NoNewGrant
    <2> QED
      BY <2>1, AloneFrame DEF Continues
  <1>3. GrantedOnce'
    BY DEF GrantedOnce, NoNewGrant
  <1> QED
    BY <1>1, <1>2, <1>3

\* Who awaits an invalidation goes on to.
LEMMA AwaitedKept ==
  ASSUME NEW h \in Handlers, NEW w, Steps(h, w), NEW u, Awaited(u),
         \A r : u \in UsersOf(r) => u \in UsersOf(r)',
         Invalidates(work[h], u) => Invalidates(w, u)'
  PROVE  Awaited(u)'
  <1>1. PICK g \in Handlers : Invalidates(work[g], u)
    BY DEF Awaited
  <1>2. CASE g = h
    BY <1>1, <1>2 DEF Awaited, Steps, Invalidates
  <1>3. CASE g # h
    <2>1. Same(work'[g], work[g])
      BY <1>3 DEF Steps
    <2>2. Invalidates(work[g], u)'
      BY <1>1, <2>1 DEF Same, Invalidates
    <2> QED
      BY <2>2 DEF Awaited
  <1> QED
    BY <1>2, <1>3

\* A user whose permissions are those of before.
LEMMA Untouched ==
  ASSUME CachesOK, NEW h \in Handlers, NEW w, Steps(h, w), NEW u \in Users, u \notin excused,
         \A g \in Handlers : g # h /\ Reads(work[g], u) => work'[g] = work[g],
         loadFromDb(u)' = loadFromDb(u), Awaited(u) => Awaited(u)',
         Awaited(u)' \/ cache'[u] \in {None, cache[u], loadFromDb(u)},
         Reads(w, u) => Fresh(w, u)'
  PROVE  CacheOK(u)'
  <1>1. CacheOK(u)
    BY DEF CachesOK
  <1>2. Awaited(u)' \/ cache'[u] \in {None, loadFromDb(u)'}
    BY <1>1 DEF CacheOK
  <1>3. ASSUME NEW g \in Handlers, Reads(work'[g], u) PROVE Fresh(work[g], u)'
    <2>1. CASE g = h
      BY <1>3, <2>1 DEF Steps, Fresh
    <2>2. CASE g # h
      <3>1. Reads(work[g], u) /\ work'[g] = work[g]
        BY <1>3, <2>2 DEF Steps, Same, Reads
      <3> QED
        BY <1>1, <3>1 DEF CacheOK, Fresh
    <2> QED
      BY <2>1, <2>2
  <1> QED
    BY <1>2, <1>3 DEF CacheOK, Reads

\* A user whose permissions have changed: h will invalidate the entry, and those who
\* have read the old ones know.
LEMMA Touched ==
  ASSUME NEW h \in Handlers, NEW w, Steps(h, w), NEW u, Invalidates(w, u)', ~Reads(w, u),
         \A g \in Handlers : g # h /\ Reads(work[g], u) => work'[g].moved
  PROVE  CacheOK(u)'
  <1>1. Awaited(u)'
    BY DEF Awaited, Steps, Invalidates
  <1>2. ASSUME NEW g \in Handlers, Reads(work'[g], u) PROVE work'[g].moved
    <2>1. g # h
      BY <1>2 DEF Steps
    <2> QED
      BY <1>2, <2>1 DEF Steps, Same, Reads
  <1> QED
    BY <1>1, <1>2 DEF CacheOK, Fresh, Reads

\* A step that changes no table.
LEMMA Calm ==
  ASSUME IInv, NEW h \in Handlers, NEW w \in Local, work' = [work EXCEPT ![h] = w],
         UNCHANGED <<role, rolePermission, grant, overlapped>>,
         cache' \in [Users -> EffectivePermissions \cup {None}], audit' \in [Users -> AuditLog],
         Knows(w), Continues(w, work[h]),
         \A u \in Users \ excused' : CacheOK(u)'
  PROVE  IInv'
  <1>1. work' \in [Handlers -> Local] /\ Steps(h, w)
    BY AloneSteps DEF IInv
  <1>2. TypeOK'
    BY <1>1 DEF IInv, TypeOK, RolePermission
  <1>3. Knows(w)'
    BY DEF Knows
  <1>4. KnowsOK'
    BY <1>1, <1>3, KnowsFrame DEF IInv
  <1>5. RowsOK'
    BY DEF IInv, RowsOK
  <1>6. NoNewGrant
    BY DEF NoNewGrant
  <1>7. MissingOK' /\ AloneOK' /\ GrantedOnce'
    BY <1>1, <1>6, GrantsFrame DEF IInv
  <1>8. CachesOK'
    BY DEF CachesOK
  <1> QED
    BY <1>2, <1>4, <1>5, <1>7, <1>8 DEF IInv

\* The tables as they are say what they say.
LEMMA SameTables ==
  ASSUME UNCHANGED <<role, rolePermission, grant>>
  PROVE  /\ \A u : loadFromDb(u)' = loadFromDb(u)
         /\ \A r : UsersOf(r)' = UsersOf(r)
         /\ \A w, u : Invalidates(w, u)' <=> Invalidates(w, u)
  BY DEF loadFromDb, Held, UsersOf, Invalidates

\* A step that changes no table and invalidates nothing.
LEMMA CalmCache ==
  ASSUME IInv, NEW h \in Handlers, NEW w \in Local, work' = [work EXCEPT ![h] = w],
         UNCHANGED <<role, rolePermission, grant>>, NEW u \in Users, u \notin excused,
         Invalidates(work[h], u) => Invalidates(w, u),
         Awaited(u) \/ cache'[u] \in {None, cache[u], loadFromDb(u)},
         Reads(w, u) => Fresh(w, u)
  PROVE  CacheOK(u)'
  <1>1. Steps(h, w) /\ \A g \in Handlers : g # h => work'[g] = work[g]
    BY AloneSteps DEF IInv
  <1>2. Awaited(u) => Awaited(u)'
    BY <1>1, SameTables, AwaitedKept
  <1>3. Fresh(w, u) => Fresh(w, u)'
    BY <1>2, SameTables DEF Fresh
  <1>4. loadFromDb(u)' = loadFromDb(u)
    BY SameTables
  <1> QED
    BY <1>1, <1>2, <1>3, <1>4, Untouched DEF IInv

-----------------------------------------------------------------------------
(* The readers of the cache *)

\* A request begins.
LEMMA ReceiveInv ==
  ASSUME IInv, NEW h \in Handlers, NEW w \in Local, Receive(h, w), Knows(w), w.op # "bootstrap",
         w.pc \notin {"insert", "fill", "use"}
  PROVE  IInv'
  <1>1. /\ work[h].pc = "idle" /\ work' = [work EXCEPT ![h] = w]
        /\ UNCHANGED <<role, rolePermission, grant, cache, audit, excused, overlapped>>
    BY DEF Receive, At, Tables
  <1>2. Continues(w, work[h])
    BY DEF Continues
  <1>3. cache' \in [Users -> EffectivePermissions \cup {None}] /\ audit' \in [Users -> AuditLog]
    BY <1>1 DEF IInv, TypeOK
  <1>4. ASSUME NEW u \in Users, u \notin excused PROVE CacheOK(u)'
    <2>1. ~Invalidates(work[h], u) /\ ~Reads(w, u)
      BY <1>1 DEF Invalidates, Reads
    <2> QED
      BY <1>1, <1>4, <2>1, CalmCache
  <1> QED
    BY <1>1, <1>2, <1>3, <1>4, Calm

\* A guard begins: the request it decides about is one of a user.
LEMMA RequestInv ==
  ASSUME IInv, NEW h \in Handlers, NEW u \in Users, request(h, u)
  PROVE  IInv'
  <1> PICK op \in Readers, s \in Slugs, c \in Cities \cup {None} :
        Receive(h, [Idle EXCEPT !.pc = "get", !.op = op, !.user = u, !.slug = s, !.city = c])
    BY DEF request
  <1> PICK w : w = [Idle EXCEPT !.pc = "get", !.op = op, !.user = u, !.slug = s, !.city = c]
    OBVIOUS
  <1>1. w \in Local /\ w.pc = "get" /\ w.op = op /\ w.user = u
    BY IdleLocal DEF Local
  <1>2. Knows(w) /\ w.op # "bootstrap"
    BY <1>1 DEF Knows, Readers, Asking
  <1> QED
    BY <1>1, <1>2, ReceiveInv

\* The cache is read as it is, together with whether its entry is about to go.
LEMMA GetInv == ASSUME IInv, NEW h \in Handlers, getEffectivePermissions(h) PROVE IInv'
  <1>1. /\ work[h] \in Local /\ work[h].pc = "get" /\ Knows(work[h])
        /\ work[h].user \in Users /\ work[h].op \in Readers
        /\ UNCHANGED <<role, rolePermission, grant, cache, audit, excused, overlapped>>
    BY DEF getEffectivePermissions, At, Tables, IInv, TypeOK, KnowsOK, Knows
  <1> PICK v \in Users : v = work[h].user
    BY <1>1
  <1> PICK moved \in BOOLEAN : moved <=> Awaited(v)
    OBVIOUS
  <1>2. (\E g \in Handlers : Pending(g, v)) = moved
    BY DEF Awaited, Invalidates, Pending, At
  <1>3. cache[v] \in EffectivePermissions \cup {None}
    BY DEF IInv, TypeOK
  <1> PICK w : w = IF cache[v] = None THEN [work[h] EXCEPT !.pc = "load"]
                   ELSE [work[h] EXCEPT !.pc = "use", !.perms = cache[v], !.moved = moved]
    OBVIOUS
  <1>4. work' = [work EXCEPT ![h] = w]
    BY <1>2 DEF getEffectivePermissions
  <1>5. /\ w \in Local /\ w.op = work[h].op /\ w.user = v /\ w.pc \in {"load", "use"}
        /\ w.pc = "use" => cache[v] # None /\ w.perms = cache[v] /\ w.moved = moved
    <2>1. CASE cache[v] = None
      <3>1. w = [work[h] EXCEPT !.pc = "load"]
        BY <2>1
      <3> QED
        BY <1>1, <3>1 DEF Local
    <2>2. CASE cache[v] # None
      <3> PICK p \in EffectivePermissions : p = cache[v]
        BY <1>3, <2>2
      <3>1. w = [work[h] EXCEPT !.pc = "use", !.perms = p, !.moved = moved]
        BY <2>2
      <3> QED
        BY <1>1, <2>2, <3>1 DEF Local
    <2> QED
      BY <2>1, <2>2
  <1>6. Knows(w) /\ Continues(w, work[h])
    BY <1>1, <1>5 DEF Knows, Continues, Readers, Asking
  <1>7. cache' \in [Users -> EffectivePermissions \cup {None}] /\ audit' \in [Users -> AuditLog]
    BY <1>1 DEF IInv, TypeOK
  <1>8. ASSUME NEW u \in Users, u \notin excused PROVE CacheOK(u)'
    <2>1. ~Invalidates(work[h], u)
      BY <1>1 DEF Invalidates
    <2>2. Reads(w, u) => Fresh(w, u)
      BY <1>5, <1>8 DEF Reads, Fresh, IInv, CachesOK, CacheOK
    <2> QED
      BY <1>1, <1>4, <1>5, <1>8, <2>1, <2>2, CalmCache
  <1> QED
    BY <1>1, <1>4, <1>5, <1>6, <1>7, <1>8, Calm

\* What is loaded is what the tables say.
LEMMA LoadInv == ASSUME IInv, NEW h \in Handlers, load(h) PROVE IInv'
  <1>1. /\ work[h] \in Local /\ work[h].pc = "load" /\ Knows(work[h])
        /\ work[h].user \in Users /\ work[h].op \in Readers
        /\ UNCHANGED <<role, rolePermission, grant, cache, audit, excused, overlapped>>
    BY DEF load, At, Tables, IInv, TypeOK, KnowsOK, Knows
  <1> PICK v \in Users : v = work[h].user
    BY <1>1
  <1> PICK p \in EffectivePermissions : p = loadFromDb(v)
    BY LoadTyped DEF IInv
  <1> PICK w : w = [work[h] EXCEPT !.pc = "fill", !.perms = p, !.moved = FALSE]
    OBVIOUS
  <1>2. work' = [work EXCEPT ![h] = w]
    BY DEF load
  <1>3. /\ w \in Local /\ w.op = work[h].op /\ w.user = v /\ w.pc = "fill" /\ w.perms = p /\ ~w.moved
    BY <1>1 DEF Local
  <1>4. Knows(w) /\ Continues(w, work[h])
    BY <1>1, <1>3 DEF Knows, Continues, Readers, Asking
  <1>5. cache' \in [Users -> EffectivePermissions \cup {None}] /\ audit' \in [Users -> AuditLog]
    BY <1>1 DEF IInv, TypeOK
  <1>6. ASSUME NEW u \in Users, u \notin excused PROVE CacheOK(u)'
    <2>1. ~Invalidates(work[h], u)
      BY <1>1 DEF Invalidates
    <2>2. Reads(w, u) => Fresh(w, u)
      BY <1>3 DEF Reads, Fresh
    <2> QED
      BY <1>1, <1>2, <1>3, <1>6, <2>1, <2>2, CalmCache
  <1> QED
    BY <1>1, <1>2, <1>3, <1>4, <1>5, <1>6, Calm

\* What is put in the cache is what the tables say, or will be invalidated.
LEMMA FillInv == ASSUME IInv, NEW h \in Handlers, fill(h) PROVE IInv'
  <1>1. /\ work[h] \in Local /\ work[h].pc = "fill" /\ Knows(work[h])
        /\ work[h].user \in Users /\ work[h].op \in Readers
        /\ UNCHANGED <<role, rolePermission, grant, audit, excused, overlapped>>
    BY DEF fill, At, Tables, IInv, TypeOK, KnowsOK, Knows
  <1> PICK v \in Users : v = work[h].user
    BY <1>1
  <1> PICK w : w = [work[h] EXCEPT !.pc = "use"]
    OBVIOUS
  <1>2. /\ work' = [work EXCEPT ![h] = w]
        /\ cache' = cache \/ cache' = [cache EXCEPT ![v] = work[h].perms]
    BY DEF fill, Goto
  <1>3. /\ w \in Local /\ w.op = work[h].op /\ w.user = v /\ w.pc = "use"
        /\ w.perms = work[h].perms /\ w.moved = work[h].moved
        /\ work[h].perms \in EffectivePermissions
    BY <1>1 DEF Local
  <1>4. Knows(w) /\ Continues(w, work[h])
    BY <1>1, <1>3 DEF Knows, Continues, Readers, Asking
  <1>5. /\ cache' \in [Users -> EffectivePermissions \cup {None}]
        /\ \A u \in Users : cache'[u] = cache[u] \/ (u = v /\ cache'[u] = work[h].perms)
    BY <1>2, <1>3 DEF IInv, TypeOK
  <1>6. audit' \in [Users -> AuditLog]
    BY <1>1 DEF IInv, TypeOK
  <1>7. ASSUME NEW u \in Users, u \notin excused PROVE CacheOK(u)'
    <2>1. ~Invalidates(work[h], u)
      BY <1>1 DEF Invalidates
    <2>2. u = v => Fresh(work[h], u)
      BY <1>1, <1>7 DEF IInv, CachesOK, CacheOK, Reads
    <2>3. Reads(w, u) => Fresh(w, u)
      BY <1>3, <2>2 DEF Reads, Fresh
    <2>4. Awaited(u) \/ cache'[u] \in {None, cache[u], loadFromDb(u)}
      BY <1>1, <1>5, <2>2 DEF Fresh
    <2> QED
      BY <1>1, <1>2, <1>3, <1>7, <2>1, <2>3, <2>4, CalmCache
  <1> QED
    BY <1>1, <1>2, <1>3, <1>4, <1>5, <1>6, <1>7, Calm

\* A step that goes on to where it neither reads nor inserts, and forgets nobody it had to
\* invalidate.
LEMMA GoOnInv ==
  ASSUME IInv, NEW h \in Handlers, NEW w \in Local, work' = [work EXCEPT ![h] = w],
         UNCHANGED <<role, rolePermission, grant, cache, overlapped>>, excused \subseteq excused',
         audit' \in [Users -> AuditLog], Knows(w), Continues(w, work[h]),
         w.pc \notin {"fill", "use"},
         \A u \in Users \ excused' : Invalidates(work[h], u) => Invalidates(w, u)
  PROVE  IInv'
  <1>1. cache' \in [Users -> EffectivePermissions \cup {None}]
    BY DEF IInv, TypeOK
  <1>2. ASSUME NEW u \in Users, u \notin excused' PROVE CacheOK(u)'
    <2>1. ~Reads(w, u) /\ u \notin excused
      BY <1>2 DEF Reads
    <2> QED
      BY <1>2, <2>1, CalmCache
  <1> QED
    BY <1>1, <1>2, Calm

\* A step that ends a request with nobody unexcused left to invalidate.
LEMMA EndInv ==
  ASSUME IInv, NEW h \in Handlers, End(h),
         UNCHANGED <<role, rolePermission, grant, cache, overlapped>>, excused \subseteq excused',
         audit' \in [Users -> AuditLog],
         \A u \in Users \ excused' : ~Invalidates(work[h], u)
  PROVE  IInv'
  <1> PICK w : w = Idle
    OBVIOUS
  <1>1. /\ w \in Local /\ work' = [work EXCEPT ![h] = w] /\ Knows(w) /\ Continues(w, work[h])
        /\ w.pc \notin {"fill", "use"}
    BY IdleLocal DEF End, Continues
  <1> QED
    BY <1>1, GoOnInv

\* A guard decides, twice or once.
LEMMA CanActivateInv == ASSUME IInv, NEW h \in Handlers, canActivate(h) PROVE IInv'
  <1>1. /\ work[h] \in Local /\ work[h].pc = "use" /\ Knows(work[h])
        /\ work[h].user \in Users /\ work[h].op \in Readers
        /\ UNCHANGED <<role, rolePermission, grant, cache, excused, overlapped>>
    BY DEF canActivate, At, Tables, IInv, TypeOK, KnowsOK, Knows
  <1>2. \A u \in Users : ~Invalidates(work[h], u)
    BY <1>1 DEF Invalidates
  <1>3. CASE work[h].op = "permission" /\ work[h].decided = "none"
    <2>1. PICK d \in AuditLog :
            work' = [work EXCEPT ![h].pc = "get", ![h].decided = d] /\ audit' = audit
      BY <1>3 DEF canActivate, AuditLog
    <2> PICK w : w = [work[h] EXCEPT !.pc = "get", !.decided = d]
      OBVIOUS
    <2>2. /\ w \in Local /\ w.op = work[h].op /\ w.user = work[h].user /\ w.pc = "get"
          /\ work' = [work EXCEPT ![h] = w]
      BY <1>1, <2>1 DEF Local
    <2>3. Knows(w) /\ Continues(w, work[h])
      BY <1>1, <2>2 DEF Knows, Continues, Readers, Asking
    <2>4. audit' \in [Users -> AuditLog]
      BY <2>1 DEF IInv, TypeOK
    <2> QED
      BY <1>1, <1>2, <2>2, <2>3, <2>4, GoOnInv
  <1>4. CASE ~(work[h].op = "permission" /\ work[h].decided = "none")
    <2>1. /\ End(h)
          /\ audit' = audit \/ audit' = [audit EXCEPT ![work[h].user] = work[h].decided]
      BY <1>4 DEF canActivate
    <2>2. audit' \in [Users -> AuditLog]
      BY <1>1, <2>1 DEF IInv, TypeOK, Local
    <2> QED
      BY <1>1, <1>2, <2>1, <2>2, EndInv
  <1> QED
    BY <1>3, <1>4

-----------------------------------------------------------------------------
(* The grants *)

\* Whatever role and city are asked for, they have their types.
LEMMA AssignInv == ASSUME IInv, NEW h \in Handlers, NEW u \in Users, assign(h, u) PROVE IInv'
  <1> PICK dto \in AssignRoleDto :
        Receive(h, [Idle EXCEPT !.pc = "role", !.op = "assign", !.user = u,
                                !.role = dto.roleId, !.city = dto.cityId])
    BY DEF assign
  <1> PICK w : w = [Idle EXCEPT !.pc = "role", !.op = "assign", !.user = u,
                                !.role = dto.roleId, !.city = dto.cityId]
    OBVIOUS
  <1>1. dto.roleId \in Roles /\ dto.cityId \in Cities \cup {None}
    BY DEF AssignRoleDto
  <1>2. w \in Local /\ w.pc = "role" /\ w.op = "assign" /\ w.user = u /\ w.role \in Roles
    BY <1>1, IdleLocal DEF Local
  <1>3. Knows(w)
    BY <1>2 DEF Knows, Asking
  <1> QED
    BY <1>2, <1>3, ReceiveInv

\* The other way to ask for a grant.
LEMMA AdminAssignInv ==
  ASSUME IInv, NEW h \in Handlers, NEW u \in Users, adminAssignRole(h, u)
  PROVE  IInv'
  <1> PICK dto \in AssignRoleDto :
        Receive(h, [Idle EXCEPT !.pc = "existing", !.op = "admin", !.user = u,
                                !.role = dto.roleId, !.city = dto.cityId])
    BY DEF adminAssignRole
  <1> PICK w : w = [Idle EXCEPT !.pc = "existing", !.op = "admin", !.user = u,
                                !.role = dto.roleId, !.city = dto.cityId]
    OBVIOUS
  <1>1. dto.roleId \in Roles /\ dto.cityId \in Cities \cup {None}
    BY DEF AssignRoleDto
  <1>2. w \in Local /\ w.pc = "existing" /\ w.op = "admin" /\ w.user = u /\ w.role \in Roles
    BY <1>1, IdleLocal DEF Local
  <1>3. Knows(w)
    BY <1>2 DEF Knows, Asking
  <1> QED
    BY <1>2, <1>3, ReceiveInv

\* The row to revoke is one that is there.
LEMMA RevokeInv == ASSUME IInv, NEW h \in Handlers, NEW g \in Grants, revoke(h, g) PROVE IInv'
  <1>1. grant[g] # None /\ grant[g] \in UserRole /\ grant[g].user \in Users
    BY DEF revoke, IInv, TypeOK, UserRole
  <1> PICK v \in Users : v = grant[g].user
    BY <1>1
  <1> PICK w : w = [Idle EXCEPT !.pc = "revoke", !.op = "revoke", !.grant = g, !.user = v]
    OBVIOUS
  <1>2. Receive(h, w)
    BY DEF revoke
  <1>3. w \in Local /\ w.pc = "revoke" /\ w.op = "revoke" /\ w.user = v /\ w.grant = g
    BY IdleLocal DEF Local
  <1>4. Knows(w)
    BY <1>1, <1>3 DEF Knows, Asking
  <1> QED
    BY <1>2, <1>3, <1>4, ReceiveInv

\* A permission of a role is asked to be given or taken.
LEMMA ChangePermissionsInv == ASSUME IInv, NEW h \in Handlers, changePermissions(h) PROVE IInv'
  <1> PICK r \in Roles, s \in Slugs, op \in {"add", "remove"} :
        Receive(h, [Idle EXCEPT !.pc = "pair", !.op = op, !.role = r, !.slug = s])
    BY DEF changePermissions
  <1> PICK w : w = [Idle EXCEPT !.pc = "pair", !.op = op, !.role = r, !.slug = s]
    OBVIOUS
  <1>1. w \in Local /\ w.pc = "pair" /\ w.op = op /\ w.role = r /\ w.slug = s
    BY IdleLocal DEF Local
  <1>2. Knows(w) /\ w.op # "bootstrap"
    BY <1>1 DEF Knows, Asking
  <1> QED
    BY <1>1, <1>2, ReceiveInv

\* A bootstrap begins when no super_admin is active, alone or in the history.
LEMMA BootstrapInv ==
  ASSUME IInv, NEW h \in Handlers, NEW u \in Users, bootstrapSuperAdmin(h, u)
  PROVE  IInv'
  <1> PICK w : w = [Idle EXCEPT !.pc = "role", !.op = "bootstrap", !.user = u, !.role = SuperAdmin]
    OBVIOUS
  <1>1. SuperAdmin \in Roles
    BY RbacAssumption DEF RbacAssumption
  <1>2. /\ w \in Local /\ w.pc = "role" /\ w.op = "bootstrap" /\ w.user = u /\ w.role = SuperAdmin
    BY <1>1, IdleLocal DEF Local
  <1>3. /\ work[h].pc = "idle" /\ work' = [work EXCEPT ![h] = w]
        /\ UNCHANGED <<role, rolePermission, grant, cache, audit, excused>>
        /\ \A g \in Grants : grant[g] # None /\ grant[g].isActive => grant[g].role # SuperAdmin
        /\ \A p \in overlapped : p \in overlapped'
        /\ (\E g \in Handlers : work[g].op = "bootstrap") => \A v \in Users : <<v, SuperAdmin>> \in overlapped'
    BY DEF bootstrapSuperAdmin, At, Tables
  <1>4. work' \in [Handlers -> Local] /\ Steps(h, w)
    BY <1>2, <1>3, AloneSteps DEF IInv
  <1>5. TypeOK' /\ RowsOK'
    BY <1>3, <1>4 DEF IInv, TypeOK, RolePermission, RowsOK
  <1>6. KnowsOK'
    <2>1. Knows(w)'
      BY <1>1, <1>2 DEF Knows, Asking
    <2> QED
      BY <1>3, <1>4, <2>1, KnowsFrame DEF IInv
  <1>7. MissingOK' /\ GrantedOnce'
    <2>1. NoNewGrant
      BY <1>3 DEF NoNewGrant
    <2>2. GrantedOnce'
      BY <1>3 DEF IInv, GrantedOnce
    <2> QED
      BY <1>2, <1>3, <1>4, <2>1, <2>2, MissingFrame DEF IInv
  <1>8. AloneOK'
    <2>1. CASE \E g \in Handlers : work[g].op = "bootstrap"
      <3>1. AllOverlap'
        BY <1>3, <2>1 DEF AllOverlap
      <3> QED
        BY <3>1 DEF AloneOK, Alone
    <2>2. CASE ~\E g \in Handlers : work[g].op = "bootstrap"
      <3>1. \A g \in Handlers : work'[g].op = "bootstrap" => g = h
        BY <1>4, <2>2 DEF Steps, Same
      <3>2. \A g \in Grants : ~(grant'[g] # None /\ grant'[g].isActive /\ grant'[g].bootstrap)
        BY <1>3 DEF IInv, RowsOK
      <3> QED
        BY <3>1, <3>2 DEF AloneOK, Alone
    <2> QED
      BY <2>1, <2>2
  <1>9. CachesOK'
    <2> SUFFICES ASSUME NEW v \in Users, v \notin excused' PROVE CacheOK(v)'
      BY DEF CachesOK
    <2>1. ~Invalidates(work[h], v) /\ ~Reads(w, v)
      BY <1>2, <1>3 DEF Invalidates, Reads
    <2> QED
      BY <1>2, <1>3, <2>1, CalmCache
  <1> QED
    BY <1>5, <1>6, <1>7, <1>8, <1>9 DEF IInv

\* The request looks for the grant next, or ends.
LEMMA AssignRoleInv == ASSUME IInv, NEW h \in Handlers, assignRole(h) PROVE IInv'
  <1>1. /\ work[h] \in Local /\ work[h].pc = "role" /\ Knows(work[h])
        /\ UNCHANGED <<role, rolePermission, grant, cache, audit, excused, overlapped>>
        /\ audit' \in [Users -> AuditLog]
    BY DEF assignRole, At, Tables, IInv, TypeOK, KnowsOK
  <1>2. \A u \in Users : ~Invalidates(work[h], u)
    BY <1>1 DEF Invalidates
  <1>3. CASE End(h)
    BY <1>1, <1>2, <1>3, EndInv
  <1>4. CASE Goto(h, "existing")
    <2> PICK w : w = [work[h] EXCEPT !.pc = "existing"]
      OBVIOUS
    <2>1. /\ w \in Local /\ w.op = work[h].op /\ w.user = work[h].user /\ w.pc = "existing"
          /\ w.role = work[h].role /\ work' = [work EXCEPT ![h] = w]
      BY <1>1, <1>4 DEF Local, Goto
    <2>2. Knows(w) /\ Continues(w, work[h])
      BY <1>1, <2>1 DEF Knows, Continues, Asking
    <2> QED
      BY <1>1, <1>2, <2>1, <2>2, GoOnInv
  <1> QED
    BY <1>3, <1>4 DEF assignRole

\* The request finds no active grant; whoever is about to insert the same is in the history.
LEMMA FindExistingInv == ASSUME IInv, NEW h \in Handlers, findExisting(h) PROVE IInv'
  <1>1. /\ work[h] \in Local /\ work[h].pc = "existing" /\ Knows(work[h])
        /\ UNCHANGED <<role, rolePermission, grant, cache, audit, excused>>
        /\ audit' \in [Users -> AuditLog]
    BY DEF findExisting, At, Tables, IInv, TypeOK, KnowsOK
  <1>2. \A u \in Users : ~Invalidates(work[h], u)
    BY <1>1 DEF Invalidates
  <1>3. CASE Existing(work[h])
    <2>1. End(h) /\ UNCHANGED overlapped
      BY <1>3 DEF findExisting
    <2> QED
      BY <1>1, <1>2, <2>1, EndInv
  <1>4. CASE ~Existing(work[h])
    <2> PICK w : w = [work[h] EXCEPT !.pc = "insert"]
      OBVIOUS
    <2>1. /\ work' = [work EXCEPT ![h] = w] /\ \A p \in overlapped : p \in overlapped'
          /\ (\E g \in Handlers : Asks(work[g], work[h].user, work[h].role))
                => <<work[h].user, work[h].role>> \in overlapped'
      BY <1>4 DEF findExisting, Goto, Asks, At
    <2>2. /\ w \in Local /\ w.op = work[h].op /\ w.user = work[h].user /\ w.pc = "insert"
          /\ w.role = work[h].role /\ w.city = work[h].city
      BY <1>1 DEF Local
    <2>3. /\ work' \in [Handlers -> Local] /\ Steps(h, w)
          /\ \A g \in Handlers : g # h => work'[g] = work[g]
      BY <2>1, <2>2, AloneSteps DEF IInv
    <2>4. TypeOK' /\ RowsOK'
      BY <1>1, <2>3 DEF IInv, TypeOK, RolePermission, RowsOK
    <2>5. KnowsOK'
      <3>1. Knows(w)'
        BY <1>1, <2>2 DEF Knows, Asking
      <3> QED
        BY <1>1, <2>3, <3>1, KnowsFrame DEF IInv
    <2>6. MissingOK'
      <3> SUFFICES ASSUME NEW g \in Handlers PROVE Missing(work[g])'
        BY DEF MissingOK
      <3>1. CASE g = h
        <4>1. work'[g] = w
          BY <2>3, <3>1 DEF Steps
        <4>2. \A i \in Grants : ~ActiveGrant(i, w.user, w.role, w.city)
          BY <1>4, <2>2 DEF Existing, Held, ActiveGrant
        <4>3. \A i \in Grants : ~ActiveGrant(i, w.user, w.role, w.city)'
          BY <1>1, <4>2 DEF ActiveGrant
        <4>4. ASSUME <<w.user, w.role>> \notin overlapped'
              PROVE  \A f \in Handlers : Asks(work'[f], w.user, w.role) => f = h
          <5>1. \A f \in Handlers : ~Asks(work[f], w.user, w.role)
            BY <2>1, <2>2, <4>4
          <5> QED
            BY <2>3, <5>1
        <4>5. Missing(w)'
          BY <4>3, <4>4 DEF Missing
        <4> QED
          BY <4>1, <4>5 DEF Missing
      <3>2. CASE g # h
        <4> PICK v : v = work[g]
          OBVIOUS
        <4>1. work'[g] = v /\ Missing(v)
          BY <2>3, <3>2 DEF IInv, MissingOK
        <4>2. \A i \in Grants : ActiveGrant(i, v.user, v.role, v.city)' <=> ActiveGrant(i, v.user, v.role, v.city)
          BY <1>1 DEF ActiveGrant
        <4>3. ASSUME v.pc = "insert", <<v.user, v.role>> \notin overlapped',
                     NEW e \in Handlers, NEW f \in Handlers,
                     Asks(work'[e], v.user, v.role), Asks(work'[f], v.user, v.role)
              PROVE  e = f
          <5>1. \A x, y \in Handlers : Asks(work[x], v.user, v.role) /\ Asks(work[y], v.user, v.role) => x = y
            BY <2>1, <4>1, <4>3 DEF Missing
          <5>2. Asks(work[g], v.user, v.role)
            BY <4>3 DEF Asks
          <5>3. ~Asks(w, v.user, v.role)
            BY <2>1, <2>2, <4>3, <5>2 DEF Asks
          <5> QED
            BY <2>3, <4>3, <5>1, <5>3 DEF Steps
        <4>4. Missing(v)'
          BY <2>1, <4>1, <4>2, <4>3 DEF Missing
        <4> QED
          BY <4>1, <4>4 DEF Missing
      <3> QED
        BY <3>1, <3>2
    <2>7. AloneOK'
      BY <1>1, <2>1, <2>2, <2>3, AloneFrame DEF IInv, Asking
    <2>8. GrantedOnce'
      BY <1>1, <2>1 DEF IInv, GrantedOnce
    <2>9. CachesOK'
      <3> SUFFICES ASSUME NEW v \in Users, v \notin excused' PROVE CacheOK(v)'
        BY DEF CachesOK
      <3>1. ~Reads(w, v)
        BY <2>2 DEF Reads
      <3> QED
        BY <1>1, <1>2, <2>1, <2>2, <3>1, CalmCache
    <2> QED
      BY <2>4, <2>5, <2>6, <2>7, <2>8, <2>9 DEF IInv
  <1> QED
    BY <1>3, <1>4

-----------------------------------------------------------------------------
(* The changes of the tables *)

\* A user whom a change does not touch, and whose invalidation h is not about.
Kept(h, u) == /\ loadFromDb(u)' = loadFromDb(u) /\ ~Invalidates(work[h], u)
              /\ \A r : u \in UsersOf(r) => u \in UsersOf(r)'

\* A step of h that changes the tables for some users: those it touches and leaves
\* unexcused are about to be invalidated.
LEMMA TablesFrame ==
  ASSUME IInv, NEW h \in Handlers, NEW w \in Local, NEW touched, Change(h, touched, w),
         excused \subseteq excused', audit' = audit, cache' = cache,
         role' \in [Roles -> RoleState], rolePermission' \subseteq RolePermission',
         grant' \in [Grants -> UserRole \cup {None}],
         \A g \in Grants : grant[g] # None => grant'[g] # None /\ grant'[g].user = grant[g].user,
         Knows(w)',
         \A u \in Users \ excused' : ~Reads(w, u),
         \A u \in Users \ excused' : u \in touched => Invalidates(w, u)',
         \A u \in Users \ excused' : u \notin touched => Kept(h, u)
  PROVE  Steps(h, w) /\ TypeOK' /\ KnowsOK' /\ CachesOK'
  <1>1. /\ work' \in [Handlers -> Local] /\ Steps(h, w)
        /\ \A g \in Handlers : g # h /\ work[g].user \notin touched => work'[g] = work[g]
        /\ \A g \in Handlers, u \in touched : g # h /\ Reads(work[g], u) => work'[g].moved
    BY ChangeSteps DEF IInv
  <1>2. TypeOK'
    BY <1>1 DEF IInv, TypeOK
  <1>3. KnowsOK'
    BY <1>1, KnowsFrame DEF IInv
  <1>4. ASSUME NEW u \in Users, u \notin excused' PROVE CacheOK(u)'
    <2>1. CASE u \in touched
      BY <1>1, <1>4, <2>1, Touched
    <2>2. CASE u \notin touched
      <3>1. /\ loadFromDb(u)' = loadFromDb(u) /\ ~Invalidates(work[h], u) /\ ~Reads(w, u)
            /\ \A r : u \in UsersOf(r) => u \in UsersOf(r)'
        BY <1>4, <2>2 DEF Kept
      <3>2. Awaited(u) => Awaited(u)'
        BY <1>1, <3>1, AwaitedKept
      <3>3. \A g \in Handlers : g # h /\ Reads(work[g], u) => work'[g] = work[g]
        BY <1>1, <2>2 DEF Reads
      <3>4. u \notin excused /\ cache'[u] \in {None, cache[u], loadFromDb(u)}
        BY <1>4
      <3> QED
        BY <1>1, <3>1, <3>2, <3>3, <3>4, Untouched DEF IInv
    <2> QED
      BY <2>1, <2>2
  <1>5. CachesOK'
    BY <1>4 DEF CachesOK
  <1> QED
    BY <1>1, <1>2, <1>3, <1>5

\* Such a step that makes no grant active.
LEMMA TablesInv ==
  ASSUME IInv, NEW h \in Handlers, NEW w \in Local, NEW touched, Change(h, touched, w),
         overlapped' = overlapped, excused \subseteq excused', audit' = audit, cache' = cache,
         role' \in [Roles -> RoleState], rolePermission' \subseteq RolePermission',
         grant' \in [Grants -> UserRole \cup {None}], RowsOK', NoNewGrant,
         \A g \in Grants : grant[g] # None => grant'[g] # None /\ grant'[g].user = grant[g].user,
         Knows(w)', Continues(w, work[h]),
         \A u \in Users \ excused' : ~Reads(w, u),
         \A u \in Users \ excused' : u \in touched => Invalidates(w, u)',
         \A u \in Users \ excused' : u \notin touched => Kept(h, u)
  PROVE  IInv'
  <1>1. Steps(h, w) /\ TypeOK' /\ KnowsOK' /\ CachesOK'
    BY TablesFrame
  <1>2. MissingOK' /\ AloneOK' /\ GrantedOnce'
    BY <1>1, GrantsFrame DEF IInv
  <1> QED
    BY <1>1, <1>2 DEF IInv

\* A grant is revoked, and its user's entry will be invalidated.
LEMMA RevokeRoleInv == ASSUME IInv, NEW h \in Handlers, revokeRole(h) PROVE IInv'
  <1>1. /\ work[h] \in Local /\ work[h].pc = "revoke" /\ Knows(work[h])
        /\ UNCHANGED <<role, rolePermission, cache, audit, excused, overlapped>>
    BY DEF revokeRole, At, IInv, TypeOK, KnowsOK
  <1>2. /\ work[h].grant \in Grants /\ grant[work[h].grant] # None
        /\ work[h].user \in Users /\ work[h].user = grant[work[h].grant].user
    BY <1>1 DEF Knows
  <1> PICK i \in Grants : i = work[h].grant
    BY <1>2
  <1> PICK v \in Users : v = work[h].user
    BY <1>2
  <1> PICK w : w = [work[h] EXCEPT !.pc = "invalidate", !.todo = {v}]
    OBVIOUS
  <1>3. Change(h, {v}, w) /\ grant' = [grant EXCEPT ![i].isActive = FALSE]
    BY DEF revokeRole
  <1>4. w \in Local /\ w.pc = "invalidate" /\ w.op = work[h].op /\ w.role = work[h].role /\ w.todo = {v}
    BY <1>1 DEF Local
  <1>5. grant[i] \in UserRole /\ grant[i] # None /\ grant[i].user = v
    BY <1>2 DEF IInv, TypeOK
  <1> PICK row : row = [grant[i] EXCEPT !.isActive = FALSE]
    OBVIOUS
  <1>6. /\ row \in UserRole /\ row.user = v /\ ~row.isActive /\ row.role = grant[i].role
        /\ row.bootstrap = grant[i].bootstrap
    BY <1>5 DEF UserRole
  <1>7. /\ grant' \in [Grants -> UserRole \cup {None}] /\ grant'[i] = row
        /\ \A g \in Grants : g # i => grant'[g] = grant[g]
    BY <1>3, <1>6 DEF IInv, TypeOK
  <1>8. NoNewGrant
    BY <1>6, <1>7 DEF NoNewGrant
  <1>9. RowsOK'
    <2> SUFFICES ASSUME NEW g \in Grants, grant'[g] # None
                 PROVE  /\ role'[grant'[g].role] # "absent"
                        /\ grant'[g].bootstrap => grant'[g].role = SuperAdmin
      BY DEF RowsOK
    <2>1. /\ grant[g] # None /\ grant'[g].role = grant[g].role
          /\ grant'[g].bootstrap = grant[g].bootstrap
      BY <1>5, <1>6, <1>7
    <2> QED
      BY <1>1, <2>1 DEF IInv, RowsOK
  <1>10. Knows(w)' /\ Continues(w, work[h])
    BY <1>1, <1>4 DEF Knows, Continues, Asking
  <1>11. ASSUME NEW u \in Users, u # v
         PROVE  /\ loadFromDb(u)' = loadFromDb(u) /\ ~Invalidates(work[h], u) /\ ~Reads(w, u)
                /\ \A r : u \in UsersOf(r) => u \in UsersOf(r)'
    <2>1. \A g \in Grants : grant'[g] # None /\ grant'[g].user = u => g # i
      BY <1>6, <1>7, <1>11
    <2>2. \A g \in Grants : grant[g] # None /\ grant[g].user = u => g # i
      BY <1>5, <1>11
    <2>3. loadFromDb(u)' = loadFromDb(u)
      BY <1>1, <1>7, <2>1, <2>2, LoadSame DEF Held
    <2>4. ~Invalidates(work[h], u) /\ ~Reads(w, u)
      BY <1>1, <1>4 DEF Invalidates, Reads
    <2>5. \A r : u \in UsersOf(r) => u \in UsersOf(r)'
      BY <1>7, <2>2 DEF UsersOf
    <2> QED
      BY <2>3, <2>4, <2>5
  <1>12. Invalidates(w, v)' /\ ~Reads(w, v)
    BY <1>4 DEF Invalidates, Reads
  <1>13. \A g \in Grants : grant[g] # None => grant'[g] # None /\ grant'[g].user = grant[g].user
    <2>1. row # None
      BY <1>6, NoneIsNoRow
    <2> QED
      BY <1>5, <1>6, <1>7, <2>1
  <1>14. rolePermission' \subseteq RolePermission' /\ role' \in [Roles -> RoleState]
    BY <1>1 DEF IInv, TypeOK, RolePermission
  <1>15. /\ \A u \in Users \ excused' : ~Reads(w, u)
         /\ \A u \in Users \ excused' : u \in {v} => Invalidates(w, u)'
         /\ \A u \in Users \ excused' : u \notin {v} => Kept(h, u)
    BY <1>4, <1>11, <1>12 DEF Reads, Kept
  <1>16. /\ overlapped' = overlapped /\ excused \subseteq excused' /\ audit' = audit /\ cache' = cache
         /\ grant' \in [Grants -> UserRole \cup {None}] /\ w \in Local
    BY <1>1, <1>4, <1>7
  <1> QED
    BY <1>3, <1>8, <1>9, <1>10, <1>13, <1>14, <1>15, <1>16, TablesInv

\* The grant is inserted: it was missing, unless the history says so.
LEMMA InsertGrantInv == ASSUME IInv, NEW h \in Handlers, insertGrant(h) PROVE IInv'
  <1>1. /\ work[h] \in Local /\ work[h].pc = "insert" /\ Knows(work[h])
        /\ Missing(work[h]) /\ Alone(h)
        /\ UNCHANGED <<role, rolePermission, cache, audit, overlapped>>
    BY DEF insertGrant, At, IInv, TypeOK, KnowsOK, MissingOK, AloneOK
  <1>2. /\ work[h].user \in Users /\ work[h].role \in Roles /\ work[h].city \in Cities \cup {None}
        /\ work[h].op = "bootstrap" => work[h].role = SuperAdmin
    BY <1>1 DEF Knows, Asking, Local
  <1>3. \A z \in Users : ~Invalidates(work[h], z)
    BY <1>1 DEF Invalidates
  <1>4. CASE role[work[h].role] = "absent"
    <2>1. End(h) /\ UNCHANGED <<grant, excused>> /\ audit' \in [Users -> AuditLog]
      BY <1>1, <1>4 DEF insertGrant, IInv, TypeOK
    <2> QED
      BY <1>1, <1>3, <2>1, EndInv
  <1>5. CASE role[work[h].role] # "absent"
    <2> PICK u \in Users : u = work[h].user
      BY <1>2
    <2> PICK r \in Roles : r = work[h].role
      BY <1>2
    <2> PICK c \in Cities \cup {None} : c = work[h].city
      BY <1>2
    <2> PICK b \in BOOLEAN : b = (work[h].op = "bootstrap")
      OBVIOUS
    <2> PICK row : row = [user |-> u, role |-> r, city |-> c, isActive |-> TRUE,
                          expired |-> FALSE, bootstrap |-> b]
      OBVIOUS
    <2>1. /\ row \in UserRole /\ row.user = u /\ row.role = r /\ row.city = c /\ row.isActive
          /\ row.bootstrap = b /\ row # None
      <3>1. /\ row \in UserRole /\ row.user = u /\ row.role = r /\ row.city = c /\ row.isActive
            /\ row.bootstrap = b
        BY DEF UserRole
      <3> QED
        BY <3>1, NoneIsNoRow
    <2>2. PICK i \in Grants : grant[i] = None /\ grant' = [grant EXCEPT ![i] = row]
      BY <1>5 DEF insertGrant, Insert
    <2>3. /\ grant' \in [Grants -> UserRole \cup {None}] /\ grant'[i] = row
          /\ \A x \in Grants : x # i => grant'[x] = grant[x]
      BY <2>1, <2>2 DEF IInv, TypeOK
    <2> PICK w : w = IF work[h].op = "admin" THEN Idle
                     ELSE [work[h] EXCEPT !.pc = "invalidate", !.todo = {u}]
      OBVIOUS
    <2>4. /\ Change(h, {u}, w) /\ excused \subseteq excused'
          /\ work[h].op = "admin" => u \in excused'
      BY <1>5 DEF insertGrant
    <2>5. /\ w \in Local
          /\ \/ w = Idle /\ work[h].op = "admin"
             \/ /\ w.pc = "invalidate" /\ w.op = work[h].op /\ w.role = work[h].role /\ w.todo = {u}
                /\ work[h].op # "admin"
      <3>1. CASE work[h].op = "admin"
        BY <3>1, IdleLocal
      <3>2. CASE work[h].op # "admin"
        <4> PICK todo \in SUBSET Users : todo = {u}
          OBVIOUS
        <4>1. w = [work[h] EXCEPT !.pc = "invalidate", !.todo = todo]
          BY <3>2
        <4>2. w \in Local
          BY <1>1, <4>1 DEF Local
        <4>3. w.pc = "invalidate" /\ w.op = work[h].op /\ w.role = work[h].role /\ w.todo = todo
          BY <1>1, <4>1 DEF Local
        <4> QED
          BY <3>2, <4>2, <4>3
      <3> QED
        BY <3>1, <3>2
    <2>6. /\ w.pc \in {"idle", "invalidate"} /\ (w.op = "bootstrap" => work[h].op = "bootstrap")
          /\ w.op = "bootstrap" => w.role = SuperAdmin
      BY <1>2, <2>5, IdleLocal
    <2>7. Steps(h, w) /\ TypeOK' /\ KnowsOK' /\ CachesOK'
      <3>1. Knows(w)'
        BY <2>6 DEF Knows, Asking
      <3>2. \A x \in Grants : grant[x] # None => grant'[x] # None /\ grant'[x].user = grant[x].user
        BY <2>2, <2>3
      <3>3. \A z \in Users \ excused' : ~Reads(w, z)
        <4>1. w.pc \notin {"fill", "use"}
          BY <2>6
        <4> QED
          BY <4>1 DEF Reads
      <3>4. \A z \in Users \ excused' : z \in {u} => Invalidates(w, z)'
        BY <2>4, <2>5 DEF Invalidates
      <3>5. ASSUME NEW z \in Users, z # u PROVE Kept(h, z)
        <4>1. \A x \in Grants : (grant'[x] # None /\ grant'[x].user = z)
                                   <=> (grant[x] # None /\ grant[x].user = z)
          BY <2>1, <2>2, <2>3, <3>5
        <4>2. \A x \in Grants : grant[x] # None => grant'[x] = grant[x]
          BY <2>2, <2>3
        <4>3. \A x \in Held(z) : x \in Grants /\ grant[x] # None
          BY DEF Held
        <4>4. \A x \in Grants : grant'[x] # None /\ grant'[x].user = z => x # i
          BY <2>1, <2>3, <3>5
        <4>5. loadFromDb(z)' = loadFromDb(z)
          BY <1>1, <2>3, <4>1, <4>2, <4>3, <4>4, LoadSame
        <4>6. \A q : z \in UsersOf(q) => z \in UsersOf(q)'
          BY <4>2 DEF UsersOf
        <4> QED
          BY <1>3, <4>5, <4>6 DEF Kept
      <3>6. rolePermission' \subseteq RolePermission' /\ role' \in [Roles -> RoleState]
        BY <1>1 DEF IInv, TypeOK, RolePermission
      <3>7. excused \subseteq excused' /\ audit' = audit /\ cache' = cache /\ w \in Local
            /\ grant' \in [Grants -> UserRole \cup {None}] /\ Change(h, {u}, w)
        BY <1>1, <2>3, <2>4, <2>5
      <3>8. \A z \in Users \ excused' : z \notin {u} => Kept(h, z)
        BY <3>5
      <3> QED
        BY <3>1, <3>2, <3>3, <3>4, <3>6, <3>7, <3>8, TablesFrame
    <2>8. RowsOK'
      <3> SUFFICES ASSUME NEW x \in Grants, grant'[x] # None
                   PROVE  /\ role'[grant'[x].role] # "absent"
                          /\ grant'[x].bootstrap => grant'[x].role = SuperAdmin
        BY DEF RowsOK
      <3>1. CASE x = i
        BY <1>1, <1>2, <1>5, <2>1, <2>3, <3>1
      <3>2. CASE x # i
        BY <1>1, <2>3, <3>2 DEF IInv, RowsOK
      <3> QED
        BY <3>1, <3>2
    <2>9. MissingOK'
      <3> SUFFICES ASSUME NEW f \in Handlers, work'[f].pc = "insert",
                          <<work'[f].user, work'[f].role>> \notin overlapped
                   PROVE  Missing(work[f])'
        BY <1>1 DEF MissingOK, Missing
      <3> PICK y : y = work[f]
        OBVIOUS
      <3>1. f # h
        BY <2>6, <2>7 DEF Steps
      <3>2. /\ Same(work'[f], y) /\ y.pc = "insert" /\ <<y.user, y.role>> \notin overlapped /\ Missing(y)
            /\ Asks(work[f], y.user, y.role)
        BY <2>7, <3>1 DEF Steps, Same, IInv, MissingOK, Asks
      <3>3. \A x \in Handlers : \A z, q : Asks(work'[x], z, q) => Asks(work[x], z, q)
        BY <2>6, <2>7 DEF Steps, Same, Asks
      <3>4. /\ \A x, z \in Handlers :
                  Asks(work[x], y.user, y.role) /\ Asks(work[z], y.user, y.role) => x = z
            /\ \A x \in Grants : ~ActiveGrant(x, y.user, y.role, y.city)
        BY <3>2 DEF Missing
      <3>5. ~(u = y.user /\ r = y.role)
        BY <1>1, <3>1, <3>2, <3>4 DEF Asks
      <3>6. \A x \in Grants : ~ActiveGrant(x, y.user, y.role, y.city)'
        BY <2>1, <2>3, <3>4, <3>5 DEF ActiveGrant
      <3>7. \A x, z \in Handlers :
                  Asks(work'[x], y.user, y.role) /\ Asks(work'[z], y.user, y.role) => x = z
        BY <3>3, <3>4
      <3> QED
        BY <3>2, <3>6, <3>7 DEF Missing, Same
    <2>10. AloneOK'
      <3>1. CASE b
        <4>1. \A f \in Handlers : work'[f].op = "bootstrap" => work[f].op = "bootstrap"
          BY <2>6, <2>7 DEF Steps, Same
        <4>2. AllOverlap => AllOverlap'
          BY <1>1 DEF AllOverlap
        <4>3. work'[h].pc \notin Asking
          BY <2>6, <2>7 DEF Steps, Asking
        <4>4. ~AllOverlap => \A f \in Handlers : work[f].op = "bootstrap" => f = h
          BY <1>1, <3>1 DEF Alone
        <4> QED
          BY <4>1, <4>2, <4>3, <4>4 DEF AloneOK, Alone
      <3>2. CASE ~b
        <4>1. work[h].op # "bootstrap" /\ w.op # "bootstrap"
          BY <2>6, <3>2
        <4>2. \A x \in Grants : grant'[x] # None /\ grant'[x].isActive /\ grant'[x].bootstrap
                            => grant[x] # None /\ grant[x].isActive /\ grant[x].bootstrap
          BY <2>1, <2>3, <3>2
        <4> QED
          BY <1>1, <2>7, <4>1, <4>2, AloneFrame DEF IInv
      <3> QED
        BY <3>1, <3>2
    <2>11. GrantedOnce'
      <3>1. \A x \in Grants : ActiveGrant(x, u, r, c) => <<u, r>> \in overlapped
        BY <1>1 DEF Missing
      <3>2. \A x \in Grants : b /\ grant[x] # None /\ grant[x].isActive /\ grant[x].bootstrap =>
               /\ grant[x].role = SuperAdmin /\ r = SuperAdmin
               /\ <<grant[x].user, SuperAdmin>> \in overlapped /\ <<u, SuperAdmin>> \in overlapped
        <4>1. \A x \in Grants : grant[x] # None => grant[x].user \in Users
          BY DEF IInv, TypeOK, UserRole
        <4>2. \A x \in Grants : grant[x] # None /\ grant[x].bootstrap => grant[x].role = SuperAdmin
          BY DEF IInv, RowsOK
        <4>3. work[h].pc \in Asking
          BY <1>1 DEF Asking
        <4> QED
          BY <1>1, <1>2, <4>1, <4>2, <4>3 DEF Alone, AllOverlap
      <3> SUFFICES ASSUME NEW x \in Grants, NEW y \in Grants,
                          x # y, grant'[x] # None, grant'[y] # None,
                          grant'[x].isActive, grant'[y].isActive,
                          \/ <<grant'[x].user, grant'[x].role, grant'[x].city>>
                                = <<grant'[y].user, grant'[y].role, grant'[y].city>>
                          \/ grant'[x].bootstrap /\ grant'[y].bootstrap
                   PROVE  <<grant'[x].user, grant'[x].role>> \in overlapped
        BY <1>1 DEF GrantedOnce
      <3>3. CASE x # i /\ y # i
        BY <2>3, <3>3 DEF IInv, GrantedOnce
      <3>4. CASE x = i
        <4>1. grant'[x] = row /\ grant'[y] = grant[y]
          BY <2>3, <3>4
        <4> QED
          BY <2>1, <3>1, <3>2, <4>1 DEF ActiveGrant
      <3>5. CASE y = i
        <4>1. grant'[y] = row /\ grant'[x] = grant[x]
          BY <2>3, <3>5
        <4> QED
          BY <2>1, <3>1, <3>2, <4>1 DEF ActiveGrant
      <3> QED
        BY <3>3, <3>4, <3>5
    <2> QED
      BY <2>7, <2>8, <2>9, <2>10, <2>11 DEF IInv
  <1> QED
    BY <1>4, <1>5

\* A role that is changed: the users of its active grants are excused.
LEMMA UpdateRoleInv ==
  ASSUME IInv, NEW h \in Handlers, NEW r \in Roles, updateRole(h, r)
  PROVE  IInv'
  <1>1. PICK state \in {"active", "inactive"} :
          /\ work[h].pc = "idle" /\ role[r] # "absent" /\ role' = [role EXCEPT ![r] = state]
          /\ Change(h, UsersOf(r), Idle) /\ excused' = excused \cup UsersOf(r)
          /\ UNCHANGED <<rolePermission, grant, cache, audit, overlapped>>
    BY DEF updateRole, At
  <1> PICK w : w = Idle
    OBVIOUS
  <1>2. /\ w \in Local /\ Knows(w) /\ w.pc = "idle" /\ Continues(w, work[h]) /\ w.op = "none"
    BY IdleLocal DEF Continues
  <1>3. /\ role' \in [Roles -> RoleState]
        /\ \A q \in Roles : (role'[q] # "absent" <=> role[q] # "absent")
        /\ \A q \in Roles : q # r => role'[q] = role[q]
    BY <1>1 DEF IInv, TypeOK, RoleState
  <1>4. rolePermission' \subseteq RolePermission'
    <2>1. {q \in Roles : role'[q] # "absent"} = {q \in Roles : role[q] # "absent"}
      BY <1>3
    <2> QED
      BY <1>1, <2>1 DEF IInv, TypeOK, RolePermission
  <1>5. RowsOK'
    <2>1. \A g \in Grants : grant[g] # None => grant[g].role \in Roles
      BY DEF IInv, TypeOK, UserRole
    <2> QED
      BY <1>1, <1>3, <2>1 DEF IInv, RowsOK
  <1>6. ASSUME NEW u \in Users, u \notin UsersOf(r) PROVE Kept(h, u)
    <2>1. \A g \in Held(u) : g \in Grants /\ grant[g].role \in Roles /\ grant[g].role # r
      BY <1>6 DEF Held, UsersOf, IInv, TypeOK, UserRole
    <2>2. loadFromDb(u)' = loadFromDb(u)
      BY <1>1, <1>3, <2>1, LoadSame
    <2>3. ~Invalidates(work[h], u)
      BY <1>1 DEF Invalidates
    <2>4. \A q : u \in UsersOf(q) => u \in UsersOf(q)'
      BY <1>1 DEF UsersOf
    <2> QED
      BY <2>2, <2>3, <2>4 DEF Kept
  <1>7. /\ \A u \in Users \ excused' : ~Reads(w, u)
        /\ \A u \in Users \ excused' : u \in UsersOf(r) => Invalidates(w, u)'
        /\ \A u \in Users \ excused' : u \notin UsersOf(r) => Kept(h, u)
    BY <1>1, <1>2, <1>6 DEF Reads
  <1>8. /\ overlapped' = overlapped /\ excused \subseteq excused' /\ audit' = audit /\ cache' = cache
        /\ grant' \in [Grants -> UserRole \cup {None}] /\ NoNewGrant /\ Change(h, UsersOf(r), w)
    BY <1>1 DEF IInv, TypeOK, NoNewGrant
  <1>9. \A g \in Grants : grant[g] # None => grant'[g] # None /\ grant'[g].user = grant[g].user
    BY <1>1
  <1>10. Knows(w)'
    BY <1>2 DEF Knows, Asking
  <1> QED
    BY <1>2, <1>3, <1>4, <1>5, <1>7, <1>8, <1>9, <1>10, TablesInv

\* A permission is given to a role or taken from it: the entries of its users will be invalidated.
LEMMA ChangePairInv == ASSUME IInv, NEW h \in Handlers, changePair(h) PROVE IInv'
  <1>1. /\ work[h] \in Local /\ work[h].pc = "pair" /\ Knows(work[h])
        /\ work[h].role \in Roles /\ work[h].slug \in Slugs
        /\ UNCHANGED <<role, grant, cache, audit, excused, overlapped>>
    BY DEF changePair, At, IInv, TypeOK, KnowsOK, Knows
  <1>2. \A u \in Users : ~Invalidates(work[h], u)
    BY <1>1 DEF Invalidates
  <1>3. CASE role[work[h].role] = "absent"
    <2>1. End(h) /\ UNCHANGED rolePermission /\ audit' \in [Users -> AuditLog]
      BY <1>1, <1>3 DEF changePair, IInv, TypeOK
    <2> QED
      BY <1>1, <1>2, <2>1, EndInv
  <1>4. CASE role[work[h].role] # "absent"
    <2> PICK r \in Roles : r = work[h].role
      BY <1>1
    <2> PICK s \in Slugs : s = work[h].slug
      BY <1>1
    <2> PICK w : w = [work[h] EXCEPT !.pc = "users"]
      OBVIOUS
    <2>1. /\ Change(h, UsersOf(r), w)
          /\ \/ rolePermission' = rolePermission \cup {<<r, s>>}
             \/ rolePermission' = rolePermission \ {<<r, s>>}
      BY <1>4 DEF changePair
    <2>2. w \in Local /\ w.pc = "users" /\ w.op = work[h].op /\ w.role = r
      BY <1>1 DEF Local
    <2>3. Continues(w, work[h])
      BY <2>2 DEF Continues, Asking
    <2>4. Knows(w)'
      BY <1>1, <2>2 DEF Knows, Asking
    <2>5. rolePermission' \subseteq RolePermission'
      BY <1>1, <1>4, <2>1 DEF IInv, TypeOK, RolePermission
    <2>6. ASSUME NEW u \in Users, u \notin UsersOf(r) PROVE Kept(h, u)
      <3>1. \A g \in Held(u) : g \in Grants /\ grant[g].role # r
        BY <2>6 DEF Held, UsersOf
      <3>2. \A q, z : q # r => (<<q, z>> \in rolePermission' <=> <<q, z>> \in rolePermission)
        BY <2>1
      <3>3. loadFromDb(u)' = loadFromDb(u)
        BY <1>1, <3>1, <3>2, LoadSame
      <3>4. \A q : u \in UsersOf(q) => u \in UsersOf(q)'
        BY <1>1 DEF UsersOf
      <3> QED
        BY <1>2, <3>3, <3>4 DEF Kept
    <2>7. \A u \in UsersOf(r) : Invalidates(w, u)'
      BY <1>1, <2>2 DEF Invalidates, UsersOf
    <2>8. /\ \A u \in Users \ excused' : ~Reads(w, u)
          /\ \A u \in Users \ excused' : u \in UsersOf(r) => Invalidates(w, u)'
          /\ \A u \in Users \ excused' : u \notin UsersOf(r) => Kept(h, u)
      BY <2>2, <2>6, <2>7 DEF Reads
    <2>9. /\ overlapped' = overlapped /\ excused \subseteq excused' /\ audit' = audit /\ cache' = cache
          /\ role' \in [Roles -> RoleState] /\ grant' \in [Grants -> UserRole \cup {None}]
          /\ RowsOK' /\ NoNewGrant
      BY <1>1 DEF IInv, TypeOK, NoNewGrant, RowsOK
    <2>10. \A g \in Grants : grant[g] # None => grant'[g] # None /\ grant'[g].user = grant[g].user
      BY <1>1
    <2> QED
      BY <2>1, <2>2, <2>3, <2>4, <2>5, <2>8, <2>9, <2>10, TablesInv
  <1> QED
    BY <1>3, <1>4

\* The users of the role at that time are those to invalidate.
LEMMA InvalidateCacheForRoleInv ==
  ASSUME IInv, NEW h \in Handlers, invalidateCacheForRole(h)
  PROVE  IInv'
  <1>1. /\ work[h] \in Local /\ work[h].pc = "users"
        /\ UNCHANGED <<role, rolePermission, grant, cache, audit, excused, overlapped>>
        /\ audit' \in [Users -> AuditLog]
    BY DEF invalidateCacheForRole, At, Tables, IInv, TypeOK
  <1> PICK todo \in SUBSET Users : todo = UsersOf(work[h].role)
    BY UsersOfTyped DEF IInv
  <1> PICK w : w = [work[h] EXCEPT !.pc = "invalidate", !.todo = todo]
    OBVIOUS
  <1>2. work' = [work EXCEPT ![h] = w]
    BY DEF invalidateCacheForRole
  <1>3. w \in Local /\ w.pc = "invalidate" /\ w.op = work[h].op /\ w.role = work[h].role /\ w.todo = todo
    <2>1. w \in Local
      BY <1>1 DEF Local
    <2>2. w.pc = "invalidate" /\ w.op = work[h].op /\ w.role = work[h].role /\ w.todo = todo
      BY <1>1 DEF Local
    <2> QED
      BY <2>1, <2>2
  <1>4. Knows(w) /\ Continues(w, work[h])
    BY <1>1, <1>3 DEF IInv, KnowsOK, Knows, Continues, Asking
  <1>5. \A u \in Users : Invalidates(work[h], u) => Invalidates(w, u)
    BY <1>1, <1>3 DEF Invalidates
  <1> QED
    BY <1>1, <1>2, <1>3, <1>4, <1>5, GoOnInv

\* One entry goes, unless the command is lost; a reader that holds old permissions excuses the user.
LEMMA InvalidateCacheInv == ASSUME IInv, NEW h \in Handlers, invalidateCache(h) PROVE IInv'
  <1> PICK z \in work[h].todo, lost \in BOOLEAN :
        /\ work[h].pc = "invalidate"
        /\ cache' = IF lost THEN cache ELSE [cache EXCEPT ![z] = None]
        /\ excused' = IF lost \/ \E g \in Handlers : At(g, "fill") /\ work[g].user = z /\ work[g].moved
                      THEN excused \cup {z} ELSE excused
        /\ work' = [work EXCEPT ![h].todo = @ \ {z}]
        /\ UNCHANGED <<role, rolePermission, grant, audit, overlapped>>
    BY DEF invalidateCache, At, Tables
  <1>1. work[h] \in Local /\ work[h].todo \in SUBSET Users /\ z \in Users
    BY DEF IInv, TypeOK, Local
  <1> PICK todo \in SUBSET Users : todo = work[h].todo \ {z}
    BY <1>1
  <1> PICK w : w = [work[h] EXCEPT !.todo = todo]
    OBVIOUS
  <1>2. work' = [work EXCEPT ![h] = w]
    BY <1>1 DEF IInv, TypeOK
  <1>3. w \in Local /\ w.pc = "invalidate" /\ w.op = work[h].op /\ w.role = work[h].role /\ w.todo = todo
    BY <1>1 DEF Local
  <1>4. Knows(w) /\ Continues(w, work[h])
    BY <1>3 DEF IInv, KnowsOK, Knows, Continues, Asking
  <1>5. /\ cache' \in [Users -> EffectivePermissions \cup {None}] /\ audit' \in [Users -> AuditLog]
        /\ excused \subseteq excused'
    BY DEF IInv, TypeOK
  <1>6. ASSUME NEW u \in Users, u \notin excused' PROVE CacheOK(u)'
    <2>1. u \notin excused /\ CacheOK(u)
      BY <1>5, <1>6 DEF IInv, CachesOK
    <2>2. CASE u # z
      <3>1. Invalidates(work[h], u) => Invalidates(w, u)
        BY <1>3, <2>2 DEF Invalidates
      <3>2. ~Reads(w, u)
        BY <1>3 DEF Reads
      <3>3. cache'[u] = cache[u]
        BY <2>2
      <3> QED
        BY <1>2, <1>3, <2>1, <3>1, <3>2, <3>3, CalmCache
    <2>3. CASE u = z
      <3>1. ~lost /\ \A g \in Handlers : ~(work[g].pc = "fill" /\ work[g].user = u /\ work[g].moved)
        BY <1>6, <2>3 DEF At
      <3>2. cache'[u] = None
        BY <1>1, <2>3, <3>1 DEF IInv, TypeOK
      <3>3. /\ work'[h] = w /\ \A g \in Handlers : g # h => work'[g] = work[g]
            /\ loadFromDb(u)' = loadFromDb(u)
        BY <1>2, <1>3, AloneSteps, SameTables DEF IInv, Steps
      <3>4. ASSUME NEW g \in Handlers, Reads(work'[g], u) PROVE Fresh(work[g], u)'
        <4>1. work'[g] = work[g]
          BY <1>3, <3>3, <3>4 DEF Reads
        <4>2. Reads(work[g], u) /\ Fresh(work[g], u)
          BY <2>1, <3>4, <4>1 DEF CacheOK
        <4> QED
          BY <3>1, <3>3, <4>1, <4>2 DEF Fresh, Reads
      <3> QED
        BY <3>2, <3>4 DEF CacheOK, Reads
    <2> QED
      BY <2>2, <2>3
  <1>7. UNCHANGED <<role, rolePermission, grant, overlapped>>
    OBVIOUS
  <1> QED
    BY <1>2, <1>3, <1>4, <1>5, <1>6, <1>7, Calm

\* Nothing is left to invalidate.
LEMMA InvalidatedInv == ASSUME IInv, NEW h \in Handlers, Invalidated(h) PROVE IInv'
  <1>1. /\ work[h].pc = "invalidate" /\ work[h].todo = {} /\ End(h)
        /\ UNCHANGED <<role, rolePermission, grant, cache, audit, excused, overlapped>>
        /\ audit' \in [Users -> AuditLog]
    BY DEF Invalidated, At, Tables, IInv, TypeOK
  <1>2. \A u \in Users : ~Invalidates(work[h], u)
    BY <1>1 DEF Invalidates
  <1> QED
    BY <1>1, <1>2, EndInv

\* Those whom a request that dies was about to invalidate are excused.
LEMMA FailInv == ASSUME IInv, NEW h \in Handlers, Fail(h) PROVE IInv'
  <1>1. /\ End(h) /\ UNCHANGED <<role, rolePermission, grant, cache, audit, overlapped>>
        /\ audit' \in [Users -> AuditLog]
        /\ excused' = CASE work[h].pc = "invalidate" -> excused \cup work[h].todo
                        [] work[h].pc = "users" -> excused \cup UsersOf(work[h].role)
                        [] OTHER -> excused
    BY DEF Fail, At, Tables, IInv, TypeOK
  <1>2. excused \subseteq excused' /\ \A u \in Users \ excused' : ~Invalidates(work[h], u)
    BY <1>1 DEF Invalidates
  <1> QED
    BY <1>1, <1>2, EndInv

-----------------------------------------------------------------------------
(* What no request does *)

\* A step of no request that makes no grant active and touches nobody who is not excused.
LEMMA StillInv ==
  ASSUME IInv, UNCHANGED <<work, overlapped, audit>>, excused \subseteq excused',
         role' \in [Roles -> RoleState], rolePermission' \subseteq RolePermission',
         grant' \in [Grants -> UserRole \cup {None}],
         cache' \in [Users -> EffectivePermissions \cup {None}], RowsOK', NoNewGrant,
         \A g \in Grants : grant[g] # None =>
            /\ grant'[g] # None /\ grant'[g].user = grant[g].user
            /\ grant'[g].role = grant[g].role /\ grant'[g].isActive = grant[g].isActive,
         \A u \in Users \ excused' : loadFromDb(u)' = loadFromDb(u) /\ cache'[u] \in {None, cache[u]}
  PROVE  IInv'
  <1>1. TypeOK'
    BY DEF IInv, TypeOK
  <1>2. KnowsOK'
    <2> SUFFICES ASSUME NEW h \in Handlers PROVE Knows(work[h])'
      BY DEF KnowsOK
    <2>1. Knows(work[h])
      BY DEF IInv, KnowsOK
    <2> QED
      BY <2>1 DEF Knows
  <1>3. MissingOK'
    <2> SUFFICES ASSUME NEW h \in Handlers PROVE Missing(work[h])'
      BY DEF MissingOK
    <2>1. Missing(work[h])
      BY DEF IInv, MissingOK
    <2>2. \A g \in Grants : \A u, r, c : ActiveGrant(g, u, r, c)' => ActiveGrant(g, u, r, c)
      BY DEF ActiveGrant, NoNewGrant
    <2> QED
      BY <2>1, <2>2 DEF Missing
  <1>4. AloneOK'
    <2> SUFFICES ASSUME NEW h \in Handlers PROVE Alone(h)'
      BY DEF AloneOK
    <2>1. Alone(h)
      BY DEF IInv, AloneOK
    <2>2. \A g \in Grants : grant'[g] # None /\ grant'[g].isActive /\ grant'[g].bootstrap
                            => grant[g] # None /\ grant[g].isActive /\ grant[g].bootstrap
      BY DEF NoNewGrant
    <2> QED
      BY <2>1, <2>2 DEF Alone, AllOverlap
  <1>5. GrantedOnce'
    BY DEF IInv, GrantedOnce, NoNewGrant
  <1>6. ASSUME NEW u \in Users, u \notin excused' PROVE CacheOK(u)'
    <2>1. CacheOK(u) /\ loadFromDb(u)' = loadFromDb(u) /\ cache'[u] \in {None, cache[u]}
      BY <1>6 DEF IInv, CachesOK
    <2>2. \A r : u \in UsersOf(r) => u \in UsersOf(r)'
      BY DEF UsersOf
    <2>3. Awaited(u) => Awaited(u)'
      BY <2>2 DEF Awaited, Invalidates
    <2> QED
      BY <2>1, <2>3 DEF CacheOK, Fresh, Reads
  <1>7. CachesOK'
    BY <1>6 DEF CachesOK
  <1> QED
    BY <1>1, <1>2, <1>3, <1>4, <1>5, <1>7 DEF IInv

\* A new role is nobody's.
LEMMA CreateRoleInv == ASSUME IInv, NEW r \in Roles, createRole(r) PROVE IInv'
  <1>1. /\ role[r] = "absent" /\ role' = [role EXCEPT ![r] = "active"]
        /\ UNCHANGED <<rolePermission, grant, cache, audit, work, excused, overlapped>>
    BY DEF createRole
  <1>2. /\ role' \in [Roles -> RoleState] /\ role'[r] = "active"
        /\ \A q \in Roles : q # r => role'[q] = role[q]
    BY <1>1 DEF IInv, TypeOK, RoleState
  <1>3. \A g \in Grants : grant[g] # None => grant[g].role \in Roles /\ grant[g].role # r
    BY <1>1 DEF IInv, TypeOK, UserRole, RowsOK
  <1>4. rolePermission' \subseteq RolePermission'
    BY <1>1, <1>2 DEF IInv, TypeOK, RolePermission
  <1>5. RowsOK' /\ NoNewGrant
    BY <1>1, <1>2, <1>3 DEF IInv, RowsOK, NoNewGrant
  <1>6. \A u : loadFromDb(u)' = loadFromDb(u)
    <2>1. ASSUME NEW u PROVE loadFromDb(u)' = loadFromDb(u)
      <3>1. \A g \in Held(u) : g \in Grants /\ grant[g] # None
        BY DEF Held
      <3> QED
        BY <1>1, <1>2, <1>3, <3>1, LoadSame
    <2> QED
      BY <2>1
  <1>7. /\ grant' \in [Grants -> UserRole \cup {None}]
        /\ cache' \in [Users -> EffectivePermissions \cup {None}]
    BY <1>1 DEF IInv, TypeOK
  <1> QED
    BY <1>1, <1>2, <1>4, <1>5, <1>6, <1>7, StillInv

\* A role that goes has no row.
LEMMA DeleteRoleInv == ASSUME IInv, NEW r \in Roles, deleteRole(r) PROVE IInv'
  <1>1. /\ role' = [role EXCEPT ![r] = "absent"] /\ rolePermission' = {p \in rolePermission : p[1] # r}
        /\ \A g \in Grants : grant[g] # None => grant[g].role # r
        /\ UNCHANGED <<grant, cache, audit, work, excused, overlapped>>
    BY DEF deleteRole
  <1>2. /\ role' \in [Roles -> RoleState] /\ \A q \in Roles : q # r => role'[q] = role[q]
    BY <1>1 DEF IInv, TypeOK, RoleState
  <1>3. \A g \in Grants : grant[g] # None => grant[g].role \in Roles /\ grant[g].role # r
    BY <1>1 DEF IInv, TypeOK, UserRole
  <1>4. rolePermission' \subseteq RolePermission'
    BY <1>1, <1>2 DEF IInv, TypeOK, RolePermission
  <1>5. RowsOK' /\ NoNewGrant
    BY <1>1, <1>2, <1>3 DEF IInv, RowsOK, NoNewGrant
  <1>6. \A u : loadFromDb(u)' = loadFromDb(u)
    <2>1. ASSUME NEW u PROVE loadFromDb(u)' = loadFromDb(u)
      <3>1. \A g \in Held(u) : g \in Grants /\ grant[g] # None
        BY DEF Held
      <3>2. \A q, s : q # r => (<<q, s>> \in rolePermission' <=> <<q, s>> \in rolePermission)
        BY <1>1
      <3> QED
        BY <1>1, <1>2, <1>3, <3>1, <3>2, LoadSame
    <2> QED
      BY <2>1
  <1>7. /\ grant' \in [Grants -> UserRole \cup {None}]
        /\ cache' \in [Users -> EffectivePermissions \cup {None}]
    BY <1>1 DEF IInv, TypeOK
  <1> QED
    BY <1>1, <1>2, <1>4, <1>5, <1>6, <1>7, StillInv

\* An entry that expires is no entry.
LEMMA CacheExpiresInv == ASSUME IInv, NEW v \in Users, CacheExpires(v) PROVE IInv'
  <1>1. /\ cache' = [cache EXCEPT ![v] = None]
        /\ UNCHANGED <<role, rolePermission, grant, audit, work, excused, overlapped>>
    BY DEF CacheExpires, Tables
  <1>2. /\ cache' \in [Users -> EffectivePermissions \cup {None}]
        /\ \A u \in Users : cache'[u] \in {None, cache[u]}
    BY <1>1 DEF IInv, TypeOK
  <1>3. /\ role' \in [Roles -> RoleState] /\ rolePermission' \subseteq RolePermission'
        /\ grant' \in [Grants -> UserRole \cup {None}] /\ RowsOK' /\ NoNewGrant
    BY <1>1 DEF IInv, TypeOK, RolePermission, RowsOK, NoNewGrant
  <1>4. \A u : loadFromDb(u)' = loadFromDb(u)
    BY <1>1, SameTables
  <1> QED
    BY <1>1, <1>2, <1>3, <1>4, StillInv

\* A date that passes excuses its user.
LEMMA GrantExpiresInv == ASSUME IInv, NEW i \in Grants, GrantExpires(i) PROVE IInv'
  <1>1. /\ grant[i] # None /\ grant' = [grant EXCEPT ![i].expired = TRUE]
        /\ excused' = excused \cup {grant[i].user}
        /\ UNCHANGED <<role, rolePermission, cache, audit, work, overlapped>>
    BY DEF GrantExpires
  <1>2. grant[i] \in UserRole
    BY <1>1 DEF IInv, TypeOK
  <1> PICK row : row = [grant[i] EXCEPT !.expired = TRUE]
    OBVIOUS
  <1>3. /\ row \in UserRole /\ row.user = grant[i].user /\ row.isActive = grant[i].isActive
        /\ row.role = grant[i].role /\ row.city = grant[i].city /\ row.bootstrap = grant[i].bootstrap
    BY <1>2 DEF UserRole
  <1>4. row # None
    BY <1>3, NoneIsNoRow
  <1>5. /\ grant' \in [Grants -> UserRole \cup {None}] /\ grant'[i] = row
        /\ \A g \in Grants : g # i => grant'[g] = grant[g]
    BY <1>1, <1>3 DEF IInv, TypeOK
  <1>6. NoNewGrant
    BY <1>1, <1>3, <1>5 DEF NoNewGrant
  <1>7. RowsOK'
    <2> SUFFICES ASSUME NEW g \in Grants, grant'[g] # None
                 PROVE  /\ role'[grant'[g].role] # "absent"
                        /\ grant'[g].bootstrap => grant'[g].role = SuperAdmin
      BY DEF RowsOK
    <2>1. /\ grant[g] # None /\ grant'[g].role = grant[g].role
          /\ grant'[g].bootstrap = grant[g].bootstrap
      BY <1>1, <1>3, <1>5
    <2> QED
      BY <1>1, <2>1 DEF IInv, RowsOK
  <1>8. ASSUME NEW u, u # grant[i].user PROVE loadFromDb(u)' = loadFromDb(u)
    <2>1. \A g \in Grants : grant'[g] # None /\ grant'[g].user = u => g # i
      BY <1>3, <1>5, <1>8
    <2>2. \A g \in Grants : grant[g] # None /\ grant[g].user = u => g # i
      BY <1>8
    <2> QED
      BY <1>1, <1>5, <2>1, <2>2, LoadSame DEF Held
  <1>9. \A u \in Users \ excused' : loadFromDb(u)' = loadFromDb(u) /\ cache'[u] \in {None, cache[u]}
    BY <1>1, <1>8
  <1>10. \A g \in Grants : grant[g] # None =>
            /\ grant'[g] # None /\ grant'[g].user = grant[g].user
            /\ grant'[g].role = grant[g].role /\ grant'[g].isActive = grant[g].isActive
    BY <1>3, <1>4, <1>5
  <1>11. /\ role' \in [Roles -> RoleState] /\ rolePermission' \subseteq RolePermission'
         /\ cache' \in [Users -> EffectivePermissions \cup {None}] /\ excused \subseteq excused'
    BY <1>1 DEF IInv, TypeOK, RolePermission
  <1> QED
    BY <1>1, <1>5, <1>6, <1>7, <1>9, <1>10, <1>11, StillInv

-----------------------------------------------------------------------------
(* The theorems *)

\* The seed satisfies the invariant.
LEMMA InitInv == Init => IInv
  <1> SUFFICES ASSUME Init PROVE IInv
    OBVIOUS
  <1>1. \A h \in Handlers : work[h] = Idle
    BY DEF Init
  <1>2. \A g \in Grants : grant[g] = None
    BY DEF Init
  <1>3. TypeOK
    <2>1. role \in [Roles -> RoleState] /\ \A r \in SystemRoles : r \in Roles /\ role[r] = "active"
      BY RbacAssumption DEF Init, RbacAssumption, RoleState
    <2>2. rolePermission \subseteq RolePermission
      BY <2>1, RbacAssumption DEF Init, RbacAssumption, RolePermission
    <2>3. /\ grant \in [Grants -> UserRole \cup {None}] /\ audit \in [Users -> AuditLog]
          /\ cache \in [Users -> EffectivePermissions \cup {None}] /\ work \in [Handlers -> Local]
      BY IdleLocal DEF Init, AuditLog
    <2> QED
      BY <2>1, <2>2, <2>3 DEF TypeOK
  <1>4. KnowsOK
    BY <1>1, IdleLocal DEF KnowsOK
  <1>5. MissingOK /\ AloneOK
    BY <1>1, IdleLocal DEF MissingOK, AloneOK, Missing, Alone
  <1>6. RowsOK /\ GrantedOnce
    BY <1>2 DEF RowsOK, GrantedOnce
  <1>7. CachesOK
    <2>1. \A u \in Users : cache[u] = None
      BY DEF Init
    <2> QED
      BY <1>1, <2>1, IdleLocal DEF CachesOK, CacheOK
  <1> QED
    BY <1>3, <1>4, <1>5, <1>6, <1>7 DEF IInv

\* Every step keeps it.
LEMMA NextInv == ASSUME IInv, [Next]_vars PROVE IInv'
  <1>1. CASE UNCHANGED vars
    <2>1. UNCHANGED <<role, rolePermission, grant, cache, audit, work, excused, overlapped>>
      BY <1>1 DEF vars
    <2>2. \A u : loadFromDb(u)' = loadFromDb(u)
      BY <2>1, SameTables
    <2>3. RowsOK' /\ NoNewGrant /\ rolePermission' \subseteq RolePermission'
      BY <2>1 DEF IInv, TypeOK, RolePermission, RowsOK, NoNewGrant
    <2>4. /\ role' \in [Roles -> RoleState] /\ grant' \in [Grants -> UserRole \cup {None}]
          /\ cache' \in [Users -> EffectivePermissions \cup {None}]
      BY <2>1 DEF IInv, TypeOK
    <2> QED
      BY <2>1, <2>2, <2>3, <2>4, StillInv
  <1>2. ASSUME NEW h \in Handlers, NEW u \in Users,
               \/ request(h, u) \/ assign(h, u) \/ bootstrapSuperAdmin(h, u) \/ adminAssignRole(h, u)
        PROVE  IInv'
    BY <1>2, RequestInv, AssignInv, BootstrapInv, AdminAssignInv
  <1>3. ASSUME NEW h \in Handlers,
               \/ \E g \in Grants : revoke(h, g)
               \/ \E r \in Roles : updateRole(h, r)
        PROVE  IInv'
    BY <1>3, RevokeInv, UpdateRoleInv
  <1>4. ASSUME NEW h \in Handlers,
               \/ getEffectivePermissions(h) \/ load(h) \/ fill(h) \/ canActivate(h)
               \/ assignRole(h) \/ findExisting(h) \/ insertGrant(h) \/ revokeRole(h)
        PROVE  IInv'
    BY <1>4, GetInv, LoadInv, FillInv, CanActivateInv, AssignRoleInv, FindExistingInv,
       InsertGrantInv, RevokeRoleInv
  <1>5. ASSUME NEW h \in Handlers,
               \/ changePermissions(h) \/ changePair(h)
               \/ invalidateCacheForRole(h) \/ invalidateCache(h) \/ Invalidated(h)
               \/ Fail(h)
        PROVE  IInv'
    BY <1>5, ChangePermissionsInv, ChangePairInv, InvalidateCacheForRoleInv, InvalidateCacheInv,
       InvalidatedInv, FailInv
  <1>6. ASSUME \/ \E r \in Roles : createRole(r) \/ deleteRole(r)
               \/ \E u \in Users : CacheExpires(u)
               \/ \E g \in Grants : GrantExpires(g)
        PROVE  IInv'
    BY <1>6, CreateRoleInv, DeleteRoleInv, CacheExpiresInv, GrantExpiresInv
  <1> QED
    BY <1>1, <1>2, <1>3, <1>4, <1>5, <1>6 DEF Next

\* The invariant holds of every reachable state.
THEOREM Invariance == Spec => []IInv
  BY InitInv, NextInv, PTL DEF Spec

\* The tables, the cache, the decisions and the local states of the requests keep their types.
THEOREM TypeCorrect == Spec => []TypeOK
  <1>1. IInv => TypeOK
    BY DEF IInv
  <1> QED
    BY <1>1, Invariance, PTL

\* A cached entry, and what a guard is about to decide with, is what the tables say, but for
\* the users the history excuses.
THEOREM CacheAgreesTheorem == Spec => []CacheAgrees
  <1>1. IInv => CacheAgrees
    <2> SUFFICES ASSUME IInv, NEW u \in Users \ excused, \A h \in Handlers : ~Pending(h, u)
                 PROVE  /\ cache[u] \in {None, loadFromDb(u)}
                        /\ \A h \in Handlers :
                             At(h, "use") /\ work[h].user = u /\ ~work[h].moved
                                => work[h].perms = loadFromDb(u)
      BY DEF CacheAgrees
    <2>1. ~Awaited(u)
      BY DEF Awaited, Invalidates, Pending, At
    <2>2. CacheOK(u)
      BY DEF IInv, CachesOK
    <2> QED
      BY <2>1, <2>2 DEF CacheOK, Reads, Fresh, At
  <1> QED
    BY <1>1, Invariance, PTL

\* Two active rows of a user, a role and a city, or of two bootstraps, come from requests that
\* overlapped.
THEOREM GrantedOnceTheorem == Spec => []GrantedOnce
  <1>1. IInv => GrantedOnce
    BY DEF IInv
  <1> QED
    BY <1>1, Invariance, PTL
=============================================================================
