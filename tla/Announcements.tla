---------------------------- MODULE Announcements ----------------------------
(***************************************************************************)
(* System announcements: the operations of the administrators, the two     *)
(* crons, and the broadcast a publication starts in the background.        *)
(*                                                                         *)
(* Every operation reads the row, checks it, and later saves the entity it *)
(* read: save() rewrites each column that differs from the row it finds,   *)
(* the soft-delete mark included, so a save is the write of a whole row.   *)
(* Titles, contents, links and media of an announcement are left out, and  *)
(* so is the journal, which nothing reads back: an insert that fails there *)
(* is logged.  Scope and city are one field: a city, or Global.            *)
(***************************************************************************)
EXTENDS Integers, FiniteSets

CONSTANTS
    Anns,           \* the ids an announcement can get
    Drafts,         \* the drafts already in the table
    Cities,
    Global,         \* the scope of an announcement to every city
    Admins,
    AdminCity,      \* the city of a city_admin, Global for the other roles
    Managers,       \* the administrators with PERM_ANNOUNCEMENTS_MANAGE
    Users,
    UserCity,       \* the city of each user
    Handlers,       \* requests that can run at the same time
    Crons,          \* runs of publishScheduled that can overlap
    MaxBroadcasts,  \* bound of the broadcasts
    BatchSize,      \* users read at a time (500 in the code)
    MaxTime,        \* bound of the clock
    MaxRequests,    \* bound of the requests of administrators
    MaxFaults,      \* bound of the crashes and failing calls
    None            \* SQL NULL

ASSUME AnnouncementsAssumption ==
    /\ Drafts \subseteq Anns
    /\ Global \notin Cities /\ None \notin Anns \cup Nat
    /\ AdminCity \in [Admins -> Cities \cup {Global}] /\ Managers \subseteq Admins
    /\ IsFiniteSet(Users) /\ UserCity \in [Users -> Cities]
    /\ BatchSize \in Nat \ {0} /\ MaxTime \in Nat /\ MaxRequests \in Nat
    /\ MaxFaults \in Nat /\ MaxBroadcasts \in Nat

VARIABLES
    ann,            \* the table of announcements
    reads,          \* the read receipts
    broadcast,      \* the table of broadcasts, with the place of the loop
    work,           \* the local state of each request and of each cron
    active,         \* the users with status ACTIVE
    now,
    requests,       \* requests begun, bounded by MaxRequests
    faults          \* crashes and failures, bounded by MaxFaults

vars == <<ann, reads, broadcast, work, active, now, requests, faults>>

Statuses == {"draft", "scheduled", "published", "archived"}
Times == 1..MaxTime
Broadcasts == 1..MaxBroadcasts

Row == [status : Statuses, scope : Cities \cup {Global}, scheduledAt : Times \cup {None},
        expiresAt : Times \cup {None}, broadcastId : Broadcasts \cup {None}, deleted : BOOLEAN]
Absent == [status |-> "absent", scope |-> Global, scheduledAt |-> None,
           expiresAt |-> None, broadcastId |-> None, deleted |-> FALSE]

Actions == {"created", "updated", "scheduled", "published", "archived",
                 "deleted", "duplicated", "republished"}

\* The row of a broadcast, the place of its loop (more: there may be another
\* page; page, thrown: the users in hand, and whether their jobs failed), and
\* three histories: the users with all their jobs, those with some of the jobs
\* of a batch that failed, and whether users came or left since the start.
Broadcast == [ann : Anns \cup {None}, scope : Cities \cup {Global},
              status : {"pending", "processing", "completed", "failed"},
              total : Nat, sent : Nat, failed : Nat,
              run : {"waiting", "start", "fetch", "count", "ended", "lost"},
              more : BOOLEAN, offset : Nat, page : SUBSET Users, thrown : BOOLEAN,
              queued : SUBSET Users, partly : SUBSET Users, moved : BOOLEAN]
NoBroadcast == [status |-> "absent"]

\* The rows a cron has read and not yet published.
Todo == UNION {[S -> Row] : S \in SUBSET Anns}

Local == [pc : {"idle", "send", "save", "remove", "next"},
          action : Actions \cup {"none"}, ann : Anns \cup {None},
          base : Row \cup {Absent}, row : Row \cup {Absent},
          todo : Todo]
NothingTodo == [a \in {} |-> Absent]
Idle == [pc |-> "idle", action |-> "none", ann |-> None,
         base |-> Absent, row |-> Absent, todo |-> NothingTodo]

-----------------------------------------------------------------------------
(* The routes, and the checks every operation shares. *)

ManageRoutes == {"created", "updated", "published", "archived", "deleted"}
LifeCycleRoutes == {"scheduled", "republished", "duplicated"}

RequirePermission(who, action) ==
    action \in ManageRoutes \cup LifeCycleRoutes => who \in Managers

Found(a) == ann[a].status # "absent" /\ ~ann[a].deleted

assertAdminCityAccess(who, scope) ==
    AdminCity[who] = Global \/ scope = AdminCity[who]

\* A request of who begins with the row of a in hand and goes on with row.
Begin(h, pc, action, a, who, row) ==
    /\ work[h] = Idle /\ requests < MaxRequests
    /\ RequirePermission(who, action)
    /\ requests' = requests + 1
    /\ work' = [work EXCEPT ![h] = [pc |-> pc, action |-> action, ann |-> a,
                                    base |-> ann[a], row |-> row, todo |-> NothingTodo]]
    /\ UNCHANGED <<ann, reads, broadcast, active, now, faults>>

Future == {t \in Times : t > now}

\* UpdateAnnouncementDto has the same fields, each optional.
CreateAnnouncementDto ==
    [scope : Cities \cup {Global}, scheduledAt : Times \cup {None}, expiresAt : Times \cup {None}]

-----------------------------------------------------------------------------
(* The operations of the administrators, up to the await of their write. *)

create(h, who) ==
    \E a \in Anns, dto \in CreateAnnouncementDto :
        /\ ann[a] = Absent
        /\ assertAdminCityAccess(who, dto.scope)
        /\ dto.scheduledAt \in Future \cup {None}
        /\ Begin(h, "save", "created", a, who,
                 [status |-> IF dto.scheduledAt = None THEN "draft" ELSE "scheduled",
                  scope |-> dto.scope, scheduledAt |-> dto.scheduledAt,
                  expiresAt |-> dto.expiresAt, broadcastId |-> None, deleted |-> FALSE])

\* A city announcement cannot be made global: its city stays in the DTO's place.
update(h, a, who) ==
    \E dto \in CreateAnnouncementDto :
        LET r == ann[a]
            at == dto.scheduledAt
        IN  /\ Found(a) /\ r.status # "archived"
            /\ dto.scope = Global => r.scope = Global
            /\ assertAdminCityAccess(who, dto.scope)
            /\ at \in Future \cup {None}
            /\ Begin(h, "save", "updated", a, who,
                     [r EXCEPT !.scope = dto.scope,
                               !.scheduledAt = IF at = None THEN @ ELSE at,
                               !.expiresAt = IF dto.expiresAt = None THEN @ ELSE dto.expiresAt,
                               !.status = IF at # None /\ @ = "draft" THEN "scheduled" ELSE @])

schedule(h, a, who) ==
    \E at \in Future :
        /\ Found(a) /\ ann[a].status \in {"draft", "scheduled"}
        /\ assertAdminCityAccess(who, ann[a].scope)
        /\ Begin(h, "save", "scheduled", a, who,
                 [ann[a] EXCEPT !.scheduledAt = at, !.status = "scheduled"])

\* Mutant: an announcement is published whatever its status.
publishUnchecked(h, a, who) ==
    /\ Found(a)
    /\ assertAdminCityAccess(who, ann[a].scope)
    /\ Begin(h, "send", "published", a, who, ann[a])

publish(h, a, who) ==
    /\ Found(a) /\ ann[a].status \in {"draft", "scheduled"}
    /\ assertAdminCityAccess(who, ann[a].scope)
    /\ Begin(h, "send", "published", a, who, ann[a])

archive(h, a, who) ==
    /\ Found(a) /\ ann[a].status # "archived"
    /\ Begin(h, "save", "archived", a, who, [ann[a] EXCEPT !.status = "archived"])

republish(h, a, who) ==
    /\ Found(a) /\ ann[a].status = "archived"
    /\ assertAdminCityAccess(who, ann[a].scope)
    /\ Begin(h, "save", "republished", a, who,
             [ann[a] EXCEPT !.status = "draft", !.broadcastId = None, !.scheduledAt = None])

duplicate(h, a, who) ==
    \E clone \in Anns :
        /\ Found(a) /\ ann[clone] = Absent
        /\ assertAdminCityAccess(who, ann[a].scope)
        /\ Begin(h, "save", "duplicated", clone, who,
                 [ann[a] EXCEPT !.status = "draft", !.expiresAt = None, !.scheduledAt = None,
                                !.broadcastId = None])

remove(h, a, who) ==
    /\ Found(a) /\ ann[a].status # "published"
    /\ Begin(h, "remove", "deleted", a, who, ann[a])

-----------------------------------------------------------------------------
(* The writes: an insert takes an id nobody took meanwhile. *)

IsInsert(h) == work[h].action \in {"created", "duplicated"}

\* Mutant: the cron goes on after its last row.
RestForEver(w) == [w EXCEPT !.pc = "next"]

\* A request ends with its write, or when it throws; a cron goes on with what it
\* has read and not yet published.
Rest(w) ==
    IF DOMAIN w.todo = {} THEN Idle ELSE [w EXCEPT !.pc = "next"]

Save(h) ==
    LET w == work[h] IN
    /\ w.pc = "save"
    /\ IsInsert(h) => ann[w.ann] = Absent
    /\ ann' = [ann EXCEPT ![w.ann] = w.row]
    /\ work' = [work EXCEPT ![h] = Rest(@)]
    /\ UNCHANGED <<reads, broadcast, active, now, requests, faults>>

\* softRemove() writes the mark and no other column.
SoftRemove(h) ==
    LET w == work[h] IN
    /\ w.pc = "remove"
    /\ ann' = [ann EXCEPT ![w.ann].deleted = TRUE]
    /\ work' = [work EXCEPT ![h] = Rest(@)]
    /\ UNCHANGED <<reads, broadcast, active, now, requests, faults>>

-----------------------------------------------------------------------------
(* BroadcastService.send and its loop. *)

NewBroadcast(a, scope, later) ==
    [ann |-> a, scope |-> scope, status |-> "pending", total |-> 0, sent |-> 0, failed |-> 0,
     run |-> IF later THEN "waiting" ELSE "start", more |-> TRUE, offset |-> 0,
     page |-> {}, thrown |-> FALSE, queued |-> {}, partly |-> {}, moved |-> FALSE]

\* The id of the next broadcast.
NextId == {b \in Broadcasts : broadcast[b] = NoBroadcast /\ \A x \in 1..b-1 : broadcast[x] # NoBroadcast}

\* Mutant: the row is saved as published before the broadcast is sent.
SendAfterSave(h) ==
    LET w == work[h] IN
    /\ w.pc = "send"
    /\ ann' = [ann EXCEPT ![w.ann] = [w.row EXCEPT !.status = "published"]]
    /\ work' = [work EXCEPT ![h] = Rest(@)]
    /\ UNCHANGED <<reads, broadcast, active, now, requests, faults>>

\* doBroadcastAndPublish sends before it saves.
Send(h) ==
    \E b \in NextId :
        LET w == work[h] IN
        /\ w.pc = "send"
        /\ broadcast' = [broadcast EXCEPT ![b] = NewBroadcast(w.ann, w.row.scope, FALSE)]
        /\ work' = [work EXCEPT ![h].pc = "save",
                                ![h].row = [@ EXCEPT !.status = "published", !.broadcastId = b]]
        /\ UNCHANGED <<ann, reads, active, now, requests, faults>>

\* The endpoint of the notifications module: no announcement, and perhaps a
\* time in the future, for which nothing in the repository comes back.
BroadcastNotificationDto == [targetCityId : Cities \cup {Global}, later : BOOLEAN]

broadcastNow ==
    \E b \in NextId, dto \in BroadcastNotificationDto :
        /\ requests < MaxRequests
        /\ requests' = requests + 1
        /\ broadcast' = [broadcast EXCEPT ![b] = NewBroadcast(None, dto.targetCityId, dto.later)]
        /\ UNCHANGED <<ann, reads, work, active, now, faults>>

\* The users a broadcast selects; the role is left out.
Audience(scope) == {u \in active : scope = Global \/ UserCity[u] = scope}

\* LIMIT and OFFSET without an order: the size of a page is sure, not its users,
\* so that two pages may share some and both leave out others.
fetchUsersBatch(b) ==
    LET all == Audience(broadcast[b].scope)
        left == Cardinality(all) - broadcast[b].offset
        size == IF left < 0 THEN 0 ELSE IF left < BatchSize THEN left ELSE BatchSize
    IN  {page \in SUBSET all : Cardinality(page) = size}

Running == {"start", "fetch", "count"}

At(b, run) == broadcast[b] # NoBroadcast /\ broadcast[b].run = run

BroadcastStep(b, new) ==
    /\ broadcast' = [broadcast EXCEPT ![b] = new]
    /\ UNCHANGED <<ann, reads, work, active, now, requests>>

\* When this first update throws, or the one of the catch clause, nothing
\* handles the rejection and the process ends: that is Crash.
executeBroadcast(b) ==
    /\ At(b, "start")
    /\ BroadcastStep(b, [broadcast[b] EXCEPT !.status = "processing", !.run = "fetch"])
    /\ UNCHANGED faults

\* One page goes to enqueueBulk, which takes one channel after the other: when
\* it throws, the channels before may have their jobs, or rows and no job.
Batch(b, fails, some) ==
    /\ At(b, "fetch") /\ broadcast[b].more
    /\ \E page \in fetchUsersBatch(b) \ {{}} :
        /\ fails => faults < MaxFaults
        /\ some => fails
        /\ faults' = IF fails THEN faults + 1 ELSE faults
        /\ BroadcastStep(b, [broadcast[b] EXCEPT
                !.run = "count", !.offset = @ + BatchSize, !.page = page, !.thrown = fails,
                !.queued = IF fails THEN @ ELSE @ \cup page,
                !.partly = IF some THEN @ \cup page ELSE @])

\* Mutant: the page is added to sent before its jobs are, and to failed as well
\* when they throw.
RecordSentFirst(b) ==
    LET r == broadcast[b]
        n == Cardinality(r.page)
    IN  /\ At(b, "count")
        /\ BroadcastStep(b, [r EXCEPT
                !.total = @ + n, !.sent = @ + n,
                !.failed = IF r.thrown THEN @ + n ELSE @, !.more = (n = BatchSize),
                !.run = "fetch", !.page = {}, !.thrown = FALSE])
        /\ UNCHANGED faults

\* The page is counted as sent or as failed; a short page is the last.
Record(b) ==
    LET r == broadcast[b]
        n == Cardinality(r.page)
    IN  /\ At(b, "count")
        /\ BroadcastStep(b, [r EXCEPT
                !.total = @ + n, !.sent = IF r.thrown THEN @ ELSE @ + n,
                !.failed = IF r.thrown THEN @ + n ELSE @, !.more = (n = BatchSize),
                !.run = "fetch", !.page = {}, !.thrown = FALSE])
        /\ UNCHANGED faults

\* The loop ends on an empty page or after a short one.
Complete(b) ==
    /\ At(b, "fetch")
    /\ broadcast[b].more => {} \in fetchUsersBatch(b)
    /\ BroadcastStep(b, [broadcast[b] EXCEPT !.status = "completed", !.run = "ended"])
    /\ UNCHANGED faults

\* A query of the loop throws, outside enqueueBulk.
BroadcastFails(b) ==
    /\ faults < MaxFaults
    /\ At(b, "fetch") \/ At(b, "count")
    /\ BroadcastStep(b, [broadcast[b] EXCEPT !.status = "failed", !.run = "ended"])
    /\ faults' = faults + 1

-----------------------------------------------------------------------------
(* The crons. *)

Due(r) == r.status = "scheduled" /\ ~r.deleted /\ r.scheduledAt # None /\ r.scheduledAt <= now

\* Mutant: the cron takes the rows whose time is past, not those of this minute.
publishScheduledLate(c) ==
    LET due == {a \in Anns : Due(ann[a]) /\ ann[a].scheduledAt < now} IN
    /\ work[c] = Idle /\ due # {}
    /\ work' = [work EXCEPT ![c].pc = "next", ![c].todo = [a \in due |-> ann[a]]]
    /\ UNCHANGED <<ann, reads, broadcast, active, now, requests, faults>>

publishScheduled(c) ==
    LET due == {a \in Anns : Due(ann[a])} IN
    /\ work[c] = Idle /\ due # {}
    /\ work' = [work EXCEPT ![c].pc = "next", ![c].todo = [a \in due |-> ann[a]]]
    /\ UNCHANGED <<ann, reads, broadcast, active, now, requests, faults>>

\* The loop takes the next row it read, however old the reading is.
PublishNext(c) ==
    \E a \in DOMAIN work[c].todo :
        LET row == work[c].todo[a] IN
        /\ work[c].pc = "next"
        /\ work' = [work EXCEPT ![c] =
                [pc |-> "send", action |-> "published", ann |-> a,
                 base |-> row, row |-> row,
                 todo |-> [x \in DOMAIN @.todo \ {a} |-> @.todo[x]]]]
        /\ UNCHANGED <<ann, reads, broadcast, active, now, requests, faults>>

\* A call throws: a request ends, the cron goes on with the next row.
Throw(h) ==
    /\ work[h].pc \in {"send", "save", "remove"} /\ faults < MaxFaults
    /\ faults' = faults + 1
    /\ work' = [work EXCEPT ![h] = Rest(@)]
    /\ UNCHANGED <<ann, reads, broadcast, active, now, requests>>

\* One conditional update: the only write that does not come from an old row.
\* An update, unlike a select, does not leave out the rows marked deleted.
expireOutdated ==
    LET out == {a \in Anns : ann[a].status = "published"
                             /\ ann[a].expiresAt # None /\ ann[a].expiresAt <= now} IN
    /\ out # {}
    /\ ann' = [a \in Anns |-> IF a \in out THEN [ann[a] EXCEPT !.status = "archived"] ELSE ann[a]]
    /\ UNCHANGED <<reads, broadcast, work, active, now, requests, faults>>

-----------------------------------------------------------------------------
(* The users, the clock and the faults. *)

\* What a user of city c is shown.
findActiveForCity(c) ==
    {a \in Anns : /\ ann[a].status = "published" /\ ~ann[a].deleted
                  /\ ann[a].expiresAt = None \/ ann[a].expiresAt > now
                  /\ ann[a].scope \in {Global, c}}

\* The unique key keeps one receipt for a user and an announcement.
markAsRead(u, a) ==
    /\ Found(a) /\ <<u, a>> \notin reads /\ requests < MaxRequests
    /\ reads' = reads \cup {<<u, a>>}
    /\ requests' = requests + 1
    /\ UNCHANGED <<ann, broadcast, work, active, now, faults>>

\* The users module suspends or activates a user.
SetActive(u) ==
    /\ requests < MaxRequests
    /\ active' = IF u \in active THEN active \ {u} ELSE active \cup {u}
    /\ requests' = requests + 1
    /\ broadcast' = [b \in Broadcasts |->
            IF broadcast[b] # NoBroadcast THEN [broadcast[b] EXCEPT !.moved = TRUE]
            ELSE broadcast[b]]
    /\ UNCHANGED <<ann, reads, work, now, faults>>

Tick ==
    /\ now < MaxTime
    /\ now' = now + 1
    /\ UNCHANGED <<ann, reads, broadcast, work, active, requests, faults>>

\* The process dies with every request, cron and loop that runs in it.
Crash ==
    /\ faults < MaxFaults
    /\ faults' = faults + 1
    /\ work' = [h \in Handlers \cup Crons |-> Idle]
    /\ broadcast' = [b \in Broadcasts |->
            IF broadcast[b] # NoBroadcast /\ broadcast[b].run \in Running
            THEN [broadcast[b] EXCEPT !.run = "lost"] ELSE broadcast[b]]
    /\ UNCHANGED <<ann, reads, active, now, requests>>

-----------------------------------------------------------------------------

Init ==
    /\ ann = [a \in Anns |-> IF a \in Drafts THEN [Absent EXCEPT !.status = "draft"] ELSE Absent]
    /\ reads = {}
    /\ broadcast = [b \in Broadcasts |-> NoBroadcast]
    /\ work = [h \in Handlers \cup Crons |-> Idle]
    /\ active = Users
    /\ now = 0 /\ requests = 0 /\ faults = 0

AdminRequest(h, who) ==
    \/ create(h, who)
    \/ \E a \in Anns :
        \/ update(h, a, who) \/ schedule(h, a, who) \/ publish(h, a, who)
        \/ archive(h, a, who) \/ republish(h, a, who) \/ duplicate(h, a, who)
        \/ remove(h, a, who)

Continue(h) == Send(h) \/ Save(h) \/ SoftRemove(h)

BroadcastLoop(b) == executeBroadcast(b) \/ Batch(b, FALSE, FALSE) \/ Record(b) \/ Complete(b)

BroadcastFaults(b) == BroadcastFails(b) \/ \E some \in BOOLEAN : Batch(b, TRUE, some)

Next ==
    \/ \E h \in Handlers, who \in Admins : AdminRequest(h, who)
    \/ broadcastNow
    \/ \E h \in Handlers \cup Crons : Continue(h) \/ Throw(h)
    \/ \E c \in Crons : publishScheduled(c) \/ PublishNext(c)
    \/ expireOutdated
    \/ \E b \in Broadcasts : BroadcastLoop(b) \/ BroadcastFaults(b)
    \/ \E u \in Users, a \in Anns : markAsRead(u, a)
    \/ \E u \in Users : SetActive(u)
    \/ Tick \/ Crash

CronStep(c) == publishScheduled(c) \/ PublishNext(c) \/ Continue(c)

\* The cron runs for ever, and its calls return or throw.
Fairness == \A c \in Crons : WF_vars(CronStep(c))

Spec == Init /\ [][Next]_vars /\ Fairness

-----------------------------------------------------------------------------
(* Properties *)

\* The rows, the broadcasts and the requests keep their types.
TypeOK ==
    /\ ann \in [Anns -> Row \cup {Absent}]
    /\ reads \subseteq Users \X Anns
    /\ broadcast \in [Broadcasts -> Broadcast \cup {NoBroadcast}]
    /\ work \in [Handlers \cup Crons -> Local]
    /\ \A h \in Handlers \cup Crons :
            /\ work[h].pc = "next" => DOMAIN work[h].todo # {}
            /\ work[h].pc = "idle" <=> work[h] = Idle
    /\ active \subseteq Users /\ now \in 0..MaxTime
    /\ requests \in 0..MaxRequests /\ faults \in 0..MaxFaults

\* The life cycle the entity documents, and what the routes add to it: a draft or
\* a scheduled announcement is archived, and an archived one is a draft again.
Documented == {<<"draft", "scheduled">>, <<"draft", "published">>,
               <<"scheduled", "published">>, <<"published", "archived">>}
Undocumented == {<<"draft", "archived">>, <<"scheduled", "archived">>, <<"archived", "draft">>}
LifeCycle == Documented \cup Undocumented \cup {<<s, s>> : s \in Statuses}

StaleSave(a) == \E h \in Handlers \cup Crons :
    /\ work[h].pc = "save" /\ work[h].ann = a /\ work'[h] # work[h]
    /\ work[h].base # ann[a]

\* An announcement leaves its life cycle (a published one becomes a draft or
\* scheduled again, a deleted one comes back) only when a request or a cron
\* saves a row that another one changed after it was read.
LifeCycleObeyedUnlessStale ==
    [][\A a \in Anns : ann'[a] # ann[a] =>
        \/ ann[a] = Absent /\ ann'[a].status \in {"draft", "scheduled"}
        \/ /\ <<ann[a].status, ann'[a].status>> \in LifeCycle
           /\ ann[a].deleted => ann'[a].deleted
        \/ StaleSave(a)]_vars

\* What the feed of a city shows was broadcast: whatever crashes, fails or
\* overlaps, a published announcement names a broadcast that is its own.
VisibleWasBroadcast ==
    \A c \in Cities : \A a \in findActiveForCity(c) :
        \E b \in Broadcasts : /\ ann[a].broadcastId = b
                              /\ broadcast[b] # NoBroadcast /\ broadcast[b].ann = a

\* The counters of a broadcast: sent and failed make the total; whoever has all
\* jobs is within sent and whoever has any within the total, up to the page in
\* hand; one that completed has as many as its audience unless users came or left,
\* though not each user once.  One that has not ended runs, or waits for a date,
\* or lost its process.
BroadcastAccounted ==
    \A b \in Broadcasts : broadcast[b] # NoBroadcast =>
        LET r == broadcast[b]
            ahead == IF r.status = "completed" THEN 0 ELSE BatchSize
        IN
        /\ r.sent + r.failed = r.total
        /\ Cardinality(r.queued) <= r.sent + ahead
        /\ Cardinality(r.queued \cup r.partly) <= r.total + ahead
        /\ r.status = "completed" /\ ~r.moved => r.total = Cardinality(Audience(r.scope))
        /\ r.status \in {"pending", "processing"} <=> r.run # "ended"

\* An announcement whose time has come does not stay scheduled: it is published
\* by the cron, or published, archived, deleted or moved by an administrator.
DueLeaves ==
    \A a \in Anns : Due(ann[a]) ~> ~Due(ann[a])

-----------------------------------------------------------------------------
(* What the repository says and the code does not keep. *)

\* The life cycle of the entity, which ends with "PUBLISHED -> ARCHIVED", and
\* "Irréversible via API" of the archive: nothing else moves an announcement.
DocumentedLifeCycle ==
    [][\A a \in Anns : ann[a] # Absent /\ ann'[a].status # ann[a].status =>
        <<ann[a].status, ann'[a].status>> \in Documented]_vars

\* "Masque l'annonce du fil utilisateur": an archived announcement is not shown
\* again by the cron.
ArchivedStaysHidden ==
    [][\A a \in Anns : ann[a].status = "archived" => ann'[a].status # "published"]_vars

\* "Idempotentes : exécuter deux fois = même résultat": with a single request of
\* an administrator, hence no republication, the cron broadcasts once.
BroadcastOnce ==
    requests <= 1 => \A a \in Anns :
        Cardinality({b \in Broadcasts : broadcast[b] # NoBroadcast /\ broadcast[b].ann = a}) <= 1

\* "Nombre total de destinataires identifiés": when no call failed and no user
\* came or left, a completed broadcast gave its jobs to its whole audience.
RecipientsIdentified ==
    \A b \in Broadcasts : broadcast[b] # NoBroadcast =>
        LET r == broadcast[b] IN
        r.status = "completed" /\ r.failed = 0 /\ ~r.moved => r.queued = Audience(r.scope)
=============================================================================
