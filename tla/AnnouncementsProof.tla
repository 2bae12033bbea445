------------------------- MODULE AnnouncementsProof -------------------------
(***************************************************************************)
(* Proofs about Announcements for every set of announcements, cities,      *)
(* administrators, users, requests and crons: typing, what is shown was    *)
(* broadcast, only the saves of old rows leave the life cycle, and a       *)
(* broadcast accounts for its audience.                                    *)
(***************************************************************************)
EXTENDS Announcements, FiniteSetTheorems, TLAPS

Workers == Handlers \cup Crons

\* A row names a broadcast that is its own.
Own(r, a) ==
    \E b \in Broadcasts : r.broadcastId = b /\ broadcast[b] # NoBroadcast /\ broadcast[b].ann = a

\* A row that is published, and one about to be saved as published, was broadcast.
RowsBacked == \A a \in Anns : ann[a].status = "published" => Own(ann[a], a)

SavesBacked ==
    \A h \in Workers : work[h].pc = "save" /\ work[h].row.status = "published" =>
        Own(work[h].row, work[h].ann)

\* A save follows the life cycle from the row it was computed from.
Legal(base, row) ==
    \/ base = Absent /\ row.status \in {"draft", "scheduled"}
    \/ base.status # "absent" /\ ~base.deleted /\ <<base.status, row.status>> \in LifeCycle

Publishable(r) == r.status \in {"draft", "scheduled"} /\ ~r.deleted

WorkOK ==
    \A h \in Workers :
        LET w == work[h] IN
        /\ w.pc \in {"send", "save", "remove"} => w.ann \in Anns /\ w.row \in Row
        /\ w.pc = "send" => w.row = w.base /\ Publishable(w.base)
        /\ w.pc = "save" => Legal(w.base, w.row)
        /\ w.pc = "remove" => ann[w.ann].status # "absent"
        /\ \A a \in DOMAIN w.todo : Publishable(w.todo[a])

IInv == TypeOK /\ RowsBacked /\ SavesBacked /\ WorkOK

-----------------------------------------------------------------------------

\* The rows a cron may hold.
LEMMA TodoTyped ==
  /\ \A S \in SUBSET Anns : \A f \in [S -> Row] : f \in Todo
  /\ \A f \in Todo : DOMAIN f \subseteq Anns /\ f \in [DOMAIN f -> Row]
  BY DEF Todo

\* A row is not the absent one, and the local states at rest are typed.
LEMMA Facts ==
  /\ \A r \in Row : r.status # "absent" /\ r # Absent
  /\ Absent.status = "absent" /\ Absent.deleted = FALSE
  /\ NothingTodo \in Todo /\ DOMAIN NothingTodo = {}
  /\ Idle \in Local /\ Idle.pc = "idle" /\ Idle.todo = NothingTodo
  /\ \A r \in Broadcast : r # NoBroadcast
  <1>1. \A r \in Row : r.status # "absent"
    BY DEF Row, Statuses
  <1>2. Absent.status = "absent" /\ Absent.deleted = FALSE
    BY DEF Absent
  <1>3. NothingTodo \in [{} -> Row] /\ DOMAIN NothingTodo = {}
    BY DEF NothingTodo
  <1>4. NothingTodo \in Todo
    BY <1>3, TodoTyped
  <1>5. Idle \in Local /\ Idle.pc = "idle" /\ Idle.todo = NothingTodo
    BY <1>4 DEF Idle, Local, Absent
  <1>6. \A r \in Broadcast : r # NoBroadcast
    BY DEF Broadcast, NoBroadcast
  <1> QED
    BY <1>1, <1>2, <1>3, <1>4, <1>5, <1>6

\* The initial states satisfy the invariant.
LEMMA InitInv == Init => IInv
  <1> SUFFICES ASSUME Init PROVE IInv
    OBVIOUS
  <1>1. ann \in [Anns -> Row \cup {Absent}] /\ \A a \in Anns : ann[a].status # "published"
    BY DEF Init, Absent, Row, Statuses
  <1>2. TypeOK
    BY <1>1, Facts, AnnouncementsAssumption DEF Init, TypeOK
  <1>3. RowsBacked /\ SavesBacked /\ WorkOK
    BY <1>1, Facts DEF Init, RowsBacked, SavesBacked, WorkOK, Workers
  <1> QED
    BY <1>2, <1>3 DEF IInv

-----------------------------------------------------------------------------
(* The requests up to their write. *)

\* A request that begins with the row as it is keeps the invariant.
LEMMA BeginInv ==
  ASSUME IInv, NEW h \in Handlers, NEW pc \in {"send", "save", "remove"},
         NEW action \in Actions, NEW a \in Anns, NEW who \in Admins, NEW row \in Row,
         Begin(h, pc, action, a, who, row),
         pc = "send" => row = ann[a] /\ Publishable(row),
         pc = "save" => Legal(ann[a], row) /\ (row.status = "published" => Own(row, a)),
         pc = "remove" => ann[a].status # "absent"
  PROVE  IInv'
  <1> DEFINE w == [pc |-> pc, action |-> action, ann |-> a, base |-> ann[a], row |-> row,
                   todo |-> NothingTodo]
  <1>1. /\ work' = [work EXCEPT ![h] = w] /\ requests' = requests + 1 /\ requests < MaxRequests
        /\ UNCHANGED <<ann, reads, broadcast, active, now, faults>>
    BY DEF Begin
  <1>2. w \in Local
    BY Facts DEF IInv, TypeOK, Local
  <1>3. requests' \in 0..MaxRequests
    BY <1>1, AnnouncementsAssumption DEF IInv, TypeOK
  <1>4. h \in Handlers \cup Crons /\ w.pc \notin {"idle", "next"} /\ w.todo = NothingTodo
    OBVIOUS
  <1>5. TypeOK'
    BY <1>1, <1>2, <1>3, <1>4, Facts DEF IInv, TypeOK
  <1>6. RowsBacked' /\ SavesBacked'
    BY <1>1, <1>4 DEF IInv, TypeOK, RowsBacked, SavesBacked, Own, Workers
  <1>7. WorkOK'
    BY <1>1, <1>4, Facts DEF IInv, TypeOK, WorkOK, Workers, Publishable, Legal
  <1> QED
    BY <1>5, <1>6, <1>7 DEF IInv


\* Each request of an administrator begins with the row as it is.
LEMMA RequestInv ==
  ASSUME IInv, NEW h \in Handlers, NEW who \in Admins, AdminRequest(h, who)
  PROVE  IInv'
  <1> USE Facts DEF IInv, TypeOK
  <1>1. CASE create(h, who)
    <2>1. PICK a \in Anns, dto \in CreateAnnouncementDto :
            /\ ann[a] = Absent /\ dto.scheduledAt \in Future \cup {None}
            /\ Begin(h, "save", "created", a, who,
                 [status |-> IF dto.scheduledAt = None THEN "draft" ELSE "scheduled",
                  scope |-> dto.scope, scheduledAt |-> dto.scheduledAt,
                  expiresAt |-> dto.expiresAt, broadcastId |-> None, deleted |-> FALSE])
      BY <1>1 DEF create
    <2> DEFINE row == [status |-> IF dto.scheduledAt = None THEN "draft" ELSE "scheduled",
                  scope |-> dto.scope, scheduledAt |-> dto.scheduledAt,
                  expiresAt |-> dto.expiresAt, broadcastId |-> None, deleted |-> FALSE]
    <2>2. row \in Row /\ row.status \in {"draft", "scheduled"}
      BY <2>1 DEF Row, Statuses, CreateAnnouncementDto, Future
    <2>3. Legal(ann[a], row) /\ row.status # "published"
      BY <2>1, <2>2 DEF Legal
    <2> QED
      BY <2>1, <2>2, <2>3, BeginInv DEF Actions
  <1>2. ASSUME NEW a \in Anns, update(h, a, who) PROVE IInv'
    <2>1. PICK dto \in CreateAnnouncementDto :
            /\ Found(a) /\ ann[a].status # "archived" /\ dto.scheduledAt \in Future \cup {None}
            /\ Begin(h, "save", "updated", a, who,
                     [ann[a] EXCEPT !.scope = dto.scope,
                               !.scheduledAt = IF dto.scheduledAt = None THEN @ ELSE dto.scheduledAt,
                               !.expiresAt = IF dto.expiresAt = None THEN @ ELSE dto.expiresAt,
                               !.status = IF dto.scheduledAt # None /\ @ = "draft" THEN "scheduled" ELSE @])
      BY <1>2 DEF update
    <2> DEFINE row == [ann[a] EXCEPT !.scope = dto.scope,
                               !.scheduledAt = IF dto.scheduledAt = None THEN @ ELSE dto.scheduledAt,
                               !.expiresAt = IF dto.expiresAt = None THEN @ ELSE dto.expiresAt,
                               !.status = IF dto.scheduledAt # None /\ @ = "draft" THEN "scheduled" ELSE @]
    <2>2. ann[a] \in Row /\ ann[a].status # "absent" /\ ~ann[a].deleted
      BY <2>1 DEF Found
    <2>3. row \in Row /\ row.broadcastId = ann[a].broadcastId
      BY ZenonT(40), <2>1, <2>2 DEF Row, Statuses, CreateAnnouncementDto, Future
    <2>4. row.status = ann[a].status \/ (ann[a].status = "draft" /\ row.status = "scheduled")
      BY <2>2 DEF Row
    <2>5. Legal(ann[a], row)
      BY <2>2, <2>3, <2>4 DEF Legal, LifeCycle, Documented, Undocumented, Row
    <2>6. row.status = "published" => Own(row, a)
      BY <2>3, <2>4 DEF RowsBacked, Own
    <2> QED
      BY ZenonT(40), <2>1, <2>3, <2>5, <2>6, BeginInv DEF Actions
  <1>3. ASSUME NEW a \in Anns, schedule(h, a, who) PROVE IInv'
    <2>1. PICK at \in Future :
            /\ Found(a) /\ ann[a].status \in {"draft", "scheduled"}
            /\ Begin(h, "save", "scheduled", a, who, [ann[a] EXCEPT !.scheduledAt = at, !.status = "scheduled"])
      BY <1>3 DEF schedule
    <2> DEFINE row == [ann[a] EXCEPT !.scheduledAt = at, !.status = "scheduled"]
    <2>2. ann[a] \in Row /\ ~ann[a].deleted
      BY <2>1 DEF Found
    <2>3. row \in Row /\ row.status = "scheduled"
      BY <2>1, <2>2 DEF Row, Statuses, Future
    <2>4. Legal(ann[a], row)
      BY <2>1, <2>2, <2>3 DEF Legal, LifeCycle, Documented, Undocumented, Statuses
    <2> QED
      BY <2>1, <2>3, <2>4, BeginInv DEF Actions
  <1>4. ASSUME NEW a \in Anns, publish(h, a, who) PROVE IInv'
    <2>1. ann[a] \in Row /\ Publishable(ann[a])
      BY <1>4 DEF publish, Found, Publishable
    <2> QED
      BY <1>4, <2>1, BeginInv DEF publish, Actions
  <1>5. ASSUME NEW a \in Anns, archive(h, a, who) PROVE IInv'
    <2> DEFINE row == [ann[a] EXCEPT !.status = "archived"]
    <2>1. ann[a] \in Row /\ ann[a].status # "absent" /\ ~ann[a].deleted
      BY <1>5 DEF archive, Found
    <2>2. row \in Row /\ row.status = "archived"
      BY <2>1 DEF Row, Statuses
    <2>3. Legal(ann[a], row)
      BY <2>1, <2>2 DEF Legal, LifeCycle, Documented, Undocumented, Row, Statuses
    <2> QED
      BY <1>5, <2>2, <2>3, BeginInv DEF archive, Actions
  <1>6. ASSUME NEW a \in Anns, republish(h, a, who) PROVE IInv'
    <2> DEFINE row == [ann[a] EXCEPT !.status = "draft", !.broadcastId = None, !.scheduledAt = None]
    <2>1. ann[a] \in Row /\ ann[a].status = "archived" /\ ~ann[a].deleted
      BY <1>6 DEF republish, Found
    <2>2. row \in Row /\ row.status = "draft"
      BY <2>1 DEF Row, Statuses
    <2>3. Legal(ann[a], row)
      BY <2>1, <2>2 DEF Legal, LifeCycle, Documented, Undocumented
    <2> QED
      BY <1>6, <2>2, <2>3, BeginInv DEF republish, Actions
  <1>7. ASSUME NEW a \in Anns, duplicate(h, a, who) PROVE IInv'
    <2> DEFINE row == [ann[a] EXCEPT !.status = "draft", !.expiresAt = None, !.scheduledAt = None,
                                     !.broadcastId = None]
    <2>1. PICK clone \in Anns : /\ Found(a) /\ ann[clone] = Absent
                                /\ Begin(h, "save", "duplicated", clone, who, row)
      BY <1>7 DEF duplicate
    <2>2. row \in Row /\ row.status = "draft"
      BY ZenonT(40), <2>1 DEF Row, Statuses, Found
    <2>3. Legal(ann[clone], row)
      BY <2>1, <2>2 DEF Legal
    <2> QED
      BY <2>1, <2>2, <2>3, BeginInv DEF Actions
  <1>8. ASSUME NEW a \in Anns, remove(h, a, who) PROVE IInv'
    <2>1. ann[a] \in Row
      BY <1>8 DEF remove, Found
    <2> QED
      BY <1>8, <2>1, BeginInv DEF remove, Actions
  <1> QED
    BY <1>1, <1>2, <1>3, <1>4, <1>5, <1>6, <1>7, <1>8 DEF AdminRequest

-----------------------------------------------------------------------------
(* The writes. *)

\* No broadcast is taken away, or given to another announcement.
Grow ==
    \A b \in Broadcasts : broadcast[b] # NoBroadcast =>
        broadcast'[b] # NoBroadcast /\ broadcast'[b].ann = broadcast[b].ann

\* What a worker does after a write is typed and holds nothing new.
LEMMA RestTyped ==
  ASSUME NEW w \in Local
  PROVE  /\ Rest(w) \in Local /\ Rest(w).pc \in {"idle", "next"}
         /\ Rest(w).pc = "idle" <=> Rest(w) = Idle
         /\ Rest(w).pc = "next" => DOMAIN Rest(w).todo # {}
         /\ Rest(w).todo = w.todo \/ Rest(w).todo = NothingTodo
  <1>1. CASE DOMAIN w.todo = {}
    BY <1>1, Facts DEF Rest
  <1>2. CASE DOMAIN w.todo # {}
    <2>1. Rest(w) = [w EXCEPT !.pc = "next"]
      BY <1>2 DEF Rest
    <2> QED
      BY <1>2, <2>1, Facts DEF Local
  <1> QED
    BY <1>1, <1>2

\* A worker that comes to rest, when the rows and the broadcasts keep theirs.
LEMMA RestInv ==
  ASSUME IInv, NEW h \in Workers, work' = [work EXCEPT ![h] = Rest(@)],
         UNCHANGED <<reads, broadcast, active, now, requests>>,
         faults' \in 0..MaxFaults,
         ann' \in [Anns -> Row \cup {Absent}], RowsBacked',
         \A a \in Anns : ann[a].status # "absent" => ann'[a].status # "absent"
  PROVE  IInv'
  <1> USE DEF IInv, TypeOK, Workers
  <1>1. work[h] \in Local /\ work'[h] = Rest(work[h])
    OBVIOUS
  <1>2. TypeOK'
    BY <1>1, RestTyped
  <1>3. SavesBacked'
    BY <1>1, RestTyped DEF SavesBacked, Own
  <1>4. WorkOK'
    <2> SUFFICES ASSUME NEW g \in Workers
                 PROVE  LET w == work'[g] IN
                        /\ w.pc \in {"send", "save", "remove"} => w.ann \in Anns /\ w.row \in Row
                        /\ w.pc = "send" => w.row = w.base /\ Publishable(w.base)
                        /\ w.pc = "save" => Legal(w.base, w.row)
                        /\ w.pc = "remove" => ann'[w.ann].status # "absent"
                        /\ \A a \in DOMAIN w.todo : Publishable(w.todo[a])
      BY DEF WorkOK
    <2>1. CASE g = h
      BY <2>1, <1>1, RestTyped, Facts DEF WorkOK
    <2>2. CASE g # h
      BY <2>2 DEF WorkOK
    <2> QED
      BY <2>1, <2>2
  <1> QED
    BY <1>2, <1>3, <1>4

\* The save of a row that was broadcast, if it is published.
LEMMA SaveInv ==
  ASSUME IInv, NEW h \in Workers, Save(h)
  PROVE  IInv'
  <1> USE Facts DEF IInv, TypeOK, Workers
  <1> DEFINE w == work[h]
  <1>1. w.pc = "save" /\ ann' = [ann EXCEPT ![w.ann] = w.row] /\ work' = [work EXCEPT ![h] = Rest(@)]
        /\ UNCHANGED <<reads, broadcast, active, now, requests, faults>>
    BY DEF Save
  <1>2. w.ann \in Anns /\ w.row \in Row
    BY <1>1 DEF WorkOK
  <1>3. ann' \in [Anns -> Row \cup {Absent}]
        /\ \A a \in Anns : ann[a].status # "absent" => ann'[a].status # "absent"
    BY <1>1, <1>2
  <1>4. RowsBacked'
    <2> SUFFICES ASSUME NEW a \in Anns, ann'[a].status = "published" PROVE Own(ann[a], a)'
      BY DEF RowsBacked
    <2>1. CASE a = w.ann
      BY <2>1, <1>1, <1>2 DEF SavesBacked, Own
    <2>2. CASE a # w.ann
      BY <2>2, <1>1 DEF RowsBacked, Own
    <2> QED
      BY <2>1, <2>2
  <1> QED
    BY <1>1, <1>3, <1>4, RestInv

\* The mark of a deletion leaves the status of the row.
LEMMA SoftRemoveInv ==
  ASSUME IInv, NEW h \in Workers, SoftRemove(h)
  PROVE  IInv'
  <1> USE Facts DEF IInv, TypeOK, Workers
  <1> DEFINE w == work[h]
  <1>1. w.pc = "remove" /\ ann' = [ann EXCEPT ![w.ann].deleted = TRUE] /\ work' = [work EXCEPT ![h] = Rest(@)]
        /\ UNCHANGED <<reads, broadcast, active, now, requests, faults>>
    BY DEF SoftRemove
  <1>2. w.ann \in Anns /\ ann[w.ann] \in Row
    BY <1>1 DEF WorkOK
  <1>3. [ann[w.ann] EXCEPT !.deleted = TRUE] \in Row
    BY <1>2 DEF Row
  <1>4. ann' \in [Anns -> Row \cup {Absent}]
        /\ \A a \in Anns : ann[a].status # "absent" => ann'[a].status # "absent"
    BY <1>1, <1>2, <1>3
  <1>5. \A a \in Anns : ann'[a].status = ann[a].status /\ ann'[a].broadcastId = ann[a].broadcastId
    BY <1>1, <1>2, <1>3 DEF Row
  <1>6. RowsBacked'
    BY <1>1, <1>5 DEF RowsBacked, Own
  <1> QED
    BY <1>1, <1>4, <1>6, RestInv

\* A call that throws writes nothing.
LEMMA ThrowInv ==
  ASSUME IInv, NEW h \in Workers, Throw(h)
  PROVE  IInv'
  <1> USE DEF IInv, TypeOK, Workers
  <1>1. faults' \in 0..MaxFaults
    BY AnnouncementsAssumption DEF Throw
  <1>2. RowsBacked'
    BY DEF Throw, RowsBacked, Own
  <1> QED
    BY <1>1, <1>2, RestInv DEF Throw
-----------------------------------------------------------------------------
(* The broadcasts, the crons and what surrounds them. *)

\* A step that leaves the rows and the workers, while the broadcasts grow.
LEMMA GrowInv ==
  ASSUME IInv, UNCHANGED <<ann, work>>, TypeOK', Grow
  PROVE  IInv'
  <1> USE DEF IInv, Grow
  <1>1. RowsBacked' /\ SavesBacked'
    BY DEF RowsBacked, SavesBacked, Own
  <1>2. WorkOK'
    BY DEF WorkOK, Publishable, Legal
  <1> QED
    BY <1>1, <1>2

\* The rows are not touched and the workers rest or go on with typed states.
LEMMA NewBroadcastTyped ==
  ASSUME NEW a \in Anns \cup {None}, NEW scope \in Cities \cup {Global}, NEW later \in BOOLEAN
  PROVE  NewBroadcast(a, scope, later) \in Broadcast /\ NewBroadcast(a, scope, later).ann = a
  BY DEF NewBroadcast, Broadcast

\* The id of the next broadcast is not taken.
LEMMA NextIdFree == \A b \in NextId : b \in Broadcasts /\ broadcast[b] = NoBroadcast
  BY DEF NextId

\* The broadcast is there before its row is about to be saved as published.
LEMMA SendInv ==
  ASSUME IInv, NEW h \in Workers, Send(h)
  PROVE  IInv'
  <1> USE Facts DEF IInv, TypeOK, Workers
  <1> DEFINE w == work[h]
  <1>1. PICK b \in NextId :
          /\ w.pc = "send"
          /\ broadcast' = [broadcast EXCEPT ![b] = NewBroadcast(w.ann, w.row.scope, FALSE)]
          /\ work' = [work EXCEPT ![h].pc = "save",
                                  ![h].row = [@ EXCEPT !.status = "published", !.broadcastId = b]]
          /\ UNCHANGED <<ann, reads, active, now, requests, faults>>
    BY DEF Send
  <1>2. w \in Local /\ w.ann \in Anns /\ w.row \in Row /\ w.row = w.base /\ Publishable(w.row)
    BY <1>1 DEF WorkOK
  <1>3. b \in Broadcasts /\ broadcast[b] = NoBroadcast
    BY NextIdFree
  <1> DEFINE row == [w.row EXCEPT !.status = "published", !.broadcastId = b]
             new == [w EXCEPT !.pc = "save", !.row = row]
             fresh == NewBroadcast(w.ann, w.row.scope, FALSE)
  <1>4. row \in Row /\ row.status = "published" /\ row.broadcastId = b
    BY <1>2, <1>3 DEF Row, Statuses
  <1>5. /\ new \in Local /\ new.pc = "save" /\ new.row = row /\ new.ann = w.ann
        /\ new.base = w.base /\ new.todo = w.todo
    BY <1>2, <1>4 DEF Local
  <1>6. fresh \in Broadcast /\ fresh.ann = w.ann
    BY <1>2, NewBroadcastTyped DEF Row
  <1>7. work' = [work EXCEPT ![h] = new] /\ broadcast' = [broadcast EXCEPT ![b] = fresh]
    BY <1>1, <1>2 DEF Local
  <1>8. Legal(w.base, row)
    BY <1>2, <1>4 DEF Legal, LifeCycle, Documented, Undocumented, Publishable
  <1>9. /\ broadcast' \in [Broadcasts -> Broadcast \cup {NoBroadcast}]
        /\ broadcast'[b] = fresh /\ fresh # NoBroadcast /\ Grow
    BY <1>3, <1>6, <1>7 DEF Grow
  <1> HIDE DEF row, new, fresh
  <1>10. TypeOK'
    <2>1. UNCHANGED <<ann, reads, active, now, requests, faults>>
      BY <1>1
    <2>2. work' \in [Handlers \cup Crons -> Local]
      BY <1>5, <1>7
    <2>3. \A g \in Handlers \cup Crons :
            /\ work'[g].pc = "next" => DOMAIN work'[g].todo # {}
            /\ work'[g].pc = "idle" <=> work'[g] = Idle
      BY <1>5, <1>7
    <2>4. /\ ann' \in [Anns -> Row \cup {Absent}] /\ reads' \subseteq Users \X Anns
          /\ active' \subseteq Users /\ now' \in 0..MaxTime
          /\ requests' \in 0..MaxRequests /\ faults' \in 0..MaxFaults
      BY <2>1
    <2> HIDE DEF IInv
    <2> QED
      BY <1>9, <2>2, <2>3, <2>4
  <1>11. RowsBacked'
    BY ZenonT(40), <1>1, <1>9 DEF RowsBacked, Own, Grow
  <1>12. SavesBacked'
    <2> SUFFICES ASSUME NEW g \in Workers, work'[g].pc = "save", work'[g].row.status = "published"
                 PROVE  Own(work[g].row, work[g].ann)'
      BY DEF SavesBacked
    <2>1. CASE g = h
      BY <2>1, <1>3, <1>4, <1>5, <1>6, <1>7, <1>9 DEF Own
    <2>2. CASE g # h
      BY <2>2, <1>7, <1>9 DEF SavesBacked, Own, Grow
    <2> QED
      BY <2>1, <2>2
  <1>13. WorkOK'
    <2> SUFFICES ASSUME NEW g \in Workers
                 PROVE  LET v == work'[g] IN
                        /\ v.pc \in {"send", "save", "remove"} => v.ann \in Anns /\ v.row \in Row
                        /\ v.pc = "send" => v.row = v.base /\ Publishable(v.base)
                        /\ v.pc = "save" => Legal(v.base, v.row)
                        /\ v.pc = "remove" => ann'[v.ann].status # "absent"
                        /\ \A a \in DOMAIN v.todo : Publishable(v.todo[a])
      BY DEF WorkOK
    <2>1. CASE g = h
      BY <2>1, <1>2, <1>4, <1>5, <1>7, <1>8 DEF WorkOK
    <2>2. CASE g # h
      BY <2>2, <1>1, <1>7 DEF WorkOK
    <2> QED
      BY <2>1, <2>2
  <1> QED
    BY <1>10, <1>11, <1>12, <1>13

\* A broadcast without an announcement backs no row and takes none away.
LEMMA BroadcastNowInv ==
  ASSUME IInv, broadcastNow
  PROVE  IInv'
  <1> USE Facts DEF IInv, TypeOK
  <1>1. PICK b \in NextId, dto \in BroadcastNotificationDto :
          /\ requests < MaxRequests /\ requests' = requests + 1
          /\ broadcast' = [broadcast EXCEPT ![b] = NewBroadcast(None, dto.targetCityId, dto.later)]
          /\ UNCHANGED <<ann, reads, work, active, now, faults>>
    BY DEF broadcastNow
  <1>2. b \in Broadcasts /\ broadcast[b] = NoBroadcast
    BY NextIdFree
  <1>3. NewBroadcast(None, dto.targetCityId, dto.later) \in Broadcast
    BY NewBroadcastTyped DEF BroadcastNotificationDto
  <1>4. requests' \in 0..MaxRequests
    BY <1>1, AnnouncementsAssumption
  <1> QED
    BY <1>1, <1>2, <1>3, <1>4, GrowInv DEF Grow

\* A step of the loop of a broadcast that stays one of its announcement.
LEMMA LoopInv ==
  ASSUME IInv, NEW b \in Broadcasts, broadcast[b] # NoBroadcast,
         NEW new \in Broadcast, BroadcastStep(b, new),
         new.ann = broadcast[b].ann, faults' \in 0..MaxFaults
  PROVE  IInv'
  <1> USE Facts DEF IInv, TypeOK, BroadcastStep
  <1>1. TypeOK' /\ Grow
    BY DEF Grow
  <1> QED
    BY <1>1, GrowInv

\* A page is a finite set of the audience, which is one of users.
LEMMA PageTyped ==
  ASSUME IInv, NEW b \in Broadcasts, NEW page \in fetchUsersBatch(b)
  PROVE  page \subseteq Users /\ page \subseteq Audience(broadcast[b].scope) /\ IsFiniteSet(page)
  <1>1. page \subseteq Audience(broadcast[b].scope)
    BY DEF fetchUsersBatch
  <1>2. Audience(broadcast[b].scope) \subseteq Users
    BY DEF IInv, TypeOK, Audience
  <1> QED
    BY <1>1, <1>2, AnnouncementsAssumption, FS_Subset

\* Only a broadcast that exists has a place in its loop.
LEMMA LoopPlace ==
  ASSUME IInv, NEW b \in Broadcasts, BroadcastLoop(b) \/ BroadcastFaults(b)
  PROVE  broadcast[b] \in Broadcast /\ broadcast[b] # NoBroadcast
  <1>1. broadcast[b] # NoBroadcast
    BY DEF BroadcastLoop, BroadcastFaults, Batch, BroadcastFails, executeBroadcast, Record, Complete, At
  <1> QED
    BY <1>1 DEF IInv, TypeOK

\* The steps of a broadcast keep its announcement.
LEMMA BroadcastInv ==
  ASSUME IInv, NEW b \in Broadcasts, BroadcastLoop(b) \/ BroadcastFaults(b)
  PROVE  IInv'
  <1> DEFINE r == broadcast[b]
  <1>0. r \in Broadcast /\ r # NoBroadcast /\ faults \in 0..MaxFaults /\ MaxFaults \in Nat
    BY AnnouncementsAssumption, LoopPlace DEF IInv, TypeOK
  <1>1. CASE executeBroadcast(b)
    <2> DEFINE new == [r EXCEPT !.status = "processing", !.run = "fetch"]
    <2>1. new \in Broadcast /\ new.ann = r.ann
      BY <1>0 DEF Broadcast
    <2> QED
      BY <1>0, <1>1, <2>1, LoopInv DEF executeBroadcast
  <1>2. ASSUME NEW fails \in BOOLEAN, NEW some \in BOOLEAN, Batch(b, fails, some) PROVE IInv'
    <2>1. PICK page \in fetchUsersBatch(b) :
            BroadcastStep(b, [r EXCEPT
                !.run = "count", !.offset = @ + BatchSize, !.page = page, !.thrown = fails,
                !.queued = IF fails THEN @ ELSE @ \cup page,
                !.partly = IF some THEN @ \cup page ELSE @])
      BY <1>2 DEF Batch
    <2> DEFINE new == [r EXCEPT
                !.run = "count", !.offset = @ + BatchSize, !.page = page, !.thrown = fails,
                !.queued = IF fails THEN @ ELSE @ \cup page,
                !.partly = IF some THEN @ \cup page ELSE @]
    <2>2. page \in SUBSET Users /\ BatchSize \in Nat
      BY PageTyped, AnnouncementsAssumption
    <2>3. new \in Broadcast /\ new.ann = r.ann
      <3>1. PICK offset \in Nat : offset = r.offset + BatchSize
        BY <1>0, <2>2 DEF Broadcast
      <3>2. PICK queued \in SUBSET Users : queued = IF fails THEN r.queued ELSE r.queued \cup page
        BY <1>0, <2>2 DEF Broadcast
      <3>3. PICK partly \in SUBSET Users : partly = IF some THEN r.partly \cup page ELSE r.partly
        BY <1>0, <2>2 DEF Broadcast
      <3>4. new = [r EXCEPT !.run = "count", !.offset = offset, !.page = page, !.thrown = fails,
                            !.queued = queued, !.partly = partly]
        BY <3>1, <3>2, <3>3
      <3> HIDE DEF new
      <3> QED
        BY <1>0, <2>2, <3>4 DEF Broadcast
    <2>4. faults' \in 0..MaxFaults
      BY <1>0, <1>2 DEF Batch
    <2> QED
      BY <1>0, <2>1, <2>3, <2>4, LoopInv
  <1>3. CASE Record(b)
    <2> DEFINE n == Cardinality(r.page)
               new == [r EXCEPT
                !.total = @ + n, !.sent = IF r.thrown THEN @ ELSE @ + n,
                !.failed = IF r.thrown THEN @ + n ELSE @, !.more = (n = BatchSize),
                !.run = "fetch", !.page = {}, !.thrown = FALSE]
    <2>1. n \in Nat
      <3>1. r.page \subseteq Users
        BY <1>0 DEF Broadcast
      <3> QED
        BY <3>1, AnnouncementsAssumption, FS_Subset, FS_CardinalityType
    <2>2. new \in Broadcast /\ new.ann = r.ann
      <3>1. PICK total \in Nat : total = r.total + n
        BY <1>0, <2>1 DEF Broadcast
      <3>2. PICK sent \in Nat : sent = IF r.thrown THEN r.sent ELSE r.sent + n
        BY <1>0, <2>1 DEF Broadcast
      <3>3. PICK failed \in Nat : failed = IF r.thrown THEN r.failed + n ELSE r.failed
        BY <1>0, <2>1 DEF Broadcast
      <3>4. PICK more \in BOOLEAN : more = (n = BatchSize)
        OBVIOUS
      <3>5. new = [r EXCEPT !.total = total, !.sent = sent, !.failed = failed, !.more = more,
                            !.run = "fetch", !.page = {}, !.thrown = FALSE]
        BY <3>1, <3>2, <3>3, <3>4
      <3> HIDE DEF new
      <3> QED
        BY <1>0, <3>5 DEF Broadcast
    <2>3. BroadcastStep(b, new) /\ faults' = faults
      BY <1>3 DEF Record
    <2> HIDE DEF new
    <2> QED
      BY <1>0, <2>2, <2>3, LoopInv
  <1>4. CASE Complete(b)
    <2> DEFINE new == [r EXCEPT !.status = "completed", !.run = "ended"]
    <2>1. new \in Broadcast /\ new.ann = r.ann
      BY <1>0 DEF Broadcast
    <2> QED
      BY <1>0, <1>4, <2>1, LoopInv DEF Complete
  <1>5. CASE BroadcastFails(b)
    <2> DEFINE new == [r EXCEPT !.status = "failed", !.run = "ended"]
    <2>1. new \in Broadcast /\ new.ann = r.ann
      BY <1>0 DEF Broadcast
    <2>2. faults' \in 0..MaxFaults
      BY <1>0, <1>5 DEF BroadcastFails
    <2> QED
      BY <1>0, <1>5, <2>1, <2>2, LoopInv DEF BroadcastFails
  <1> QED
    BY <1>1, <1>2, <1>3, <1>4, <1>5 DEF BroadcastLoop, BroadcastFaults

\* A cron reads rows that can be published.
LEMMA CronInv ==
  ASSUME IInv, NEW c \in Crons, publishScheduled(c)
  PROVE  IInv'
  <1> USE Facts DEF IInv, TypeOK, Workers
  <1> DEFINE due == {a \in Anns : Due(ann[a])}
             todo == [a \in due |-> ann[a]]
             new == [work[c] EXCEPT !.pc = "next", !.todo = todo]
  <1>1. /\ due # {} /\ work[c] = Idle
        /\ work' = [work EXCEPT ![c].pc = "next", ![c].todo = todo]
        /\ UNCHANGED <<ann, reads, broadcast, active, now, requests, faults>>
    BY DEF publishScheduled
  <1>2. todo \in [due -> Row] /\ due \in SUBSET Anns
    BY DEF Due, Absent
  <1>3. todo \in Todo /\ DOMAIN todo = due /\ \A a \in due : Publishable(todo[a])
    BY <1>2, TodoTyped DEF Due, Publishable
  <1> HIDE DEF todo, due
  <1>4. new \in Local /\ new.pc = "next" /\ new.todo = todo
    BY <1>1, <1>3 DEF Local
  <1>5. work' = [work EXCEPT ![c] = new]
    BY <1>1, <1>3 DEF Local
  <1> HIDE DEF new
  <1>6. TypeOK'
    BY ZenonT(40), <1>1, <1>3, <1>4, <1>5
  <1>7. RowsBacked' /\ SavesBacked'
    BY <1>1, <1>4, <1>5 DEF RowsBacked, SavesBacked, Own
  <1>8. WorkOK'
    BY SMTT(30), <1>1, <1>3, <1>4, <1>5 DEF WorkOK, Publishable, Legal
  <1> QED
    BY <1>6, <1>7, <1>8

\* A cron goes on with a row it read.
LEMMA PublishNextInv ==
  ASSUME IInv, NEW c \in Crons, PublishNext(c)
  PROVE  IInv'
  <1> USE Facts DEF IInv, TypeOK, Workers
  <1> DEFINE w == work[c]
  <1>1. PICK a \in DOMAIN w.todo :
          /\ w.pc = "next"
          /\ work' = [work EXCEPT ![c] =
                [pc |-> "send", action |-> "published", ann |-> a,
                 base |-> w.todo[a], row |-> w.todo[a],
                 todo |-> [x \in DOMAIN w.todo \ {a} |-> w.todo[x]]]]
          /\ UNCHANGED <<ann, reads, broadcast, active, now, requests, faults>>
    BY DEF PublishNext
  <1> DEFINE rest == [x \in DOMAIN w.todo \ {a} |-> w.todo[x]]
             new == [pc |-> "send", action |-> "published", ann |-> a,
                     base |-> w.todo[a], row |-> w.todo[a], todo |-> rest]
  <1>2. w.todo \in Todo
    BY DEF Local
  <1>3. /\ a \in Anns /\ w.todo[a] \in Row
        /\ rest \in [DOMAIN w.todo \ {a} -> Row] /\ DOMAIN w.todo \ {a} \in SUBSET Anns
    BY <1>2, TodoTyped
  <1>4. rest \in Todo /\ DOMAIN rest = DOMAIN w.todo \ {a} /\ \A x \in DOMAIN rest : rest[x] = w.todo[x]
    BY <1>3, TodoTyped
  <1>5. Publishable(w.todo[a]) /\ \A x \in DOMAIN rest : Publishable(rest[x])
    BY <1>4 DEF WorkOK
  <1> HIDE DEF rest
  <1>6. new \in Local
    BY <1>3, <1>4 DEF Local, Actions
  <1>7. work' = [work EXCEPT ![c] = new] /\ new.pc = "send" /\ new.ann = a
        /\ new.row = w.todo[a] /\ new.base = w.todo[a] /\ new.todo = rest
    BY <1>1 DEF rest
  <1> HIDE DEF new
  <1>8. TypeOK'
    BY <1>1, <1>6, <1>7
  <1>9. RowsBacked' /\ SavesBacked'
    BY <1>1, <1>7 DEF RowsBacked, SavesBacked, Own
  <1>10. WorkOK'
    <2> SUFFICES ASSUME NEW g \in Workers
                 PROVE  LET v == work'[g] IN
                        /\ v.pc \in {"send", "save", "remove"} => v.ann \in Anns /\ v.row \in Row
                        /\ v.pc = "send" => v.row = v.base /\ Publishable(v.base)
                        /\ v.pc = "save" => Legal(v.base, v.row)
                        /\ v.pc = "remove" => ann'[v.ann].status # "absent"
                        /\ \A x \in DOMAIN v.todo : Publishable(v.todo[x])
      BY DEF WorkOK
    <2>1. CASE g = c
      BY <2>1, <1>3, <1>5, <1>7
    <2>2. CASE g # c
      BY <2>2, <1>1, <1>7 DEF WorkOK
    <2> QED
      BY <2>1, <2>2
  <1> QED
    BY <1>8, <1>9, <1>10

\* An expiry publishes nothing.
LEMMA ExpireInv ==
  ASSUME IInv, expireOutdated
  PROVE  IInv'
  <1> USE Facts DEF IInv, TypeOK, Workers
  <1> DEFINE out == {a \in Anns : /\ ann[a].status = "published"
                                  /\ ann[a].expiresAt # None /\ ann[a].expiresAt <= now}
  <1>1. /\ ann' = [a \in Anns |-> IF a \in out THEN [ann[a] EXCEPT !.status = "archived"] ELSE ann[a]]
        /\ UNCHANGED <<reads, broadcast, work, active, now, requests, faults>>
    BY DEF expireOutdated
  <1>2. \A a \in out : /\ [ann[a] EXCEPT !.status = "archived"] \in Row
                       /\ [ann[a] EXCEPT !.status = "archived"].status = "archived"
    <2> SUFFICES ASSUME NEW a \in out
                 PROVE  /\ [ann[a] EXCEPT !.status = "archived"] \in Row
                        /\ [ann[a] EXCEPT !.status = "archived"].status = "archived"
      OBVIOUS
    <2>1. ann[a] \in Row
      OBVIOUS
    <2> QED
      BY <2>1 DEF Row, Statuses
  <1> HIDE DEF out
  <1>3. \A a \in Anns : ann'[a] = ann[a] \/ (ann'[a] \in Row /\ ann'[a].status = "archived")
    BY <1>1, <1>2
  <1>4. ann' \in [Anns -> Row \cup {Absent}]
    BY <1>1, <1>3
  <1>5. TypeOK'
    BY <1>1, <1>4
  <1>6. RowsBacked' /\ SavesBacked'
    BY <1>1, <1>3 DEF RowsBacked, SavesBacked, Own
  <1>7. WorkOK'
    BY SMTT(30), <1>1, <1>3 DEF WorkOK, Publishable, Legal
  <1> QED
    BY <1>5, <1>6, <1>7

\* The users and the clock leave the rows and the workers.
LEMMA UsersInv ==
  ASSUME IInv, Tick \/ (\E u \in Users : SetActive(u) \/ \E a \in Anns : markAsRead(u, a))
  PROVE  IInv'
  <1> USE Facts DEF IInv, TypeOK
  <1>1. CASE Tick
    <2>1. now' \in 0..MaxTime
      BY <1>1, AnnouncementsAssumption DEF Tick
    <2> QED
      BY <1>1, <2>1, GrowInv DEF Tick, Grow
  <1>2. ASSUME NEW u \in Users, SetActive(u) PROVE IInv'
    <2>1. \A r \in Broadcast : [r EXCEPT !.moved = TRUE] \in Broadcast /\ [r EXCEPT !.moved = TRUE].ann = r.ann
      BY DEF Broadcast
    <2>2. broadcast' \in [Broadcasts -> Broadcast \cup {NoBroadcast}] /\ Grow
      BY <1>2, <2>1 DEF SetActive, Grow
    <2>3. requests' \in 0..MaxRequests /\ active' \subseteq Users
      BY <1>2, AnnouncementsAssumption DEF SetActive
    <2> QED
      BY <1>2, <2>2, <2>3, GrowInv DEF SetActive
  <1>3. ASSUME NEW u \in Users, NEW a \in Anns, markAsRead(u, a) PROVE IInv'
    <2>1. requests' \in 0..MaxRequests /\ reads' \subseteq Users \X Anns
      BY <1>3, AnnouncementsAssumption DEF markAsRead
    <2> QED
      BY <1>3, <2>1, GrowInv DEF markAsRead, Grow
  <1> QED
    BY <1>1, <1>2, <1>3

\* A crash leaves the rows, and the workers rest.
LEMMA CrashInv ==
  ASSUME IInv, Crash
  PROVE  IInv'
  <1> USE Facts DEF IInv, TypeOK, Workers
  <1>1. \A r \in Broadcast : [r EXCEPT !.run = "lost"] \in Broadcast /\ [r EXCEPT !.run = "lost"].ann = r.ann
    BY DEF Broadcast
  <1>2. broadcast' \in [Broadcasts -> Broadcast \cup {NoBroadcast}] /\ Grow
    BY <1>1 DEF Crash, Grow
  <1>3. faults' \in 0..MaxFaults
    BY AnnouncementsAssumption DEF Crash
  <1>4. work' \in [Workers -> Local] /\ \A h \in Workers : work'[h] = Idle
    BY DEF Crash
  <1>5. TypeOK'
    BY <1>2, <1>3, <1>4 DEF Crash
  <1>6. RowsBacked' /\ SavesBacked'
    BY <1>2, <1>4 DEF RowsBacked, SavesBacked, Own, Crash, Grow
  <1>7. WorkOK'
    BY <1>4 DEF WorkOK
  <1> QED
    BY <1>5, <1>6, <1>7

-----------------------------------------------------------------------------
(* The theorems. *)

\* Every step keeps the invariant.
LEMMA StepInv == IInv /\ [Next]_vars => IInv'
  <1>1. ASSUME IInv, UNCHANGED vars PROVE IInv'
    BY <1>1 DEF IInv, TypeOK, RowsBacked, SavesBacked, WorkOK, Own, Publishable, Legal, vars
  <1>2. ASSUME IInv, Next PROVE IInv'
    <2>1. ASSUME NEW h \in Workers, Continue(h) \/ Throw(h) PROVE IInv'
      BY <1>2, <2>1, SendInv, SaveInv, SoftRemoveInv, ThrowInv DEF Continue
    <2> QED
      BY <1>2, <2>1, RequestInv, BroadcastNowInv, CronInv, PublishNextInv, ExpireInv, BroadcastInv,
         UsersInv, CrashInv DEF Next, Workers
  <1> QED
    BY <1>1, <1>2

\* The invariant holds in every reachable state.
LEMMA Invariant == Spec => []IInv
  <1> QED
    BY InitInv, StepInv, PTL DEF Spec

\* The rows, the broadcasts and what every request and cron holds keep their types,
\* for any number of announcements, users and workers.
THEOREM TypeCorrect == Spec => []TypeOK
  <1>1. IInv => TypeOK
    BY DEF IInv
  <1> QED
    BY <1>1, Invariant, PTL

\* Whatever crashes, fails or overlaps, what the feed of a city shows names a
\* broadcast that is its own: doBroadcastAndPublish sends before it saves, and no
\* request or cron saves a published row it did not send or find published.
THEOREM VisibleWasBroadcastTheorem == Spec => []VisibleWasBroadcast
  <1>1. IInv => VisibleWasBroadcast
    BY DEF IInv, RowsBacked, VisibleWasBroadcast, Own, findActiveForCity
  <1> QED
    BY <1>1, Invariant, PTL

\* A row leaves its life cycle, or comes back after it was deleted, only when a
\* request or a cron saves over a change it did not see.
THEOREM LifeCycleTheorem == Spec => LifeCycleObeyedUnlessStale
  <1> DEFINE A == \A a \in Anns : ann'[a] # ann[a] =>
        \/ ann[a] = Absent /\ ann'[a].status \in {"draft", "scheduled"}
        \/ /\ <<ann[a].status, ann'[a].status>> \in LifeCycle
           /\ ann[a].deleted => ann'[a].deleted
        \/ StaleSave(a)
  <1>1. ASSUME IInv, [Next]_vars PROVE [A]_vars
    <2> USE Facts DEF IInv, TypeOK
    <2>1. ASSUME NEW h \in Workers, Save(h) PROVE A
      <3> SUFFICES ASSUME NEW a \in Anns, ann'[a] # ann[a]
                   PROVE  \/ ann[a] = Absent /\ ann'[a].status \in {"draft", "scheduled"}
                          \/ /\ <<ann[a].status, ann'[a].status>> \in LifeCycle
                             /\ ann[a].deleted => ann'[a].deleted
                          \/ StaleSave(a)
        OBVIOUS
      <3>1. a = work[h].ann /\ work[h].pc = "save" /\ ann'[a] = work[h].row
        BY <1>1, <2>1 DEF Save
      <3>2. CASE work[h].base = ann[a]
        BY <1>1, <3>1, <3>2 DEF WorkOK, Legal
      <3>3. CASE work[h].base # ann[a]
        <4>1. work'[h] = Rest(work[h]) /\ work[h] \in Local
          BY <1>1, <2>1 DEF Save, Workers
        <4>2. work'[h] # work[h]
          BY <3>1, <4>1, RestTyped
        <4> QED
          BY <3>1, <3>3, <4>2 DEF StaleSave, Workers
      <3> QED
        BY <3>2, <3>3
    <2>2. ASSUME NEW h \in Workers, SoftRemove(h) PROVE A
      <3> SUFFICES ASSUME NEW a \in Anns, ann'[a] # ann[a]
                   PROVE  /\ <<ann[a].status, ann'[a].status>> \in LifeCycle
                          /\ ann[a].deleted => ann'[a].deleted
        OBVIOUS
      <3>1. work[h].ann \in Anns /\ ann[work[h].ann] \in Row
        BY <1>1, <2>2 DEF SoftRemove, WorkOK
      <3>2. a = work[h].ann /\ ann'[a] = [ann[a] EXCEPT !.deleted = TRUE]
        BY <1>1, <2>2 DEF SoftRemove
      <3>3. ann[a].status \in Statuses /\ ann'[a].status = ann[a].status /\ ann'[a].deleted
        BY <3>1, <3>2 DEF Row
      <3> QED
        BY <3>3 DEF LifeCycle, Documented, Undocumented
    <2>3. ASSUME expireOutdated PROVE A
      <3> SUFFICES ASSUME NEW a \in Anns, ann'[a] # ann[a]
                   PROVE  /\ <<ann[a].status, ann'[a].status>> \in LifeCycle
                          /\ ann[a].deleted => ann'[a].deleted
        OBVIOUS
      <3>1. ann[a].status = "published" /\ ann'[a] = [ann[a] EXCEPT !.status = "archived"]
        BY <2>3 DEF expireOutdated
      <3>2. ann[a] \in Row
        BY <1>1, <3>1
      <3>3. ann'[a].status = "archived" /\ ann'[a].deleted = ann[a].deleted
        BY <3>1, <3>2 DEF Row
      <3> QED
        BY <3>1, <3>3 DEF LifeCycle, Documented, Undocumented
    <2>4. ASSUME UNCHANGED ann PROVE A
      BY <2>4
    <2>5. ASSUME NEW h \in Handlers, NEW who \in Admins, AdminRequest(h, who) PROVE UNCHANGED ann
      BY <2>5 DEF AdminRequest, create, update, schedule, publish, archive, republish, duplicate,
                  remove, Begin
    <2>6. ASSUME NEW h \in Workers, Continue(h) \/ Throw(h) PROVE A
      <3>1. Send(h) \/ Throw(h) => UNCHANGED ann
        BY DEF Send, Throw
      <3> QED
        BY <2>1, <2>2, <2>4, <2>6, <3>1 DEF Continue
    <2>7. ASSUME NEW b \in Broadcasts, BroadcastLoop(b) \/ BroadcastFaults(b)
          PROVE  UNCHANGED ann
      BY <2>7 DEF BroadcastLoop, BroadcastFaults, executeBroadcast, Batch, Record, Complete,
                  BroadcastFails, BroadcastStep
    <2>8. ASSUME \/ broadcastNow \/ Tick \/ Crash
                 \/ \E c \in Crons : publishScheduled(c) \/ PublishNext(c)
                 \/ \E u \in Users : SetActive(u) \/ \E a \in Anns : markAsRead(u, a)
          PROVE  UNCHANGED ann
      BY <2>8 DEF broadcastNow, publishScheduled, PublishNext, markAsRead, SetActive, Tick, Crash
    <2>9. ASSUME Next PROVE A
      <3> HIDE DEF A
      <3> QED
        BY <2>3, <2>4, <2>5, <2>6, <2>7, <2>8, <2>9 DEF Next, Workers
    <2> QED
      BY <1>1, <2>4, <2>9
  <1> QED
    BY <1>1, Invariant, PTL DEF Spec, LifeCycleObeyedUnlessStale

-----------------------------------------------------------------------------
(* The accounts of a broadcast. *)

\* The first users of an audience, up to an offset.
Upto(offset, size) == IF offset < size THEN offset ELSE size

\* Whoever has a job is counted, or in the page in hand.  As long as no user came
\* or left, what a broadcast counted, with that page, is its offset, up to the
\* size of its audience; it has counted as many once a page was short.
Accounted(r) ==
    LET size == Cardinality(Audience(r.scope))
        n == Cardinality(r.page)
    IN
    /\ r.sent + r.failed = r.total
    /\ r.status \in {"pending", "processing"} <=> r.run # "ended"
    /\ n <= BatchSize
    /\ r.run \in {"start", "fetch"} \/ r.status = "completed" => r.page = {} /\ ~r.thrown
    /\ r.run = "start" => r.more
    /\ Cardinality(r.queued) <= r.sent + (IF r.thrown THEN 0 ELSE n)
    /\ Cardinality(r.queued \cup r.partly) <= r.total + n
    /\ ~r.moved /\ r.run \in Running => r.total + n = Upto(r.offset, size)
    /\ ~r.moved /\ r.run = "count" /\ n # BatchSize => r.total + n = size
    /\ ~r.moved /\ r.run = "fetch" /\ ~r.more => r.total = size
    /\ ~r.moved /\ r.status = "completed" => r.total = size

AccountsOK == \A b \in Broadcasts : broadcast[b] # NoBroadcast => Accounted(broadcast[b])

\* An audience is a finite set of users.
LEMMA AudienceTyped ==
  ASSUME IInv, NEW scope
  PROVE  Cardinality(Audience(scope)) \in Nat
  <1>1. Audience(scope) \subseteq Users
    BY DEF IInv, TypeOK, Audience
  <1> QED
    BY <1>1, AnnouncementsAssumption, FS_Subset, FS_CardinalityType

\* A set of users has a size, and a union at most the sum.
LEMMA UsersCounted ==
  ASSUME NEW S \in SUBSET Users, NEW T \in SUBSET Users
  PROVE  /\ Cardinality(S) \in Nat /\ Cardinality(T) \in Nat
         /\ Cardinality(S \cup T) \in Nat
         /\ Cardinality(S \cup T) <= Cardinality(S) + Cardinality(T)
  <1>1. IsFiniteSet(S) /\ IsFiniteSet(T) /\ IsFiniteSet(S \cap T) /\ IsFiniteSet(S \cup T)
    <2>1. S \cap T \subseteq Users /\ S \cup T \subseteq Users
      OBVIOUS
    <2> QED
      BY <2>1, AnnouncementsAssumption, FS_Subset
  <1>2. Cardinality(S \cup T) = Cardinality(S) + Cardinality(T) - Cardinality(S \cap T)
    BY <1>1, FS_Union
  <1>3. PICK s \in Nat, t \in Nat, i \in Nat, n \in Nat :
            s = Cardinality(S) /\ t = Cardinality(T) /\ i = Cardinality(S \cap T) /\ n = Cardinality(S \cup T)
    BY <1>1, FS_CardinalityType
  <1>4. n = s + t - i
    BY <1>2, <1>3
  <1>5. n <= s + t
    BY <1>4
  <1> QED
    BY <1>3, <1>5

\* A broadcast that is created has counted nobody.
LEMMA NewAccounted ==
  ASSUME IInv, NEW a \in Anns \cup {None}, NEW scope \in Cities \cup {Global}, NEW later \in BOOLEAN
  PROVE  Accounted(NewBroadcast(a, scope, later))
  <1>1. Cardinality(Audience(scope)) \in Nat
    BY AudienceTyped
  <1>2. Cardinality({}) = 0 /\ {} \cup {} = {}
    BY FS_EmptySet
  <1>3. BatchSize \in Nat
    BY AnnouncementsAssumption
  <1> QED
    BY <1>1, <1>2, <1>3 DEF Accounted, NewBroadcast, Upto, Running

\* A page that was fetched has the size of the rest of the audience, up to BatchSize.
LEMMA PageSize ==
  ASSUME IInv, NEW b \in Broadcasts, NEW page \in fetchUsersBatch(b),
         broadcast[b] \in Broadcast, NEW size, size = Cardinality(Audience(broadcast[b].scope))
  PROVE  LET left == size - broadcast[b].offset IN
         Cardinality(page) = IF left < 0 THEN 0 ELSE IF left < BatchSize THEN left ELSE BatchSize
  BY DEF fetchUsersBatch

\* A page that goes to the queue is not counted yet.
LEMMA BatchAccounted ==
  ASSUME IInv, NEW b \in Broadcasts, broadcast[b] \in Broadcast, Accounted(broadcast[b]),
         NEW fails \in BOOLEAN, NEW some \in BOOLEAN, Batch(b, fails, some)
  PROVE  Accounted(broadcast'[b])
  <1> DEFINE r == broadcast[b]
  <1>1. PICK page \in fetchUsersBatch(b) \ {{}} :
          broadcast'[b] = [r EXCEPT
                !.run = "count", !.offset = @ + BatchSize, !.page = page, !.thrown = fails,
                !.queued = IF fails THEN @ ELSE @ \cup page,
                !.partly = IF some THEN @ \cup page ELSE @]
    BY DEF Batch, BroadcastStep, IInv, TypeOK
  <1>2. r.run = "fetch" /\ r.more /\ (some => fails)
    BY DEF Batch, At
  <1>3. PICK q : q = broadcast'[b]
    OBVIOUS
  <1>4. /\ q.run = "count" /\ q.offset = r.offset + BatchSize /\ q.page = page /\ q.thrown = fails
        /\ q.queued = IF fails THEN r.queued ELSE r.queued \cup page
        /\ q.partly = IF some THEN r.partly \cup page ELSE r.partly
        /\ q.scope = r.scope /\ q.status = r.status /\ q.moved = r.moved /\ q.more = r.more
        /\ q.total = r.total /\ q.sent = r.sent /\ q.failed = r.failed
    BY <1>1, <1>3 DEF Broadcast
  <1>5. page \in SUBSET Users /\ page # {}
    BY PageTyped
  <1>6. PICK size \in Nat : size = Cardinality(Audience(r.scope))
    BY AudienceTyped
  <1>7. PICK n \in Nat : n = Cardinality(page)
    BY <1>5, UsersCounted
  <1>8. PICK total \in Nat, sent \in Nat, failed \in Nat, offset \in Nat :
            total = r.total /\ sent = r.sent /\ failed = r.failed /\ offset = r.offset
    BY DEF Broadcast
  <1>9. n = IF size - offset < 0 THEN 0 ELSE IF size - offset < BatchSize THEN size - offset ELSE BatchSize
    BY <1>6, <1>7, <1>8, PageSize
  <1>10. BatchSize \in Nat \ {0}
    BY AnnouncementsAssumption
  <1>11. /\ r.page = {} /\ ~r.thrown /\ Cardinality(r.page) = 0
         /\ sent + failed = total
         /\ Cardinality(r.queued) <= sent /\ Cardinality(r.queued \cup r.partly) <= total
         /\ ~r.moved => total = Upto(offset, size)
         /\ r.status \in {"pending", "processing"}
    <2>1. r.page = {} /\ ~r.thrown
      BY <1>2 DEF Accounted
    <2>2. Cardinality(r.page) = 0
      BY <2>1, FS_EmptySet
    <2>3. r.queued \in SUBSET Users /\ r.queued \cup r.partly \in SUBSET Users
      BY DEF Broadcast
    <2>4. PICK x \in Nat, y \in Nat : x = Cardinality(r.queued) /\ y = Cardinality(r.queued \cup r.partly)
      BY <2>3, UsersCounted
    <2>5. x <= sent /\ y <= total
      BY <1>8, <2>1, <2>2, <2>4 DEF Accounted
    <2>6. ~r.moved => total + 0 = Upto(offset, size)
      BY <1>2, <1>6, <1>8, <2>2 DEF Accounted, Running
    <2>7. ~r.moved => total = Upto(offset, size)
      BY <2>6
    <2> QED
      BY <1>2, <1>8, <2>1, <2>2, <2>4, <2>5, <2>7 DEF Accounted
  <1>12. Cardinality(q.queued) <= sent + (IF fails THEN 0 ELSE n)
    <2>1. CASE fails
      <3>1. q.queued = r.queued /\ sent + 0 = sent
        BY <1>4, <2>1
      <3> QED
        BY <1>11, <2>1, <3>1
    <2>2. CASE ~fails
      <3>1. q.queued = r.queued \cup page /\ r.queued \in SUBSET Users
        BY <1>4, <2>2 DEF Broadcast
      <3>2. PICK x \in Nat, y \in Nat : x = Cardinality(r.queued) /\ y = Cardinality(r.queued \cup page)
        BY <1>5, <3>1, UsersCounted
      <3>3. x <= sent /\ y <= x + n
        BY <1>5, <1>7, <1>11, <3>1, <3>2, UsersCounted
      <3>4. y <= sent + n
        BY <3>3
      <3> QED
        BY <2>2, <3>1, <3>2, <3>4
    <2> QED
      BY <2>1, <2>2
  <1>13. Cardinality(q.queued \cup q.partly) <= total + n
    <2> DEFINE had == r.queued \cup r.partly
    <2>1. had \in SUBSET Users
      BY DEF Broadcast
    <2>2. q.queued \cup q.partly \in {had, had \cup page}
      BY <1>2, <1>4
    <2>3. PICK x \in Nat, y \in Nat : x = Cardinality(had) /\ y = Cardinality(had \cup page)
      BY <1>5, <2>1, UsersCounted
    <2>4. x <= total /\ y <= x + n
      BY <1>5, <1>7, <1>11, <2>1, <2>3, UsersCounted
    <2>5. x <= total + n /\ y <= total + n
      BY <2>4
    <2> HIDE DEF had
    <2> QED
      BY <2>2, <2>3, <2>5
  <1>14. ASSUME ~r.moved
         PROVE  /\ total + n = Upto(offset + BatchSize, size)
                /\ n # BatchSize => total + n = size
    <2>1. total = Upto(offset, size)
      BY <1>11, <1>14
    <2>2. n # 0
      <3>1. IsFiniteSet(page)
        BY PageTyped
      <3> QED
        BY <1>5, <1>7, <3>1, FS_EmptySet
    <2>3. offset < size
      BY <1>9, <1>10, <2>2
    <2> QED
      BY <1>9, <1>10, <2>1, <2>3 DEF Upto
  <1>15. n <= BatchSize
    BY <1>9, <1>10
  <1>16. Accounted(q)
    <2>1. Cardinality(Audience(q.scope)) = size /\ Cardinality(q.page) = n
      BY <1>4, <1>6, <1>7
    <2>2. q.total = total /\ q.sent = sent /\ q.failed = failed /\ q.offset = offset + BatchSize
          /\ q.moved = r.moved /\ q.status \in {"pending", "processing"} /\ q.run = "count" /\ q.thrown = fails
      BY <1>4, <1>8, <1>11
    <2> QED
      BY <1>11, <1>12, <1>13, <1>14, <1>15, <2>1, <2>2 DEF Accounted, Running
  <1> QED
    BY <1>3, <1>16

\* The page in hand is counted, as sent or as failed.
LEMMA RecordAccounted ==
  ASSUME IInv, NEW b \in Broadcasts, broadcast[b] \in Broadcast, Accounted(broadcast[b]), Record(b)
  PROVE  Accounted(broadcast'[b])
  <1> DEFINE r == broadcast[b]
  <1>1. /\ r.run = "count"
        /\ broadcast'[b] = [r EXCEPT
              !.total = @ + Cardinality(r.page),
              !.sent = IF r.thrown THEN @ ELSE @ + Cardinality(r.page),
              !.failed = IF r.thrown THEN @ + Cardinality(r.page) ELSE @,
              !.more = (Cardinality(r.page) = BatchSize),
              !.run = "fetch", !.page = {}, !.thrown = FALSE]
    BY DEF Record, At, BroadcastStep, IInv, TypeOK
  <1>2. r.page \in SUBSET Users
    BY DEF Broadcast
  <1>3. PICK n \in Nat : n = Cardinality(r.page)
    BY <1>2, UsersCounted
  <1>4. PICK q : q = broadcast'[b]
    OBVIOUS
  <1>5. /\ q.run = "fetch" /\ q.page = {} /\ ~q.thrown /\ q.more = (n = BatchSize)
        /\ q.total = r.total + n
        /\ q.sent = IF r.thrown THEN r.sent ELSE r.sent + n
        /\ q.failed = IF r.thrown THEN r.failed + n ELSE r.failed
        /\ q.scope = r.scope /\ q.status = r.status /\ q.moved = r.moved /\ q.offset = r.offset
        /\ q.queued = r.queued /\ q.partly = r.partly
    BY <1>1, <1>3, <1>4 DEF Broadcast
  <1>6. PICK size \in Nat : size = Cardinality(Audience(r.scope))
    BY AudienceTyped
  <1>7. PICK total \in Nat, sent \in Nat, failed \in Nat, offset \in Nat :
            total = r.total /\ sent = r.sent /\ failed = r.failed /\ offset = r.offset
    BY DEF Broadcast
  <1>8. PICK x \in Nat, y \in Nat :
            x = Cardinality(r.queued) /\ y = Cardinality(r.queued \cup r.partly)
    <2>1. r.queued \in SUBSET Users /\ r.queued \cup r.partly \in SUBSET Users
      BY DEF Broadcast
    <2> QED
      BY <2>1, UsersCounted
  <1>9. /\ sent + failed = total
        /\ x <= sent + (IF r.thrown THEN 0 ELSE n) /\ y <= total + n
        /\ ~r.moved => /\ total + n = Upto(offset, size)
                       /\ n # BatchSize => total + n = size
        /\ r.status \in {"pending", "processing"}
    BY <1>1, <1>3, <1>6, <1>7, <1>8 DEF Accounted, Running
  <1>10. PICK total2 \in Nat, sent2 \in Nat, failed2 \in Nat :
            total2 = q.total /\ sent2 = q.sent /\ failed2 = q.failed
    BY <1>5, <1>7
  <1>11. /\ total2 = total + n
         /\ sent2 = IF r.thrown THEN sent ELSE sent + n
         /\ failed2 = IF r.thrown THEN failed + n ELSE failed
    BY <1>5, <1>7, <1>10
  <1>12. sent2 + failed2 = total2 /\ x <= sent2 + 0 /\ y <= total2 + 0
    BY <1>9, <1>11
  <1>13. ~r.moved => total2 + 0 = Upto(offset, size) /\ (n # BatchSize => total2 = size)
    BY <1>9, <1>11
  <1>14. Accounted(q)
    <2>1. Cardinality(Audience(q.scope)) = size /\ Cardinality(q.page) = 0 /\ BatchSize \in Nat
      BY <1>5, <1>6, FS_EmptySet, AnnouncementsAssumption
    <2>2. 0 <= BatchSize
      BY <2>1
    <2>3. Cardinality(q.queued) = x /\ Cardinality(q.queued \cup q.partly) = y /\ q.offset = offset
      BY <1>5, <1>7, <1>8
    <2> QED
      BY <1>5, <1>9, <1>10, <1>12, <1>13, <2>1, <2>2, <2>3 DEF Accounted, Running
  <1> QED
    BY <1>4, <1>14

\* A broadcast ends when there is nobody left to count, or when it fails.
LEMMA EndAccounted ==
  ASSUME IInv, NEW b \in Broadcasts, broadcast[b] \in Broadcast, Accounted(broadcast[b]),
         Complete(b) \/ BroadcastFails(b)
  PROVE  Accounted(broadcast'[b])
  <1> DEFINE r == broadcast[b]
  <1>1. PICK status \in {"completed", "failed"} :
          /\ broadcast'[b] = [r EXCEPT !.status = status, !.run = "ended"]
          /\ status = "completed" => r.run = "fetch" /\ (r.more => {} \in fetchUsersBatch(b))
    BY DEF Complete, BroadcastFails, At, BroadcastStep, IInv, TypeOK
  <1>2. PICK q : q = broadcast'[b]
    OBVIOUS
  <1>3. /\ q.status = status /\ q.run = "ended"
        /\ \A f \in {"scope", "moved", "total", "sent", "failed", "page", "thrown", "queued", "partly"} :
              q[f] = r[f]
    BY <1>1, <1>2 DEF Broadcast
  <1>4. PICK size \in Nat : size = Cardinality(Audience(r.scope))
    BY AudienceTyped
  <1>5. status = "completed" /\ ~r.moved => r.total = size
    <2> SUFFICES ASSUME status = "completed", ~r.moved PROVE r.total = size
      OBVIOUS
    <2>1. r.run = "fetch" /\ r.page = {}
      BY <1>1 DEF Accounted
    <2>2. CASE ~r.more
      BY <1>4, <2>1, <2>2 DEF Accounted
    <2>3. CASE r.more
      <3>1. PICK offset \in Nat, total \in Nat : offset = r.offset /\ total = r.total
        BY DEF Broadcast
      <3>2. Cardinality({}) = 0
        BY FS_EmptySet
      <3>3. 0 = IF size - offset < 0 THEN 0 ELSE IF size - offset < BatchSize THEN size - offset ELSE BatchSize
        BY <1>1, <1>4, <2>3, <3>1, <3>2, PageSize
      <3>4. total + 0 = Upto(offset, size)
        BY <1>4, <2>1, <3>1, <3>2 DEF Accounted, Running
      <3>5. total = size
        BY <3>3, <3>4, AnnouncementsAssumption DEF Upto
      <3> QED
        BY <3>1, <3>5
    <2> QED
      BY <2>2, <2>3
  <1>6. status = "completed" => r.page = {} /\ ~r.thrown
    BY <1>1 DEF Accounted
  <1>7. Accounted(q)
    BY <1>3, <1>4, <1>5, <1>6 DEF Accounted, Running
  <1> QED
    BY <1>2, <1>7

\* A step of the loop keeps the accounts of its broadcast.
LEMMA LoopAccounted ==
  ASSUME IInv, NEW b \in Broadcasts, broadcast[b] # NoBroadcast, Accounted(broadcast[b]),
         BroadcastLoop(b) \/ BroadcastFaults(b)
  PROVE  Accounted(broadcast'[b])
  <1> DEFINE r == broadcast[b]
  <1>1. r \in Broadcast
    BY DEF IInv, TypeOK
  <1>2. CASE executeBroadcast(b)
    <2>1. r.run = "start" /\ broadcast'[b] = [r EXCEPT !.status = "processing", !.run = "fetch"]
      BY <1>2 DEF executeBroadcast, At, BroadcastStep, IInv, TypeOK
    <2>2. PICK q : q = broadcast'[b]
      OBVIOUS
    <2>3. /\ q.status = "processing" /\ q.run = "fetch"
          /\ \A f \in {"scope", "moved", "more", "offset", "total", "sent", "failed", "page", "thrown",
                       "queued", "partly"} : q[f] = r[f]
      BY <1>1, <2>1, <2>2 DEF Broadcast
    <2>4. r.more
      BY <2>1 DEF Accounted
    <2> QED
      BY <2>1, <2>2, <2>3, <2>4 DEF Accounted, Running
  <1> QED
    BY <1>1, <1>2, BatchAccounted, RecordAccounted, EndAccounted DEF BroadcastLoop, BroadcastFaults

\* Every other step leaves the accounts of a broadcast that exists alone, but for
\* the marks that it moved or was lost, and creates broadcasts that counted nobody.
LEMMA AccountsStep ==
  ASSUME IInv, AccountsOK, [Next]_vars
  PROVE  AccountsOK'
  <1> SUFFICES ASSUME NEW b \in Broadcasts, broadcast'[b] # NoBroadcast
               PROVE  Accounted(broadcast[b])'
    BY DEF AccountsOK
  <1> DEFINE r == broadcast[b]
  <1>1. r # NoBroadcast => Accounted(r) /\ r \in Broadcast
    BY DEF AccountsOK, IInv, TypeOK
  <1>2. ASSUME active' = active, Accounted(broadcast'[b]) PROVE Accounted(broadcast[b])'
    BY <1>2 DEF Accounted, Audience
  <1>3. ASSUME UNCHANGED <<broadcast, active>> PROVE Accounted(broadcast[b])'
    BY <1>1, <1>2, <1>3
  <1>4. ASSUME NEW c \in Broadcasts, NEW a \in Anns \cup {None}, NEW scope \in Cities \cup {Global},
               NEW later \in BOOLEAN, active' = active,
               broadcast' = [broadcast EXCEPT ![c] = NewBroadcast(a, scope, later)]
        PROVE  Accounted(broadcast[b])'
    <2>1. broadcast'[b] = IF b = c THEN NewBroadcast(a, scope, later) ELSE broadcast[b]
      BY <1>4 DEF IInv, TypeOK
    <2> QED
      BY <1>1, <1>2, <1>4, <2>1, NewAccounted
  <1>5. ASSUME NEW h \in Workers, Send(h) PROVE Accounted(broadcast[b])'
    <2>1. /\ work[h].ann \in Anns \cup {None}
          /\ work[h].row.scope \in Cities \cup {Global}
      BY DEF IInv, TypeOK, Workers, Local, Row, Absent
    <2>2. PICK c \in NextId :
              broadcast' = [broadcast EXCEPT ![c] = NewBroadcast(work[h].ann, work[h].row.scope, FALSE)]
      BY <1>5 DEF Send
    <2>3. active' = active
      BY <1>5 DEF Send
    <2>4. c \in Broadcasts
      BY DEF NextId
    <2> QED
      BY <1>4, <2>1, <2>2, <2>3, <2>4
  <1>6. ASSUME broadcastNow PROVE Accounted(broadcast[b])'
    <2>1. PICK c \in NextId, dto \in BroadcastNotificationDto :
              broadcast' = [broadcast EXCEPT ![c] = NewBroadcast(None, dto.targetCityId, dto.later)]
      BY <1>6 DEF broadcastNow
    <2>2. active' = active
      BY <1>6 DEF broadcastNow
    <2>3. /\ c \in Broadcasts
          /\ dto.targetCityId \in Cities \cup {Global} /\ dto.later \in BOOLEAN
      BY DEF NextId, BroadcastNotificationDto
    <2> QED
      BY <1>4, <2>1, <2>2, <2>3
  <1>7. ASSUME NEW c \in Broadcasts, BroadcastLoop(c) \/ BroadcastFaults(c)
        PROVE  Accounted(broadcast[b])'
    <2>1. /\ broadcast[c] # NoBroadcast /\ active' = active
          /\ \E new : broadcast' = [broadcast EXCEPT ![c] = new]
      BY <1>7, LoopPlace, Facts DEF BroadcastLoop, BroadcastFaults, executeBroadcast, Batch, Record,
                                    Complete, BroadcastFails, BroadcastStep
    <2>2. CASE b = c
      BY <1>1, <1>2, <1>7, <2>1, <2>2, LoopAccounted
    <2>3. CASE b # c
      <3>1. broadcast'[b] = r
        BY <2>1, <2>3 DEF IInv, TypeOK
      <3> QED
        BY <1>1, <1>2, <2>1, <3>1
    <2> QED
      BY <2>2, <2>3
  <1>8. ASSUME NEW u \in Users, SetActive(u) PROVE Accounted(broadcast[b])'
    <2>1. r # NoBroadcast /\ broadcast'[b] = [r EXCEPT !.moved = TRUE]
      BY <1>8 DEF SetActive
    <2>2. PICK q : q = broadcast'[b]
      OBVIOUS
    <2>3. /\ q.moved
          /\ \A f \in {"status", "run", "more", "total", "sent", "failed", "page", "thrown", "queued", "partly"} :
                q[f] = r[f]
      BY <1>1, <2>1, <2>2 DEF Broadcast
    <2> QED
      BY <1>1, <2>1, <2>2, <2>3 DEF Accounted
  <1>9. ASSUME Crash PROVE Accounted(broadcast[b])'
    <2>1. r # NoBroadcast /\ active' = active
      BY <1>9 DEF Crash
    <2>2. CASE r.run \notin Running
      <3>1. broadcast'[b] = r
        BY <1>9, <2>2 DEF Crash
      <3> QED
        BY <1>1, <1>2, <2>1, <3>1
    <2>3. CASE r.run \in Running
      <3>1. broadcast'[b] = [r EXCEPT !.run = "lost"]
        BY <1>9, <2>1, <2>3 DEF Crash
      <3>2. PICK q : q = broadcast'[b]
        OBVIOUS
      <3>3. /\ q.run = "lost"
            /\ \A f \in {"scope", "status", "moved", "more", "offset", "total", "sent", "failed", "page",
                         "thrown", "queued", "partly"} : q[f] = r[f]
        BY <1>1, <2>1, <3>1, <3>2 DEF Broadcast
      <3>4. r.status \in {"pending", "processing"}
        BY <1>1, <2>1, <2>3 DEF Accounted, Running
      <3>5. Accounted(q)
        BY <1>1, <2>1, <3>3, <3>4 DEF Accounted, Running
      <3> QED
        BY <1>2, <2>1, <3>2, <3>5
    <2> QED
      BY <2>2, <2>3
  <1>10. ASSUME NEW h \in Workers, Continue(h) \/ Throw(h) PROVE Accounted(broadcast[b])'
    <2>1. CASE Send(h)
      BY <1>5, <2>1
    <2>2. CASE Save(h) \/ SoftRemove(h) \/ Throw(h)
      BY <1>3, <2>2 DEF Save, SoftRemove, Throw
    <2> QED
      BY <1>10, <2>1, <2>2 DEF Continue
  <1>11. ASSUME NEW h \in Handlers, NEW who \in Admins, AdminRequest(h, who)
         PROVE  UNCHANGED <<broadcast, active>>
    BY <1>11 DEF AdminRequest, create, update, schedule, publish, archive, republish, duplicate,
                 remove, Begin
  <1>12. ASSUME \/ expireOutdated \/ Tick \/ UNCHANGED vars
                \/ \E c \in Crons : publishScheduled(c) \/ PublishNext(c)
                \/ \E u \in Users, a \in Anns : markAsRead(u, a)
         PROVE  UNCHANGED <<broadcast, active>>
    BY <1>12 DEF expireOutdated, Tick, publishScheduled, PublishNext, markAsRead, vars
  <1> QED
    BY <1>3, <1>6, <1>7, <1>8, <1>9, <1>10, <1>11, <1>12 DEF Next, Workers

\* The accounts bound what is queued by what the columns say and a page in hand.
LEMMA AccountsBound == IInv /\ AccountsOK => BroadcastAccounted
  <1> SUFFICES ASSUME IInv, AccountsOK, NEW b \in Broadcasts, broadcast[b] # NoBroadcast
               PROVE  LET r == broadcast[b]
                          ahead == IF r.status = "completed" THEN 0 ELSE BatchSize
                      IN
                      /\ r.sent + r.failed = r.total
                      /\ Cardinality(r.queued) <= r.sent + ahead
                      /\ Cardinality(r.queued \cup r.partly) <= r.total + ahead
                      /\ r.status = "completed" /\ ~r.moved => r.total = Cardinality(Audience(r.scope))
                      /\ r.status \in {"pending", "processing"} <=> r.run # "ended"
    BY DEF BroadcastAccounted
  <1> DEFINE r == broadcast[b]
  <1>1. r \in Broadcast /\ Accounted(r)
    BY DEF AccountsOK, IInv, TypeOK
  <1>2. PICK total \in Nat, sent \in Nat : total = r.total /\ sent = r.sent
    BY <1>1 DEF Broadcast
  <1>3. PICK n \in Nat, x \in Nat, y \in Nat :
          /\ n = Cardinality(r.page) /\ x = Cardinality(r.queued)
          /\ y = Cardinality(r.queued \cup r.partly)
    <2>1. r.page \in SUBSET Users /\ r.queued \in SUBSET Users /\ r.queued \cup r.partly \in SUBSET Users
      BY <1>1 DEF Broadcast
    <2> QED
      BY <2>1, UsersCounted
  <1>4. n <= BatchSize /\ x <= sent + (IF r.thrown THEN 0 ELSE n) /\ y <= total + n
    BY <1>1, <1>2, <1>3 DEF Accounted
  <1>5. r.status = "completed" => n = 0
    <2>1. r.status = "completed" => r.page = {}
      BY <1>1 DEF Accounted
    <2> QED
      BY <1>3, <2>1, FS_EmptySet
  <1>6. BatchSize \in Nat
    BY AnnouncementsAssumption
  <1>7. /\ x <= sent + (IF r.status = "completed" THEN 0 ELSE BatchSize)
        /\ y <= total + (IF r.status = "completed" THEN 0 ELSE BatchSize)
    BY <1>4, <1>5, <1>6
  <1> QED
    BY <1>1, <1>2, <1>3, <1>7 DEF Accounted

\* The counters of BroadcastService.executeBroadcast: nobody has a job who is not
\* counted, but for the page in hand; a broadcast that completed counted as many as
\* its audience, unless users came or left, though paging without an order may count
\* one twice and leave out another; one that has not ended runs, waits for a date, or
\* lost its process.
THEOREM BroadcastAccountedTheorem == Spec => []BroadcastAccounted
  <1>1. Init => AccountsOK
    BY DEF Init, AccountsOK
  <1>2. IInv /\ AccountsOK /\ [Next]_vars => AccountsOK'
    BY AccountsStep
  <1> QED
    BY <1>1, <1>2, AccountsBound, Invariant, PTL DEF Spec

=============================================================================
