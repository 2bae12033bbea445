----------------------------- MODULE RidesProof -----------------------------
(***************************************************************************)
(* Proofs about Rides, then about ScheduledRides and RideModification, for *)
(* every set of rides, passengers, drivers and handlers: typing, the       *)
(* inductive invariant that ties a handler's locals to the table, the      *)
(* discipline of the transition table; for every window, lead, grace and   *)
(* number of attempts, at most one hand-over of a scheduled ride to the    *)
(* dispatcher; for every set of destinations and every fee, delay and      *)
(* number of tries, the row of a ride that says what its logs say.         *)
(***************************************************************************)
EXTENDS ScheduledRides, RideModification, SequenceTheorems, FiniteSetTheorems, TLAPS

(* What a handler that has passed its checks knows of the table t. *)

AcceptLocals(h, t) ==
    h.op = "accept" =>
        /\ h.pc \in {"count", "write", "emit"}
        /\ h.ride \in Rides /\ h.who \in Drivers
        /\ canTransitionTo(h.seen.status, "accepted")
        /\ t[h.ride].status # "absent"

CancelLocals(h, t) ==
    h.op = "cancel" =>
        /\ h.pc \in {"write", "emit"}
        /\ h.ride \in Rides
        /\ canTransitionTo(h.seen.status, "cancelled")
        /\ t[h.ride].status # "absent"

CompleteLocals(h, t) ==
    h.op = "complete" =>
        /\ h.pc \in {"write", "emit"}
        /\ h.ride \in Rides
        /\ canTransitionTo(h.seen.status, "completed")
        /\ h.seen.driver \in Drivers
        /\ t[h.ride].status # "absent"

ReleaseLocals(h, t) ==
    h.op = "release" =>
        /\ h.pc \in {"asked", "write", "emit"}
        /\ h.ride \in Rides
        /\ t[h.ride].status # "absent"

CreateLocals(h, t) ==
    h.op \in {"create", "schedule"} =>
        /\ h.pc \in {"write", "emit"}
        /\ h.who \in Users
        /\ h.pc = "emit" => h.ride \in Rides /\ t[h.ride].status # "absent"

LocalsOf(h, t) ==
    /\ AcceptLocals(h, t)
    /\ CancelLocals(h, t)
    /\ CompleteLocals(h, t)
    /\ ReleaseLocals(h, t)
    /\ CreateLocals(h, t)
    /\ h.op = "none" => h.pc = "idle"

LocalsOK == \A p \in Handlers : LocalsOf(handler[p], rides)

IInv == TypeOK /\ LocalsOK /\ TripHasDriver /\ EventHasCause

\* Rows are never deleted.
Grows(t1, t2) == \A r \in Rides : t1[r].status # "absent" => t2[r].status # "absent"

-----------------------------------------------------------------------------

\* The initial states satisfy the inductive invariant.
LEMMA InitInv == Init => IInv
  BY NoneAssumption
  DEF Init, IInv, TypeOK, LocalsOK, TripHasDriver, EventHasCause,
      LocalsOf, AcceptLocals,
      CancelLocals, CompleteLocals, ReleaseLocals, CreateLocals, Idle, AbsentRow, NoEvent,
      HandlerRecords, Row, RideStatuses, Events, OnTrip

\* What a handler knows of a table stays true as the table grows.
LEMMA LocalsStable ==
  ASSUME NEW h \in HandlerRecords, NEW t1, NEW t2, LocalsOf(h, t1), Grows(t1, t2)
  PROVE  LocalsOf(h, t2)
  BY DEF LocalsOf, AcceptLocals, CancelLocals, CompleteLocals, ReleaseLocals, CreateLocals, Grows,
         HandlerRecords

\* Only the moving handler's locals have to be looked at after a step that makes
\* the table grow.
LEMMA OthersKeepLocals ==
  ASSUME TypeOK, LocalsOK, NEW p \in Handlers, NEW h \in HandlerRecords,
         handler' = [handler EXCEPT ![p] = h], Grows(rides, rides'), LocalsOf(h, rides')
  PROVE  LocalsOK'
  <1> SUFFICES ASSUME NEW q \in Handlers
               PROVE  LocalsOf(handler'[q], rides')
    BY DEF LocalsOK
  <1>1. CASE q = p
    BY <1>1 DEF TypeOK
  <1>2. CASE q # p
    <2>1. handler'[q] = handler[q] /\ handler[q] \in HandlerRecords
      BY <1>2 DEF TypeOK
    <2>2. LocalsOf(handler[q], rides)
      BY DEF LocalsOK
    <2> QED
      BY <2>1, <2>2, LocalsStable
  <1> QED
    BY <1>1, <1>2

\* The published event stays true of the table as the table grows.
LEMMA EventStable ==
  ASSUME TypeOK, EventHasCause, Grows(rides, rides'), event' = event
  PROVE  EventHasCause'
  BY DEF TypeOK, EventHasCause, Grows, Events, NoEvent

\* A handler that starts reads a row and changes nothing else.
LEMMA StartInv ==
  ASSUME IInv, NEW p \in Handlers, NEW pc \in {"count", "asked", "write"},
         NEW op \in {"create", "schedule", "accept", "cancel", "complete", "release"},
         NEW r \in Rides \cup {None}, NEW who \in Users \cup Drivers \cup {None},
         Start(p, pc, op, r, who),
         LocalsOf([pc |-> pc, op |-> op, ride |-> r, who |-> who,
                   seen |-> IF r = None THEN AbsentRow ELSE rides[r]], rides)
  PROVE  IInv'
  <1> DEFINE h == [pc |-> pc, op |-> op, ride |-> r, who |-> who,
                   seen |-> IF r = None THEN AbsentRow ELSE rides[r]]
  <1>1. h \in HandlerRecords
    <2>1. AbsentRow \in Row /\ (r # None => rides[r] \in Row)
      BY DEF AbsentRow, Row, RideStatuses, IInv, TypeOK
    <2> QED
      BY <2>1 DEF HandlerRecords
  <1>2. handler' = [handler EXCEPT ![p] = h] /\ rides' = rides /\ event' = event
    BY DEF Start
  <1>3. Grows(rides, rides')
    BY <1>2 DEF Grows
  <1>4. TypeOK'
    BY <1>1, <1>2 DEF IInv, TypeOK
  <1>5. LocalsOK'
    <2> HIDE DEF h
    <2> QED
      BY <1>1, <1>2, <1>3, OthersKeepLocals DEF IInv, h
  <1>6. TripHasDriver' /\ EventHasCause'
    BY <1>2 DEF IInv, TripHasDriver, EventHasCause
  <1> QED
    BY <1>4, <1>5, <1>6 DEF IInv

\* A write keeps the invariant when the new row has a driver if its status needs it.
LEMMA WriteInv ==
  ASSUME IInv, NEW p \in Handlers, NEW h \in HandlerRecords, NEW r \in Rides, NEW row \in Row,
         rides' = [rides EXCEPT ![r] = row], handler' = [handler EXCEPT ![p] = h],
         event' = event, row.status # "absent",
         row.status \in OnTrip => row.driver # None,
         LocalsOf(h, rides')
  PROVE  IInv'
  <1>1. TypeOK'
    BY DEF IInv, TypeOK
  <1>2. Grows(rides, rides')
    BY DEF Grows, IInv, TypeOK
  <1>3. LocalsOK'
    BY <1>2, OthersKeepLocals DEF IInv
  <1>4. TripHasDriver'
    BY DEF IInv, TypeOK, TripHasDriver
  <1>5. EventHasCause'
    BY <1>2, EventStable DEF IInv
  <1> QED
    BY <1>1, <1>3, <1>4, <1>5 DEF IInv

\* A handler that moves on without touching the table or the events.
LEMMA MoveInv ==
  ASSUME IInv, NEW p \in Handlers, NEW h \in HandlerRecords, LocalsOf(h, rides),
         handler' = [handler EXCEPT ![p] = h], rides' = rides, event' = event
  PROVE  IInv'
  <1>1. TypeOK' /\ TripHasDriver' /\ EventHasCause'
    BY DEF IInv, TypeOK, TripHasDriver, EventHasCause
  <1>2. LocalsOK'
    BY OthersKeepLocals DEF IInv, Grows
  <1> QED
    BY <1>1, <1>2 DEF IInv

\* An idle handler is well typed and knows nothing of the table.
LEMMA IdleHandler == Idle \in HandlerRecords /\ \A t : LocalsOf(Idle, t)
  BY DEF Idle, HandlerRecords, AbsentRow, Row, RideStatuses, LocalsOf, AcceptLocals,
         CancelLocals, CompleteLocals, ReleaseLocals, CreateLocals

\* Starting any use case keeps the invariant.
LEMMA RequestInv == ASSUME IInv, NEW p \in Handlers, Request(p) PROVE IInv'
  <1>1. CASE \E u \in Users, op \in {"create", "schedule"} : CreateCheck(p, u, op)
    <2> PICK u \in Users, op \in {"create", "schedule"} : CreateCheck(p, u, op)
      BY <1>1
    <2> QED
      BY StartInv DEF CreateCheck, LocalsOf, AcceptLocals, CancelLocals, CompleteLocals, ReleaseLocals,
         CreateLocals
  <1>2. CASE \E r \in Rides, d \in Drivers : AcceptRead(p, r, d)
    <2> PICK r \in Rides, d \in Drivers : AcceptRead(p, r, d)
      BY <1>2
    <2>1. r # None
      BY NoneAssumption
    <2>2. rides[r].status # "absent"
      BY DEF AcceptRead, canTransitionTo, ValidTransitions
    <2> QED
      BY <2>1, <2>2, StartInv DEF AcceptRead, LocalsOf, AcceptLocals, CancelLocals,
         CompleteLocals, ReleaseLocals, CreateLocals
  <1>3. CASE \E r \in Rides : CancelRead(p, r)
    <2> PICK r \in Rides : CancelRead(p, r)
      BY <1>3
    <2>1. r # None
      BY NoneAssumption
    <2>2. rides[r].status # "absent"
      BY DEF CancelRead, canTransitionTo, ValidTransitions
    <2> QED
      BY <2>1, <2>2, StartInv DEF CancelRead, LocalsOf, AcceptLocals, CancelLocals,
         CompleteLocals, ReleaseLocals, CreateLocals
  <1>5. CASE \E r \in Rides : ModifyRead(p, r)
    <2> PICK r \in Rides : ModifyRead(p, r)
      BY <1>5
    <2>1. r # None /\ rides[r].status # "absent"
      BY NoneAssumption DEF ModifyRead
    <2> QED
      BY <2>1, StartInv DEF ModifyRead, LocalsOf, AcceptLocals, CancelLocals,
         CompleteLocals, ReleaseLocals, CreateLocals
  <1>4. CASE \E r \in Rides : CompleteRead(p, r)
    <2> PICK r \in Rides : CompleteRead(p, r)
      BY <1>4
    <2>1. r # None
      BY NoneAssumption
    <2>2. rides[r].status = "in_progress"
      BY DEF CompleteRead, canTransitionTo, ValidTransitions
    <2>3. rides[r].driver # None /\ rides[r].driver \in Drivers
      BY <2>2 DEF IInv, TypeOK, TripHasDriver, OnTrip, Row
    <2> QED
      BY <2>1, <2>2, <2>3, StartInv DEF CompleteRead, LocalsOf, AcceptLocals,
         CancelLocals, CompleteLocals, ReleaseLocals, CreateLocals
  <1> QED
    BY <1>1, <1>2, <1>3, <1>4, <1>5 DEF Request

\* The created row takes an unused id, which no handler holds.
LEMMA CreateWriteInv == ASSUME IInv, NEW p \in Handlers, CreateWrite(p) PROVE IInv'
  <1>1. PICK r \in Rides :
             /\ handler[p].pc = "write" /\ handler[p].op \in {"create", "schedule"}
             /\ rides[r].status = "absent"
             /\ rides' = [rides EXCEPT ![r] =
                     [status |-> IF handler[p].op = "schedule" THEN "scheduled" ELSE "pending",
                      user |-> handler[p].who, driver |-> None]]
             /\ handler' = [handler EXCEPT ![p].pc = "emit", ![p].ride = r]
             /\ event' = event
    BY DEF CreateWrite
  <1> DEFINE h == [handler[p] EXCEPT !.pc = "emit", !.ride = r]
             row == [status |-> IF handler[p].op = "schedule" THEN "scheduled" ELSE "pending",
                     user |-> handler[p].who, driver |-> None]
  <1>2. handler[p] \in HandlerRecords /\ LocalsOf(handler[p], rides)
    BY DEF IInv, TypeOK, LocalsOK
  <1>3. h \in HandlerRecords /\ h.pc = "emit" /\ h.ride = r /\ h.op = handler[p].op
        /\ h.who = handler[p].who
    BY <1>2 DEF HandlerRecords
  <1>4. handler' = [handler EXCEPT ![p] = h]
    BY <1>1 DEF IInv, TypeOK
  <1>5. row \in Row /\ row.status # "absent" /\ row.status \notin OnTrip
    BY <1>1, <1>2 DEF Row, RideStatuses, OnTrip, LocalsOf, CreateLocals
  <1>7. LocalsOf(h, rides')
    <2>1. rides'[r].status # "absent"
      BY <1>1 DEF IInv, TypeOK
    <2> HIDE DEF h
    <2> QED
      BY <1>1, <1>2, <1>3, <2>1 DEF LocalsOf, AcceptLocals, CancelLocals, CompleteLocals, ReleaseLocals,
         CreateLocals
  <1> HIDE DEF h, row
  <1> QED
    BY <1>1, <1>3, <1>4, <1>5, <1>7, WriteInv DEF row

\* repo.update keeps the invariant when the row it writes names a driver where its
\* status needs one: what the four writes below have in common.
LEMMA UpdateInv ==
  ASSUME IInv, NEW p \in Handlers, NEW row \in Row, Update(p, row),
         handler[p].pc = "write", handler[p].op \in {"accept", "cancel", "complete", "release"},
         row.status # "absent",
         row.status \in OnTrip => row.driver # None
  PROVE  IInv'
  <1> DEFINE h == [handler[p] EXCEPT !.pc = "emit"]
             r == handler[p].ride
  <1>1. handler[p] \in HandlerRecords /\ LocalsOf(handler[p], rides)
    BY DEF IInv, TypeOK, LocalsOK
  <1>2. h \in HandlerRecords /\ h.pc = "emit" /\ h.ride = r /\ h.op = handler[p].op
        /\ h.who = handler[p].who /\ h.seen = handler[p].seen
    BY <1>1 DEF HandlerRecords
  <1>3. handler' = [handler EXCEPT ![p] = h] /\ event' = event
        /\ rides' = [rides EXCEPT ![r] = row]
    BY DEF Update, IInv, TypeOK
  <1>4. r \in Rides
    BY <1>1 DEF LocalsOf, AcceptLocals, CancelLocals, CompleteLocals, ReleaseLocals
  <1>5. LocalsOf(h, rides')
    <2>1. rides'[r] = row
      BY <1>3, <1>4 DEF IInv, TypeOK
    <2> HIDE DEF h
    <2> QED
      BY <1>1, <1>2, <2>1 DEF LocalsOf, AcceptLocals, CancelLocals, CompleteLocals, ReleaseLocals,
         CreateLocals
  <1> HIDE DEF h, r
  <1> QED
    BY <1>2, <1>3, <1>4, <1>5, WriteInv

\* The acceptance writes the driver together with the status that needs one.
LEMMA AcceptWriteInv == ASSUME IInv, NEW p \in Handlers, AcceptWrite(p) PROVE IInv'
  <1> DEFINE row == [RowNow(p) EXCEPT !.status = "accepted", !.driver = handler[p].who]
  <1>1. handler[p].ride \in Rides /\ handler[p].who \in Drivers /\ handler[p].who # None
    BY NoneAssumption DEF AcceptWrite, Ready, IInv, LocalsOK, LocalsOf, AcceptLocals
  <1>2. RowNow(p) \in Row
    BY <1>1 DEF RowNow, IInv, TypeOK
  <1>3. row \in Row /\ row.status = "accepted" /\ row.driver = handler[p].who
    BY <1>1, <1>2 DEF Row, RideStatuses
  <1>4. Update(p, row) /\ handler[p].pc = "write" /\ handler[p].op = "accept"
    BY DEF AcceptWrite, Ready
  <1> HIDE DEF row
  <1> QED
    BY <1>1, <1>3, <1>4, UpdateInv

\* A cancellation, stale or not, writes a status that needs no driver.
LEMMA CancelWriteInv == ASSUME IInv, NEW p \in Handlers, CancelWrite(p) PROVE IInv'
  <1> DEFINE row == [RowNow(p) EXCEPT !.status = "cancelled"]
  <1>1. handler[p].ride \in Rides
    BY DEF CancelWrite, Ready, IInv, LocalsOK, LocalsOf, CancelLocals
  <1>2. RowNow(p) \in Row
    BY <1>1 DEF RowNow, IInv, TypeOK
  <1>3. row \in Row /\ row.status = "cancelled" /\ row.driver = RowNow(p).driver
    BY <1>2 DEF Row, RideStatuses
  <1>4. Update(p, row) /\ handler[p].pc = "write" /\ handler[p].op = "cancel"
    BY DEF CancelWrite, Ready
  <1> HIDE DEF row
  <1> QED
    BY <1>3, <1>4, UpdateInv DEF OnTrip

\* A completion writes a final status: the row may have lost its driver since.
LEMMA CompleteWriteInv == ASSUME IInv, NEW p \in Handlers, CompleteWrite(p) PROVE IInv'
  <1> DEFINE row == [RowNow(p) EXCEPT !.status = "completed"]
  <1>1. handler[p].ride \in Rides
    BY DEF CompleteWrite, Ready, IInv, LocalsOK, LocalsOf, CompleteLocals
  <1>2. RowNow(p) \in Row
    BY <1>1 DEF RowNow, IInv, TypeOK
  <1>3. row \in Row /\ row.status = "completed"
    BY <1>2 DEF Row, RideStatuses
  <1>4. Update(p, row) /\ handler[p].pc = "write" /\ handler[p].op = "complete"
    BY DEF CompleteWrite, Ready
  <1> HIDE DEF row
  <1> QED
    BY <1>3, <1>4, UpdateInv DEF OnTrip

\* The worker takes the driver off and leaves a status that needs none.
LEMMA ReleaseWriteInv == ASSUME IInv, NEW p \in Handlers, ReleaseWrite(p) PROVE IInv'
  <1> DEFINE row == [RowNow(p) EXCEPT !.status = "searching", !.driver = None]
  <1>1. handler[p].ride \in Rides
    BY DEF ReleaseWrite, Ready, IInv, LocalsOK, LocalsOf, ReleaseLocals
  <1>2. RowNow(p) \in Row
    BY <1>1 DEF RowNow, IInv, TypeOK
  <1>3. row \in Row /\ row.status = "searching"
    BY <1>2 DEF Row, RideStatuses
  <1>4. Update(p, row) /\ handler[p].pc = "write" /\ handler[p].op = "release"
    BY DEF ReleaseWrite, Ready
  <1> HIDE DEF row
  <1> QED
    BY <1>3, <1>4, UpdateInv DEF OnTrip

\* The worker reads the row again: all it learns is that it is there.
LEMMA ReleaseReadInv == ASSUME IInv, NEW p \in Handlers, ReleaseRead(p) PROVE IInv'
  <1> DEFINE h == [handler[p] EXCEPT !.pc = "write"]
  <1>1. handler[p] \in HandlerRecords /\ LocalsOf(handler[p], rides) /\ handler[p].pc = "asked"
    BY DEF ReleaseRead, IInv, TypeOK, LocalsOK
  <1>2. handler[p].op = "release" /\ handler[p].ride \in Rides
    BY <1>1 DEF LocalsOf, AcceptLocals, CancelLocals, CompleteLocals, ReleaseLocals,
       CreateLocals, HandlerRecords
  <1>4. h \in HandlerRecords /\ h.pc = "write" /\ h.op = "release" /\ h.ride = handler[p].ride
    BY <1>1, <1>2 DEF HandlerRecords
  <1>5. handler' = [handler EXCEPT ![p] = h] /\ rides' = rides /\ event' = event
    BY DEF ReleaseRead, IInv, TypeOK
  <1>6. LocalsOf(h, rides)
    <2> HIDE DEF h
    <2> QED
      BY <1>1, <1>2, <1>4 DEF LocalsOf, AcceptLocals, CancelLocals, CompleteLocals,
         ReleaseLocals, CreateLocals
  <1> HIDE DEF h
  <1> QED
    BY <1>4, <1>5, <1>6, MoveInv

\* The count either ends the acceptance (driver busy) or lets it go on to write.
LEMMA AcceptCountInv == ASSUME IInv, NEW p \in Handlers, AcceptCount(p) PROVE IInv'
  <1> DEFINE h == [handler[p] EXCEPT !.pc = "write"]
  <1>1. handler[p] \in HandlerRecords /\ LocalsOf(handler[p], rides)
    BY DEF IInv, TypeOK, LocalsOK
  <1>2. h \in HandlerRecords /\ h.pc = "write" /\ h.ride = handler[p].ride
        /\ h.op = handler[p].op /\ h.who = handler[p].who /\ h.seen = handler[p].seen
    BY <1>1 DEF HandlerRecords
  <1>3. LocalsOf(h, rides)
    <2> HIDE DEF h
    <2> QED
      BY <1>1, <1>2 DEF AcceptCount, LocalsOf, AcceptLocals, CancelLocals,
         CompleteLocals, ReleaseLocals, CreateLocals
  <1>4. /\ \/ handler' = [handler EXCEPT ![p] = Idle]
           \/ handler' = [handler EXCEPT ![p] = h]
        /\ rides' = rides /\ event' = event
    BY DEF AcceptCount, IInv, TypeOK
  <1> HIDE DEF h
  <1> QED
    BY <1>2, <1>3, <1>4, MoveInv, IdleHandler

\* A handler that fails at an await leaves what it has written.
LEMMA AbortInv == ASSUME IInv, NEW p \in Handlers, Abort(p) PROVE IInv'
  BY MoveInv, IdleHandler DEF Abort

\* What a handler that has written publishes is about a row that is there, and an
\* acceptance or a completion names a driver.
LEMMA EventOfTrue ==
  ASSUME IInv, NEW p \in Handlers, handler[p].pc = "emit", event' = EventOf(handler[p]),
         rides' = rides
  PROVE  event' \in Events /\ EventHasCause'
  <1>1. handler[p] \in HandlerRecords /\ LocalsOf(handler[p], rides)
    BY DEF IInv, TypeOK, LocalsOK
  <1>2. EventOf(handler[p]) \in Events
    BY <1>1 DEF EventOf, Events, HandlerRecords, Row, LocalsOf, AcceptLocals,
       CancelLocals, CompleteLocals, ReleaseLocals, CreateLocals
  <1>3. EventHasCause'
    BY <1>1, NoneAssumption DEF EventOf, EventHasCause, HandlerRecords, LocalsOf,
       AcceptLocals, CancelLocals, CompleteLocals, ReleaseLocals, CreateLocals
  <1> QED
    BY <1>2, <1>3

\* The event a handler publishes is about a row it has written.
LEMMA EmitInv == ASSUME IInv, NEW p \in Handlers, Emit(p) PROVE IInv'
  <1>1. event' \in Events /\ EventHasCause'
    BY EventOfTrue DEF Emit
  <1>2. TypeOK' /\ TripHasDriver'
    BY <1>1, IdleHandler DEF Emit, IInv, TypeOK, TripHasDriver
  <1>3. LocalsOK'
    BY IdleHandler, OthersKeepLocals DEF IInv, Emit, Grows
  <1> QED
    BY <1>1, <1>2, <1>3 DEF IInv

\* A failed attempt of the worker goes back to the question, with or without its
\* event published.
LEMMA ReleaseRetryInv == ASSUME IInv, NEW p \in Handlers, ReleaseRetry(p) PROVE IInv'
  <1> DEFINE h == [handler[p] EXCEPT !.pc = "asked"]
  <1>1. handler[p] \in HandlerRecords /\ LocalsOf(handler[p], rides) /\ handler[p].op = "release"
    BY DEF ReleaseRetry, IInv, TypeOK, LocalsOK
  <1>2. h \in HandlerRecords /\ h.pc = "asked" /\ h.op = "release" /\ h.ride = handler[p].ride
    BY <1>1 DEF HandlerRecords
  <1>3. handler' = [handler EXCEPT ![p] = h] /\ rides' = rides
    BY DEF ReleaseRetry, IInv, TypeOK
  <1>4. LocalsOf(h, rides')
    <2> HIDE DEF h
    <2> QED
      BY <1>1, <1>2, <1>3 DEF LocalsOf, AcceptLocals, CancelLocals, CompleteLocals,
         ReleaseLocals, CreateLocals
  <1>5. LocalsOK'
    <2> HIDE DEF h
    <2> QED
      BY <1>2, <1>3, <1>4, OthersKeepLocals DEF IInv, Grows
  <1>6. event' \in Events \cup {NoEvent} /\ EventHasCause'
    <2>1. CASE event' = event
      BY <2>1, <1>3 DEF IInv, TypeOK, EventHasCause
    <2>2. CASE handler[p].pc = "emit" /\ event' = EventOf(handler[p])
      BY <2>2, <1>3, EventOfTrue
    <2> QED
      BY <2>1, <2>2 DEF ReleaseRetry
  <1>7. TypeOK' /\ TripHasDriver'
    <2> HIDE DEF h
    <2> QED
      BY <1>2, <1>3, <1>6 DEF IInv, TypeOK, TripHasDriver
  <1> QED
    BY <1>5, <1>6, <1>7 DEF IInv

\* The steps of a trip performed outside the repository keep the driver.
LEMMA ProgressInv == ASSUME IInv, NEW r \in Rides, ExternalProgress(r) PROVE IInv'
  <1>1. PICK s \in RideStatuses :
             /\ <<rides[r].status, s>> \in ExternalSteps
             /\ rides' = [rides EXCEPT ![r].status = s]
             /\ handler' = handler /\ event' = event
    BY DEF ExternalProgress
  <1>2. rides[r] \in Row
    BY DEF IInv, TypeOK
  <1>3. rides[r].status # "absent" /\ s # "absent"
        /\ (s \in OnTrip => rides[r].status \in OnTrip)
    BY <1>1 DEF ExternalSteps, OnTrip
  <1>4. Grows(rides, rides')
    BY <1>1, <1>3 DEF Grows, IInv, TypeOK
  <1>5. TypeOK'
    BY <1>1, <1>2 DEF IInv, TypeOK, Row
  <1>6. TripHasDriver'
    BY <1>1, <1>2, <1>3 DEF IInv, TypeOK, Row, TripHasDriver
  <1>7. LocalsOK'
    BY <1>1, <1>4, LocalsStable DEF IInv, TypeOK, LocalsOK
  <1>8. EventHasCause'
    BY <1>1, <1>4, EventStable DEF IInv
  <1> QED
    BY <1>5, <1>6, <1>7, <1>8 DEF IInv

\* Every step keeps the inductive invariant.
LEMMA StepInv == IInv /\ [Next]_ridesVars => IInv'
  <1> SUFFICES ASSUME IInv, [Next]_ridesVars PROVE IInv'
    OBVIOUS
  <1>1. ASSUME NEW p \in Handlers, Continue(p) PROVE IInv'
    BY <1>1, CreateWriteInv, AcceptCountInv, AcceptWriteInv, CancelWriteInv,
       CompleteWriteInv, ReleaseReadInv, ReleaseWriteInv, ReleaseRetryInv, EmitInv, AbortInv
    DEF Continue
  <1>2. CASE UNCHANGED ridesVars
    BY <1>2 DEF ridesVars, IInv, TypeOK, LocalsOK, TripHasDriver,
       EventHasCause
  <1> QED
    BY <1>1, <1>2, RequestInv, ProgressInv DEF Next

-----------------------------------------------------------------------------

\* The inductive invariant holds in every reachable state.
LEMMA Invariance == Spec => []IInv
  BY InitInv, StepInv, PTL DEF Spec

\* Every reachable state is well typed: the ids a handler writes and publishes
\* are those it read.
THEOREM TypeCorrect == Spec => []TypeOK
  <1>1. IInv => TypeOK
    BY DEF IInv
  <1> QED
    BY <1>1, Invariance, PTL

\* A trip under way names a driver, however the use cases interleave with the
\* worker that releases one: the release writes both columns in one statement, and
\* no handler writes a status of a trip without its driver.
THEOREM TripHasDriverTheorem == Spec => []TripHasDriver
  <1>1. IInv => TripHasDriver
    BY DEF IInv
  <1> QED
    BY <1>1, Invariance, PTL

\* RIDE_ACCEPTED and RIDE_COMPLETED carry a driver (the payload of
\* CompleteRideUseCase asserts ride.driverId!), taken from what the handler read,
\* and no event is about a ride that is not there.
THEOREM EventHasCauseTheorem == Spec => []EventHasCause
  <1>1. IInv => EventHasCause
    BY DEF IInv
  <1> QED
    BY <1>1, Invariance, PTL

\* Each changed row is created, follows VALID_TRANSITIONS, or is written by a
\* handler that had read an older version of it.
LEMMA StepObeysTable ==
  ASSUME IInv, Next, NEW r \in Rides, rides'[r] # rides[r], ~StaleWrite(r), ~Released(r)
  PROVE  Created(r) \/ canTransitionTo(rides[r].status, rides'[r].status)
  <1>1. ASSUME NEW p \in Handlers, Request(p) PROVE FALSE
    BY <1>1 DEF Request, CreateCheck, AcceptRead, CancelRead, CompleteRead, ModifyRead, Start
  <1>2. ASSUME NEW p \in Handlers, CreateWrite(p) PROVE Created(r)
    BY <1>2 DEF CreateWrite, Created, IInv, TypeOK
  <1>3. ASSUME NEW p \in Handlers, NEW to \in RideStatuses,
               NEW row \in Row, row.status = to, Update(p, row), handler[p].pc = "write",
               canTransitionTo(handler[p].seen.status, to)
        PROVE  canTransitionTo(rides[r].status, rides'[r].status)
    <2>1. handler[p].ride = r /\ rides'[r] = row
      BY <1>3 DEF Update, IInv, TypeOK
    <2>2. handler[p] \in HandlerRecords /\ handler'[p].pc = "emit"
      BY <1>3 DEF Update, IInv, TypeOK, HandlerRecords
    <2>3. handler[p].seen = rides[r]
      BY <1>3, <2>1, <2>2 DEF StaleWrite
    <2> QED
      BY <1>3, <2>1, <2>3
  <1>4. ASSUME NEW p \in Handlers, AcceptWrite(p)
        PROVE  canTransitionTo(rides[r].status, rides'[r].status)
    <2> DEFINE row == [RowNow(p) EXCEPT !.status = "accepted", !.driver = handler[p].who]
    <2>1. handler[p].ride \in Rides /\ handler[p].who \in Drivers
          /\ canTransitionTo(handler[p].seen.status, "accepted")
      BY <1>4 DEF AcceptWrite, Ready, IInv, LocalsOK, LocalsOf, AcceptLocals
    <2>2. row \in Row /\ row.status = "accepted"
      <3>1. RowNow(p) \in Row
        BY <2>1 DEF RowNow, IInv, TypeOK
      <3> QED
        BY <2>1, <3>1 DEF Row, RideStatuses
    <2>3. Update(p, row) /\ handler[p].pc = "write"
      BY <1>4 DEF AcceptWrite, Ready
    <2> HIDE DEF row
    <2> QED
      BY <2>1, <2>2, <2>3, <1>3 DEF RideStatuses
  <1>5. ASSUME NEW p \in Handlers, CancelWrite(p)
        PROVE  canTransitionTo(rides[r].status, rides'[r].status)
    <2> DEFINE row == [RowNow(p) EXCEPT !.status = "cancelled"]
    <2>1. handler[p].ride \in Rides /\ canTransitionTo(handler[p].seen.status, "cancelled")
      BY <1>5 DEF CancelWrite, Ready, IInv, LocalsOK, LocalsOf, CancelLocals
    <2>2. row \in Row /\ row.status = "cancelled"
      BY <2>1 DEF RowNow, IInv, TypeOK, Row, RideStatuses
    <2>3. Update(p, row) /\ handler[p].pc = "write"
      BY <1>5 DEF CancelWrite, Ready
    <2> HIDE DEF row
    <2> QED
      BY <2>1, <2>2, <2>3, <1>3 DEF RideStatuses
  <1>6. ASSUME NEW p \in Handlers, CompleteWrite(p)
        PROVE  canTransitionTo(rides[r].status, rides'[r].status)
    <2> DEFINE row == [RowNow(p) EXCEPT !.status = "completed"]
    <2>1. handler[p].ride \in Rides /\ canTransitionTo(handler[p].seen.status, "completed")
      BY <1>6 DEF CompleteWrite, Ready, IInv, LocalsOK, LocalsOf, CompleteLocals
    <2>2. row \in Row /\ row.status = "completed"
      BY <2>1 DEF RowNow, IInv, TypeOK, Row, RideStatuses
    <2>3. Update(p, row) /\ handler[p].pc = "write"
      BY <1>6 DEF CompleteWrite, Ready
    <2> HIDE DEF row
    <2> QED
      BY <2>1, <2>2, <2>3, <1>3 DEF RideStatuses
  <1>7. ASSUME NEW p \in Handlers,
               AcceptCount(p) \/ ReleaseRead(p) \/ ReleaseRetry(p) \/ Emit(p) \/ Abort(p)
        PROVE  FALSE
    BY <1>7 DEF AcceptCount, ReleaseRead, ReleaseRetry, Emit, Abort
  <1>9. ASSUME NEW p \in Handlers, ReleaseWrite(p) PROVE FALSE
    <2>1. handler[p].ride = r
      BY <1>9 DEF ReleaseWrite, Update, IInv, TypeOK
    <2>2. handler[p] \in HandlerRecords /\ handler'[p].pc = "emit"
      BY <1>9 DEF ReleaseWrite, Update, IInv, TypeOK, HandlerRecords
    <2> QED
      BY <1>9, <2>1, <2>2 DEF ReleaseWrite, Ready, Released
  <1>8. ASSUME NEW x \in Rides, ExternalProgress(x)
        PROVE  canTransitionTo(rides[r].status, rides'[r].status)
    BY <1>8 DEF ExternalProgress, ExternalSteps, canTransitionTo, ValidTransitions, IInv,
       TypeOK, Row
  <1> QED
    BY <1>1, <1>2, <1>4, <1>5, <1>6, <1>7, <1>8, <1>9 DEF Next, Continue

\* VALID_TRANSITIONS is obeyed by every write except those of handlers whose row
\* changed under them and the worker's release, however many handlers run.
THEOREM TableObeyed == Spec => TableObeyedUnlessStale
  <1>1. IInv /\ [Next]_ridesVars =>
          [\A r \in Rides : rides'[r] # rides[r] =>
              \/ Created(r)
              \/ canTransitionTo(rides[r].status, rides'[r].status)
              \/ StaleWrite(r)
              \/ Released(r)]_ridesVars
    BY StepObeysTable
  <1> QED
    BY <1>1, Invariance, PTL DEF Spec, TableObeyedUnlessStale

-----------------------------------------------------------------------------
(* Scheduled rides *)


SchedHandlers ==
    [pc : {"idle", "write", "emit"},
     op : {"none", "schedule", "cancel", "reschedule"} \cup SystemOps,
     ride : Rides \cup {None}, who : Users \cup {None}, seen : Row]

\* A ride that has left "scheduled" never comes back to it.
Left(row) == row.status \notin {"absent", "scheduled"}

\* What a handler that has passed its checks knows of the table and of the hand-overs.
SchedLocalsOf(h, t, req) ==
    /\ h.op = "none" <=> h.pc = "idle"
    /\ h.op = "schedule" => h.who \in Users
    /\ h.op \in {"cancel", "reschedule"} \cup SystemOps =>
          h.ride \in Rides /\ t[h.ride].status # "absent"
    /\ h.op = "cancel" => canTransitionTo(h.seen.status, "cancelled")
    /\ h.op \in SystemOps => h.seen.status = "scheduled"
    /\ h.op = "trigger" => /\ req[h.ride] = 0
                           /\ h.pc = "emit" => Left(t[h.ride])

HandlersOK ==
    /\ handler \in [Handlers -> SchedHandlers]
    /\ \A p \in Handlers : SchedLocalsOf(handler[p], rides, requested)

Works(h, r) == h.op \in WorkerOps /\ h.ride = r

\* The queue runs a job at most once at a time.
OneWorker == \A p, q \in Handlers, r \in Rides : Works(handler[p], r) /\ Works(handler[q], r) => p = q

RowsTimed == \A r \in Rides : rides[r].status # "absent" => scheduledAt[r] \in Times

\* A job that may still run has an attempt left.
AttemptsLeft ==
    \A r \in Rides : job[r].state \in {"delayed", "active"} => job[r].attempts < MaxAttempts

\* A ride that was handed over has left "scheduled".
HandedOverLeft == \A r \in Rides : requested[r] <= 1 /\ (requested[r] > 0 => Left(rides[r]))

SchedIInv == SchedTypeOK /\ HandlersOK /\ OneWorker /\ RowsTimed /\ AttemptsLeft /\ HandedOverLeft

-----------------------------------------------------------------------------

\* The rest of SchedTypeOK: the lock of the queue, and the types.
Lock == \A r \in Rides : job[r].state = "active" <=> \E p \in Handlers : Works(handler[p], r)

Types ==
    /\ rides \in [Rides -> Row]
    /\ now \in Times
    /\ scheduledAt \in [Rides -> Times \cup {None}]
    /\ scan \subseteq Rides \X Times
    /\ job \in [Rides -> [state : {"none", "delayed", "active", "ended"},
                          due : Times, attempts : 0..MaxAttempts]]
    /\ requested \in [Rides -> Nat]

\* The type invariant is the types and the lock of the queue.
LEMMA TypesAndLock == SchedTypeOK <=> Types /\ Lock
  BY DEF SchedTypeOK, Types, Lock, Working, Works

\* A handler at rest is typed, knows nothing and works on nothing.
LEMMA SchedIdleHandler ==
  /\ Idle \in SchedHandlers /\ Idle.pc = "idle" /\ Idle.op = "none"
  /\ \A t, req : SchedLocalsOf(Idle, t, req)
  /\ \A r : ~Works(Idle, r)
  BY DEF Idle, SchedHandlers, AbsentRow, Row, RideStatuses, SchedLocalsOf, Works, WorkerOps, SystemOps

\* The initial states satisfy the invariant.
LEMMA SchedInitInv == SchedInit => SchedIInv
  <1> SUFFICES ASSUME SchedInit PROVE SchedIInv
    OBVIOUS
  <1>1. Types
    <2>1. AbsentRow \in Row
      BY DEF AbsentRow, Row, RideStatuses
    <2>2. NoJob \in [state : {"none", "delayed", "active", "ended"}, due : Times, attempts : 0..MaxAttempts]
      BY TimingAssumption DEF NoJob, Times
    <2> QED
      BY <2>1, <2>2, TimingAssumption DEF SchedInit, Init, Types, Times
  <1>2. Lock /\ HandlersOK /\ OneWorker
    BY SchedIdleHandler DEF SchedInit, Init, Lock, HandlersOK, OneWorker, NoJob
  <1>3. RowsTimed /\ AttemptsLeft /\ HandedOverLeft
    BY DEF SchedInit, Init, RowsTimed, AttemptsLeft, HandedOverLeft, AbsentRow, NoJob
  <1> QED
    BY <1>1, <1>2, <1>3, TypesAndLock DEF SchedIInv

\* Rows are not deleted, and those that left "scheduled" stay away from it.
Onward(t1, t2) ==
    \A r \in Rides :
        /\ t1[r].status # "absent" => t2[r].status # "absent"
        /\ Left(t1[r]) => Left(t2[r])

\* What a handler knows stays true as the table goes on, as long as its own ride
\* is not handed over.
LEMMA SchedLocalsStable ==
  ASSUME NEW h, NEW t1, NEW t2, NEW req1, NEW req2, SchedLocalsOf(h, t1, req1), Onward(t1, t2),
         h.op = "trigger" => req2[h.ride] = req1[h.ride]
  PROVE  SchedLocalsOf(h, t2, req2)
  BY DEF SchedLocalsOf, Onward, SystemOps, WorkerOps

\* After a step of one handler only its own locals have to be looked at.
LEMMA SchedOthersKeepLocals ==
  ASSUME HandlersOK, NEW p \in Handlers, NEW h \in SchedHandlers,
         handler' = [handler EXCEPT ![p] = h], SchedLocalsOf(h, rides', requested'),
         Onward(rides, rides'),
         \A q \in Handlers \ {p} : handler[q].op = "trigger" =>
             requested'[handler[q].ride] = requested[handler[q].ride]
  PROVE  HandlersOK'
  <1>1. handler' \in [Handlers -> SchedHandlers]
    BY DEF HandlersOK
  <1>2. ASSUME NEW q \in Handlers PROVE SchedLocalsOf(handler'[q], rides', requested')
    <2>1. CASE q = p
      BY <2>1 DEF HandlersOK
    <2>2. CASE q # p
      <3>1. handler'[q] = handler[q] /\ SchedLocalsOf(handler[q], rides, requested)
        BY <2>2 DEF HandlersOK
      <3> QED
        BY <2>2, <3>1, SchedLocalsStable
    <2> QED
      BY <2>1, <2>2
  <1> QED
    BY <1>1, <1>2 DEF HandlersOK

\* A handler that works on the same as before leaves the lock as it is.
LEMMA SameWork ==
  ASSUME Lock, OneWorker, HandlersOK, NEW p \in Handlers, NEW h,
         handler' = [handler EXCEPT ![p] = h],
         \A r \in Rides : Works(h, r) <=> Works(handler[p], r),
         \A r \in Rides : job'[r].state = "active" <=> job[r].state = "active"
  PROVE  Lock' /\ OneWorker'
  <1>1. \A q \in Handlers, r \in Rides : Works(handler'[q], r) <=> Works(handler[q], r)
    BY DEF HandlersOK
  <1> QED
    BY <1>1 DEF Lock, OneWorker

\* A worker that stops gives up the lock of its ride.
LEMMA EndOfWork ==
  ASSUME Lock, OneWorker, HandlersOK, NEW p \in Handlers, NEW x \in Rides, Works(handler[p], x),
         handler' = [handler EXCEPT ![p] = Idle], job'[x].state # "active",
         \A r \in Rides \ {x} : job'[r] = job[r]
  PROVE  Lock' /\ OneWorker'
  <1>1. \A q \in Handlers : handler'[q] = IF q = p THEN Idle ELSE handler[q]
    BY DEF HandlersOK
  <1>2. \A q \in Handlers, r \in Rides : Works(handler'[q], r) => Works(handler[q], r) /\ r # x
    BY <1>1, SchedIdleHandler DEF OneWorker
  <1>3. \A q \in Handlers, r \in Rides \ {x} : Works(handler[q], r) => Works(handler'[q], r)
    BY <1>1 DEF Works
  <1> QED
    BY <1>2, <1>3 DEF Lock, OneWorker

\* A worker that starts on a delayed job takes the lock of its ride.
LEMMA StartOfWork ==
  ASSUME Lock, OneWorker, HandlersOK, NEW p \in Handlers, NEW x \in Rides, handler[p] = Idle,
         NEW h, handler' = [handler EXCEPT ![p] = h], Works(h, x),
         job[x].state = "delayed", job'[x].state = "active",
         \A r \in Rides \ {x} : job'[r] = job[r]
  PROVE  Lock' /\ OneWorker'
  <1>1. \A q \in Handlers : handler'[q] = IF q = p THEN h ELSE handler[q]
    BY DEF HandlersOK
  <1>2. \A r \in Rides : Works(h, r) => r = x
    BY DEF Works
  <1>3. \A q \in Handlers : ~Works(handler[q], x)
    BY DEF Lock
  <1>4. \A r \in Rides : ~Works(handler[p], r)
    BY SchedIdleHandler
  <1>5. \A q \in Handlers, r \in Rides \ {x} : Works(handler'[q], r) <=> Works(handler[q], r)
    BY <1>1, <1>2, <1>4
  <1>6. \A q \in Handlers : Works(handler'[q], x) <=> q = p
    BY <1>1, <1>3
  <1> QED
    BY <1>5, <1>6 DEF Lock, OneWorker

-----------------------------------------------------------------------------
(* The handlers. *)

\* A handler that moves on without touching the table or the queue.
LEMMA SchedMoveInv ==
  ASSUME SchedIInv, NEW p \in Handlers, NEW h \in SchedHandlers,
         handler' = [handler EXCEPT ![p] = h], SchedLocalsOf(h, rides, requested),
         \A r \in Rides : Works(h, r) <=> Works(handler[p], r),
         rides' = rides, UNCHANGED <<now, scan, job, requested>>,
         scheduledAt' \in [Rides -> Times \cup {None}],
         \A r \in Rides : scheduledAt'[r] = scheduledAt[r] \/ scheduledAt'[r] \in Times
  PROVE  SchedIInv'
  <1>1. Types' /\ RowsTimed' /\ AttemptsLeft' /\ HandedOverLeft'
    BY TypesAndLock DEF SchedIInv, Types, RowsTimed, AttemptsLeft, HandedOverLeft
  <1>2. HandlersOK'
    BY SchedOthersKeepLocals DEF SchedIInv, Onward
  <1>3. Lock' /\ OneWorker'
    BY SameWork, TypesAndLock DEF SchedIInv
  <1>4. SchedTypeOK'
    <2>1. SchedTypeOK' <=> Types' /\ Lock'
      BY DEF SchedTypeOK, Types, Lock, Working, Works
    <2> QED
      BY <1>1, <1>3, <2>1
  <1> QED
    BY <1>1, <1>2, <1>3, <1>4 DEF SchedIInv

\* A handler that starts keeps the row it read.
LEMMA StartTyped ==
  ASSUME SchedIInv, NEW p \in Handlers, NEW op \in {"schedule", "cancel", "reschedule"} \cup SystemOps,
         NEW r \in Rides \cup {None}, NEW who \in Users \cup {None}
  PROVE  LET h == [pc |-> "write", op |-> op, ride |-> r, who |-> who,
                   seen |-> IF r = None THEN AbsentRow ELSE rides[r]]
         IN  /\ h \in SchedHandlers
             /\ h.pc = "write" /\ h.op = op /\ h.ride = r /\ h.who = who
             /\ r # None => h.seen = rides[r]
  <1>1. AbsentRow \in Row /\ (r # None => rides[r] \in Row)
    BY TypesAndLock DEF AbsentRow, Row, RideStatuses, SchedIInv, Types
  <1> QED
    BY <1>1 DEF SchedHandlers

\* A request of the passenger or of the cron that starts knows the row it read.
LEMMA SchedStartInv ==
  ASSUME SchedIInv, NEW p \in Handlers, NEW op \in {"schedule", "cancel", "reschedule", "stale"},
         NEW r \in Rides \cup {None}, NEW who \in Users \cup {None},
         Start(p, "write", op, r, who), UNCHANGED schedVars,
         op = "schedule" => who \in Users,
         op # "schedule" => r \in Rides /\ rides[r].status # "absent",
         op = "cancel" => canTransitionTo(rides[r].status, "cancelled"),
         op = "stale" => rides[r].status = "scheduled"
  PROVE  SchedIInv'
  <1> DEFINE h == [pc |-> "write", op |-> op, ride |-> r, who |-> who,
                   seen |-> IF r = None THEN AbsentRow ELSE rides[r]]
  <1>1. /\ h \in SchedHandlers
        /\ h.pc = "write" /\ h.op = op /\ h.ride = r /\ h.who = who
        /\ r # None => h.seen = rides[r]
    BY StartTyped DEF SystemOps
  <1>2. /\ handler' = [handler EXCEPT ![p] = h] /\ handler[p] = Idle
        /\ rides' = rides /\ UNCHANGED <<now, scheduledAt, scan, job, requested>>
    BY DEF Start, schedVars
  <1> HIDE DEF h
  <1>3. op # "schedule" => r # None
    BY NoneAssumption
  <1>4. SchedLocalsOf(h, rides, requested)
    BY <1>1, <1>3 DEF SchedLocalsOf, SystemOps, WorkerOps
  <1>5. \A x \in Rides : Works(h, x) <=> Works(handler[p], x)
    BY <1>1, <1>2, SchedIdleHandler DEF Works, WorkerOps
  <1>6. scheduledAt \in [Rides -> Times \cup {None}]
    BY TypesAndLock DEF SchedIInv, Types
  <1> QED
    BY <1>1, <1>2, <1>4, <1>5, <1>6, SchedMoveInv

\* A handler that ends and does not work for the queue.
LEMMA EndInv ==
  ASSUME SchedIInv, NEW p \in Handlers, handler[p].op \notin WorkerOps,
         handler' = [handler EXCEPT ![p] = Idle], rides' = rides, UNCHANGED schedVars
  PROVE  SchedIInv'
  <1>1. scheduledAt \in [Rides -> Times \cup {None}]
    BY TypesAndLock DEF SchedIInv, Types
  <1>2. \A r \in Rides : Works(Idle, r) <=> Works(handler[p], r)
    BY SchedIdleHandler DEF Works
  <1> QED
    BY <1>1, <1>2, SchedIdleHandler, SchedMoveInv DEF schedVars

\* The steps of booking and cancelling that do not write a row.
LEMMA UseCaseInv ==
  ASSUME SchedIInv, NEW p \in Handlers, UseCase(p), ~CancelWrite(p)
  PROVE  SchedIInv'
  <1>1. UNCHANGED schedVars
    BY DEF UseCase
  <1>2. CASE \E u \in Users : CreateCheck(p, u, "schedule")
    BY <1>1, <1>2, SchedStartInv DEF CreateCheck
  <1>3. CASE \E r \in Rides : CancelRead(p, r)
    <2>1. PICK r \in Rides : CancelRead(p, r)
      BY <1>3
    <2>2. rides[r].status # "absent" /\ canTransitionTo(rides[r].status, "cancelled")
      BY <2>1 DEF CancelRead, canTransitionTo, ValidTransitions
    <2> QED
      BY <1>1, <2>1, <2>2, SchedStartInv DEF CancelRead
  <1>4. CASE handler[p].op \notin SystemOps /\ Emit(p)
    BY <1>1, <1>4, EndInv DEF Emit, SystemOps
  <1>5. CASE handler[p].op \notin WorkerOps /\ Abort(p)
    BY <1>1, <1>5, EndInv DEF Abort
  <1> QED
    BY <1>2, <1>3, <1>4, <1>5 DEF UseCase

\* A write of a row that was there and whose new status is not "scheduled": the
\* cancellations, and the move of the worker to "searching".
LEMMA SchedUpdateInv ==
  ASSUME SchedIInv, NEW p \in Handlers, NEW s \in {"searching", "cancelled"},
         handler[p].op \in {"cancel"} \cup SystemOps, handler[p].pc = "write",
         Update(p, [RowNow(p) EXCEPT !.status = s]), UNCHANGED schedVars
  PROVE  SchedIInv'
  <1> DEFINE h == [handler[p] EXCEPT !.pc = "emit"]
             x == handler[p].ride
             row == [rides[x] EXCEPT !.status = s]
  <1>1. handler[p] \in SchedHandlers /\ SchedLocalsOf(handler[p], rides, requested)
    BY DEF SchedIInv, HandlersOK
  <1>2. x \in Rides /\ rides[x] \in Row /\ rides[x].status # "absent"
    BY <1>1, TypesAndLock DEF SchedLocalsOf, SchedIInv, Types
  <1>3. /\ h \in SchedHandlers /\ h.pc = "emit" /\ h.op = handler[p].op /\ h.ride = x
        /\ h.who = handler[p].who /\ h.seen = handler[p].seen
    BY <1>1 DEF SchedHandlers
  <1>4. row \in Row /\ Left(row) /\ row.status # "absent"
    BY <1>2 DEF Row, RideStatuses, Left
  <1>5. /\ handler' = [handler EXCEPT ![p] = h]
        /\ rides' = [rides EXCEPT ![x] = row]
        /\ UNCHANGED <<now, scheduledAt, scan, job, requested>>
    BY DEF Update, RowNow, schedVars, SchedIInv, HandlersOK
  <1> HIDE DEF h, x, row
  <1>6. \A r \in Rides : rides'[r] = IF r = x THEN row ELSE rides[r]
    BY <1>5, TypesAndLock DEF SchedIInv, Types
  <1>7. Onward(rides, rides')
    BY <1>4, <1>6 DEF Onward
  <1>8. Types'
    BY <1>4, <1>5, TypesAndLock DEF SchedIInv, Types
  <1>9. RowsTimed' /\ AttemptsLeft' /\ HandedOverLeft'
    BY <1>2, <1>4, <1>5, <1>6 DEF SchedIInv, RowsTimed, AttemptsLeft, HandedOverLeft
  <1>10. SchedLocalsOf(h, rides', requested')
    BY <1>1, <1>2, <1>3, <1>4, <1>5, <1>6 DEF SchedLocalsOf, SystemOps, WorkerOps, x
  <1>11. HandlersOK'
    BY <1>3, <1>5, <1>7, <1>10, SchedOthersKeepLocals DEF SchedIInv
  <1>12. \A r \in Rides : Works(h, r) <=> Works(handler[p], r)
    BY <1>3 DEF Works, x
  <1>13. Lock' /\ OneWorker'
    BY <1>5, <1>12, SameWork, TypesAndLock DEF SchedIInv
  <1>14. SchedTypeOK' <=> Types' /\ Lock'
    BY DEF SchedTypeOK, Types, Lock, Working, Works
  <1> QED
    BY <1>8, <1>9, <1>11, <1>13, <1>14 DEF SchedIInv

\* The booking takes an id that no handler and no hand-over knows.
LEMMA BookingInv ==
  ASSUME SchedIInv, NEW p \in Handlers, CreateScheduledWrite(p)
  PROVE  SchedIInv'
  <1>1. PICK x \in Rides :
             /\ handler[p].pc = "write" /\ handler[p].op \in {"create", "schedule"}
             /\ rides[x].status = "absent"
             /\ rides' = [rides EXCEPT ![x] =
                     [status |-> IF handler[p].op = "schedule" THEN "scheduled" ELSE "pending",
                      user |-> handler[p].who, driver |-> None]]
             /\ handler' = [handler EXCEPT ![p].pc = "emit", ![p].ride = x]
    BY DEF CreateScheduledWrite, CreateWrite
  <1>2. handler[p] \in SchedHandlers /\ SchedLocalsOf(handler[p], rides, requested)
    BY DEF SchedIInv, HandlersOK
  <1>3. handler[p].op = "schedule" /\ handler[p].who \in Users
    BY <1>1, <1>2 DEF SchedHandlers, SchedLocalsOf, SystemOps, WorkerOps
  <1> DEFINE h == [handler[p] EXCEPT !.pc = "emit", !.ride = x]
             row == [status |-> "scheduled", user |-> handler[p].who, driver |-> None]
  <1>4. /\ h \in SchedHandlers /\ h.pc = "emit" /\ h.op = "schedule" /\ h.who \in Users
    BY <1>2, <1>3 DEF SchedHandlers
  <1>5. row \in Row /\ row.status = "scheduled"
    BY <1>3 DEF Row, RideStatuses
  <1>6. handler' = [handler EXCEPT ![p] = h] /\ rides' = [rides EXCEPT ![x] = row]
    BY <1>1, <1>3 DEF SchedIInv, HandlersOK
  <1> HIDE DEF h, row
  <1>7. \A r \in Rides : rides'[r] = IF r = x THEN row ELSE rides[r]
    BY <1>6, TypesAndLock DEF SchedIInv, Types
  <1>8. PICK t \in Bookable : \E r \in Rides : rides'[r] # rides[r]
        /\ scheduledAt' = [scheduledAt EXCEPT ![r] = t]
    BY DEF CreateScheduledWrite
  <1>9. scheduledAt' = [scheduledAt EXCEPT ![x] = t] /\ UNCHANGED <<now, scan, job, requested>>
    BY <1>7, <1>8 DEF CreateScheduledWrite
  <1>10. t \in Times
    BY TimingAssumption DEF Bookable, Times
  <1>11. Types'
    BY <1>5, <1>6, <1>9, <1>10, TypesAndLock DEF SchedIInv, Types
  <1>12. requested[x] = 0
    BY <1>1, TypesAndLock DEF SchedIInv, HandedOverLeft, Left, Types
  <1>13. Onward(rides, rides')
    BY <1>1, <1>5, <1>7 DEF Onward, Left
  <1>14. RowsTimed' /\ AttemptsLeft' /\ HandedOverLeft'
    <2>1. \A r \in Rides : scheduledAt'[r] = IF r = x THEN t ELSE scheduledAt[r]
      BY <1>9, TypesAndLock DEF SchedIInv, Types
    <2> QED
      BY <1>5, <1>7, <1>9, <1>10, <1>12, <2>1 DEF SchedIInv, RowsTimed, AttemptsLeft, HandedOverLeft
  <1>15. HandlersOK'
    <2>1. SchedLocalsOf(h, rides', requested')
      BY <1>4 DEF SchedLocalsOf, SystemOps, WorkerOps
    <2> QED
      BY <1>4, <1>6, <1>9, <1>13, <2>1, SchedOthersKeepLocals DEF SchedIInv
  <1>16. \A r \in Rides : Works(h, r) <=> Works(handler[p], r)
    BY <1>3, <1>4 DEF Works, WorkerOps
  <1>17. Lock' /\ OneWorker'
    BY <1>6, <1>9, <1>16, SameWork, TypesAndLock DEF SchedIInv
  <1>18. SchedTypeOK' <=> Types' /\ Lock'
    BY DEF SchedTypeOK, Types, Lock, Working, Works
  <1> QED
    BY <1>11, <1>14, <1>15, <1>17, <1>18 DEF SchedIInv

\* The new time of a ride is one of the clock.
LEMMA RescheduleInv ==
  ASSUME SchedIInv, NEW p \in Handlers, RescheduleWrite(p)
  PROVE  SchedIInv'
  <1>1. PICK t \in Bookable : scheduledAt' = [scheduledAt EXCEPT ![handler[p].ride] = t]
    BY DEF RescheduleWrite
  <1>2. t \in Times
    BY TimingAssumption DEF Bookable, Times
  <1>3. scheduledAt \in [Rides -> Times \cup {None}]
    BY TypesAndLock DEF SchedIInv, Types
  <1>4. /\ scheduledAt' \in [Rides -> Times \cup {None}]
        /\ \A r \in Rides : scheduledAt'[r] = scheduledAt[r] \/ scheduledAt'[r] \in Times
    BY <1>1, <1>2, <1>3
  <1>5. \A r \in Rides : Works(Idle, r) <=> Works(handler[p], r)
    BY SchedIdleHandler DEF RescheduleWrite, Ready, Works, WorkerOps
  <1>6. /\ handler' = [handler EXCEPT ![p] = Idle] /\ rides' = rides
        /\ UNCHANGED <<now, scan, job, requested>>
    BY DEF RescheduleWrite
  <1> QED
    BY <1>4, <1>5, <1>6, SchedIdleHandler, SchedMoveInv

-----------------------------------------------------------------------------
(* The worker and the queue. *)

\* The worker takes a delayed job of a scheduled ride, which was not handed over.
LEMMA TriggerInv ==
  ASSUME SchedIInv, NEW p \in Handlers, NEW x \in Rides, TriggerRead(p, x)
  PROVE  SchedIInv'
  <1>1. PICK op \in {"trigger", "overdue"} : Start(p, "write", op, x, None)
    BY DEF TriggerRead
  <1> DEFINE h == [pc |-> "write", op |-> op, ride |-> x, who |-> None,
                   seen |-> IF x = None THEN AbsentRow ELSE rides[x]]
  <1>2. h \in SchedHandlers /\ h.pc = "write" /\ h.op = op /\ h.ride = x /\ h.seen = rides[x]
    BY StartTyped, NoneAssumption DEF SystemOps, WorkerOps
  <1>3. /\ handler' = [handler EXCEPT ![p] = h] /\ handler[p] = Idle /\ rides' = rides
        /\ rides[x].status = "scheduled" /\ job[x].state = "delayed"
        /\ job' = [job EXCEPT ![x].state = "active"]
        /\ UNCHANGED <<now, scheduledAt, scan, requested>>
    BY <1>1 DEF Start, TriggerRead, Due
  <1> HIDE DEF h
  <1>4. requested[x] = 0
    BY <1>3, TypesAndLock DEF SchedIInv, HandedOverLeft, Left, Types
  <1>5. Types' /\ AttemptsLeft' /\ job'[x].state = "active" /\ \A r \in Rides \ {x} : job'[r] = job[r]
    BY <1>3, TypesAndLock DEF SchedIInv, Types, AttemptsLeft
  <1>6. RowsTimed' /\ HandedOverLeft'
    BY <1>3 DEF SchedIInv, RowsTimed, HandedOverLeft
  <1>7. SchedLocalsOf(h, rides', requested')
    BY <1>2, <1>3, <1>4 DEF SchedLocalsOf, SystemOps, WorkerOps
  <1>8. HandlersOK'
    BY <1>2, <1>3, <1>7, SchedOthersKeepLocals DEF SchedIInv, Onward
  <1>9. Works(h, x)
    BY <1>2 DEF Works, WorkerOps
  <1>10. Lock' /\ OneWorker'
    BY <1>3, <1>5, <1>9, StartOfWork, TypesAndLock DEF SchedIInv
  <1>11. SchedTypeOK' <=> Types' /\ Lock'
    BY DEF SchedTypeOK, Types, Lock, Working, Works
  <1> QED
    BY <1>5, <1>6, <1>8, <1>10, <1>11 DEF SchedIInv

\* The worker ends: its job gives up the lock, and the ride is handed over at most
\* by this one worker.
LEMMA WorkEndsInv ==
  ASSUME SchedIInv, NEW p \in Handlers, NEW x \in Rides, Works(handler[p], x),
         handler' = [handler EXCEPT ![p] = Idle], rides' = rides,
         UNCHANGED <<now, scheduledAt, scan>>,
         job'[x].state # "active", \A r \in Rides \ {x} : job'[r] = job[r],
         job' \in [Rides -> [state : {"none", "delayed", "active", "ended"},
                             due : Times, attempts : 0..MaxAttempts]],
         job'[x].state = "delayed" => job'[x].attempts < MaxAttempts,
         \/ requested' = requested
         \/ /\ handler[p].op = "trigger" /\ handler[p].pc = "emit"
            /\ requested' = [requested EXCEPT ![x] = @ + 1]
  PROVE  SchedIInv'
  <1>1. SchedLocalsOf(handler[p], rides, requested) /\ handler[p].ride = x
    BY DEF SchedIInv, HandlersOK, Works
  <1>2. Types' /\ RowsTimed'
    BY TypesAndLock DEF SchedIInv, Types, RowsTimed
  <1>3. AttemptsLeft'
    BY DEF SchedIInv, AttemptsLeft
  <1>4. HandedOverLeft'
    <2>1. CASE requested' = requested
      BY <2>1 DEF SchedIInv, HandedOverLeft
    <2>2. CASE handler[p].op = "trigger" /\ handler[p].pc = "emit"
               /\ requested' = [requested EXCEPT ![x] = @ + 1]
      <3>1. requested[x] = 0 /\ Left(rides[x])
        BY <1>1, <2>2 DEF SchedLocalsOf
      <3>2. \A r \in Rides : requested'[r] = IF r = x THEN 1 ELSE requested[r]
        BY <2>2, <3>1, TypesAndLock DEF SchedIInv, Types
      <3> QED
        BY <3>1, <3>2 DEF SchedIInv, HandedOverLeft
    <2> QED
      BY <2>1, <2>2
  <1>5. ASSUME NEW q \in Handlers \ {p}, handler[q].op = "trigger"
        PROVE  requested'[handler[q].ride] = requested[handler[q].ride]
    <2>1. handler[q].ride \in Rides
      BY <1>5 DEF SchedIInv, HandlersOK, SchedLocalsOf, SystemOps, WorkerOps
    <2>2. handler[q].ride # x
      BY <1>5 DEF SchedIInv, OneWorker, Works, WorkerOps
    <2> QED
      BY <2>1, <2>2, TypesAndLock DEF SchedIInv, Types
  <1>6. HandlersOK'
    BY <1>5, SchedIdleHandler, SchedOthersKeepLocals DEF SchedIInv, Onward
  <1>7. Lock' /\ OneWorker'
    BY EndOfWork, TypesAndLock DEF SchedIInv
  <1>8. SchedTypeOK' <=> Types' /\ Lock'
    BY DEF SchedTypeOK, Types, Lock, Working, Works
  <1> QED
    BY <1>2, <1>3, <1>4, <1>6, <1>7, <1>8 DEF SchedIInv

\* The worker that fails or dies counts an attempt and gives the job back, or up.
LEMMA WorkerAbortInv ==
  ASSUME SchedIInv, NEW p \in Handlers, WorkerAbort(p)
  PROVE  SchedIInv'
  <1> DEFINE x == handler[p].ride
  <1>1. x \in Rides /\ Works(handler[p], x)
    BY DEF WorkerAbort, SchedIInv, HandlersOK, SchedLocalsOf, SystemOps, Works
  <1>2. job \in [Rides -> [state : {"none", "delayed", "active", "ended"},
                           due : Times, attempts : 0..MaxAttempts]] /\ now \in Times
    BY TypesAndLock DEF SchedIInv, Types
  <1>3. job[x].attempts \in 0..MaxAttempts /\ job[x].attempts < MaxAttempts
    BY <1>1, <1>2, TypesAndLock DEF SchedIInv, Lock, AttemptsLeft
  <1> DEFINE new == [state |-> IF job[x].attempts + 1 < MaxAttempts THEN "delayed" ELSE "ended",
                     due |-> now, attempts |-> job[x].attempts + 1]
  <1>4. /\ new \in [state : {"none", "delayed", "active", "ended"}, due : Times, attempts : 0..MaxAttempts]
        /\ new.state # "active" /\ (new.state = "delayed" => new.attempts < MaxAttempts)
    BY <1>2, <1>3, TimingAssumption
  <1>5. /\ job' = [job EXCEPT ![x] = new]
        /\ handler' = [handler EXCEPT ![p] = Idle] /\ rides' = rides
        /\ UNCHANGED <<now, scheduledAt, scan, requested>>
    BY DEF WorkerAbort, Abort
  <1> HIDE DEF new, x
  <1>6. /\ job'[x] = new /\ \A r \in Rides \ {x} : job'[r] = job[r]
        /\ job' \in [Rides -> [state : {"none", "delayed", "active", "ended"},
                               due : Times, attempts : 0..MaxAttempts]]
    BY <1>1, <1>2, <1>4, <1>5
  <1> QED
    BY <1>1, <1>4, <1>5, <1>6, WorkEndsInv

\* The event of the system ends the worker, or the sweep of the cron.
LEMMA SystemEmitInv ==
  ASSUME SchedIInv, NEW p \in Handlers, SystemEmit(p)
  PROVE  SchedIInv'
  <1> DEFINE x == handler[p].ride
  <1>1. /\ x \in Rides /\ handler[p].op \in SystemOps /\ handler[p].pc = "emit"
        /\ handler' = [handler EXCEPT ![p] = Idle] /\ rides' = rides
        /\ UNCHANGED <<now, scheduledAt, scan>>
    BY DEF SystemEmit, SchedIInv, HandlersOK, SchedLocalsOf
  <1>2. /\ job \in [Rides -> [state : {"none", "delayed", "active", "ended"},
                              due : Times, attempts : 0..MaxAttempts]]
        /\ requested \in [Rides -> Nat]
    BY TypesAndLock DEF SchedIInv, Types
  <1>3. CASE handler[p].op \notin WorkerOps
    <2>1. job' = job /\ requested' = requested
      BY <1>1, <1>2, <1>3 DEF SystemEmit, WorkerOps
    <2> QED
      BY <1>1, <1>3, <2>1, EndInv DEF schedVars
  <1>4. CASE handler[p].op \in WorkerOps
    <2>1. job' = [job EXCEPT ![x].state = "ended"]
      BY <1>4 DEF SystemEmit
    <2>2. \/ requested' = requested
          \/ handler[p].op = "trigger" /\ requested' = [requested EXCEPT ![x] = @ + 1]
      BY <1>2 DEF SystemEmit
    <2>3. Works(handler[p], x)
      BY <1>4 DEF Works
    <2> HIDE DEF x
    <2>4. /\ job'[x].state = "ended" /\ \A r \in Rides \ {x} : job'[r] = job[r]
          /\ job' \in [Rides -> [state : {"none", "delayed", "active", "ended"},
                                 due : Times, attempts : 0..MaxAttempts]]
      BY <1>1, <1>2, <2>1
    <2> QED
      BY <1>1, <2>2, <2>3, <2>4, WorkEndsInv
  <1> QED
    BY <1>3, <1>4

\* A change of one job that is not active, and does not become so.
LEMMA JobInv ==
  ASSUME SchedIInv, NEW x \in Rides, NEW j,
         j \in [state : {"none", "delayed", "ended"}, due : Times, attempts : 0..MaxAttempts],
         j.state = "delayed" => j.attempts < MaxAttempts,
         job[x].state # "active", job' = [job EXCEPT ![x] = j],
         scan' \subseteq Rides \X Times, UNCHANGED <<ridesVars, now, scheduledAt, requested>>
  PROVE  SchedIInv'
  <1>1. \A r \in Rides : job'[r] = IF r = x THEN j ELSE job[r]
    BY TypesAndLock DEF SchedIInv, Types
  <1>2. Types' /\ RowsTimed' /\ HandedOverLeft' /\ HandlersOK' /\ OneWorker'
    BY TypesAndLock DEF SchedIInv, Types, RowsTimed, HandedOverLeft, HandlersOK, OneWorker, ridesVars
  <1>3. Lock' /\ AttemptsLeft'
    BY <1>1, TypesAndLock DEF SchedIInv, Lock, AttemptsLeft, ridesVars
  <1>4. SchedTypeOK' <=> Types' /\ Lock'
    BY DEF SchedTypeOK, Types, Lock, Working, Works
  <1> QED
    BY <1>2, <1>3, <1>4 DEF SchedIInv

\* The cron adds a job only where the queue knows none.
LEMMA CronAddInv ==
  ASSUME SchedIInv, NEW x \in Rides, NEW at \in Times, CronAdd(x, at)
  PROVE  SchedIInv'
  <1> DEFINE new == [state |-> "delayed", due |-> LaterOf(now, at - Lead), attempts |-> 0]
  <1>1. /\ now \in Times /\ scan \subseteq Rides \X Times /\ scan' \subseteq scan
        /\ job \in [Rides -> [state : {"none", "delayed", "active", "ended"},
                              due : Times, attempts : 0..MaxAttempts]]
        /\ UNCHANGED <<ridesVars, now, scheduledAt, requested>>
    BY TypesAndLock DEF SchedIInv, Types, CronAdd
  <1>2. CASE job[x] = NoJob
    <2>1. LaterOf(now, at - Lead) \in Times
      BY <1>1, TimingAssumption DEF LaterOf, Times
    <2>2. /\ new \in [state : {"none", "delayed", "ended"}, due : Times, attempts : 0..MaxAttempts]
          /\ new.attempts < MaxAttempts
      BY <2>1, TimingAssumption
    <2>3. job' = [job EXCEPT ![x] = new] /\ job[x].state # "active"
      BY <1>2 DEF CronAdd, NoJob
    <2> HIDE DEF new
    <2> QED
      BY <1>1, <2>2, <2>3, JobInv
  <1>3. CASE job[x] # NoJob
    <2>1. job' = job
      BY <1>1, <1>3 DEF CronAdd
    <2>2. Types' /\ Lock'
      BY <1>1, <2>1, TypesAndLock DEF SchedIInv, Types, Lock, ridesVars
    <2>3. SchedTypeOK' <=> Types' /\ Lock'
      BY DEF SchedTypeOK, Types, Lock, Working, Works
    <2> QED
      BY <1>1, <2>1, <2>2, <2>3 DEF SchedIInv, RowsTimed, AttemptsLeft, HandedOverLeft, HandlersOK,
         OneWorker, ridesVars
  <1> QED
    BY <1>2, <1>3

\* A job that ends or is forgotten is not active.
LEMMA QueueInv ==
  ASSUME SchedIInv, NEW x \in Rides, TriggerSkip(x) \/ ForgetJob(x)
  PROVE  SchedIInv'
  <1>1. /\ scan \subseteq Rides \X Times
        /\ job \in [Rides -> [state : {"none", "delayed", "active", "ended"},
                              due : Times, attempts : 0..MaxAttempts]]
    BY TypesAndLock DEF SchedIInv, Types
  <1>2. CASE TriggerSkip(x)
    <2> DEFINE new == [job[x] EXCEPT !.state = "ended"]
    <2>1. /\ new \in [state : {"none", "delayed", "ended"}, due : Times, attempts : 0..MaxAttempts]
          /\ new.state = "ended"
      BY <1>1
    <2>2. job' = [job EXCEPT ![x] = new] /\ job[x].state # "active"
      BY <1>1, <1>2 DEF TriggerSkip, Due
    <2> HIDE DEF new
    <2> QED
      BY <1>1, <1>2, <2>1, <2>2, JobInv DEF TriggerSkip
  <1>3. CASE ForgetJob(x)
    <2>1. /\ NoJob \in [state : {"none", "delayed", "ended"}, due : Times, attempts : 0..MaxAttempts]
          /\ NoJob.state = "none"
      BY TimingAssumption DEF NoJob, Times
    <2> QED
      BY <1>1, <1>3, <2>1, JobInv DEF ForgetJob
  <1> QED
    BY <1>2, <1>3

\* The cron reads rides whose time is one of the clock; the clock runs.
LEMMA ClockAndScanInv ==
  ASSUME SchedIInv, CronScan \/ CronAbort \/ Tick \/ UNCHANGED allVars
  PROVE  SchedIInv'
  <1>1. CronScan => scan' \subseteq Rides \X Times
    BY DEF CronScan, SchedIInv, RowsTimed
  <1>2. /\ now' \in Times /\ scan' \subseteq Rides \X Times
        /\ UNCHANGED <<ridesVars, scheduledAt, job, requested>>
    BY <1>1, TimingAssumption, TypesAndLock
    DEF SchedIInv, Types, CronScan, CronAbort, Tick, Times, allVars, schedVars
  <1>3. Types' /\ Lock'
    BY <1>2, TypesAndLock DEF SchedIInv, Types, Lock, ridesVars
  <1>4. SchedTypeOK' <=> Types' /\ Lock'
    BY DEF SchedTypeOK, Types, Lock, Working, Works
  <1> QED
    BY <1>2, <1>3, <1>4 DEF SchedIInv, RowsTimed, AttemptsLeft, HandedOverLeft, HandlersOK,
       OneWorker, ridesVars

\* Every step of a handler keeps the invariant.
LEMMA HandlerStepInv ==
  ASSUME SchedIInv, NEW p \in Handlers, HandlerStep(p)
  PROVE  SchedIInv'
  <1>1. CASE CancelWrite(p) /\ UNCHANGED schedVars
    BY <1>1, SchedUpdateInv DEF CancelWrite, Ready
  <1>2. CASE TriggerWrite(p)
    BY <1>2, SchedUpdateInv DEF TriggerWrite, Ready, SystemOps, WorkerOps
  <1>3. CASE SystemCancel(p)
    BY <1>3, SchedUpdateInv DEF SystemCancel, Ready, SystemOps, WorkerOps
  <1>4. UseCase(p) => UNCHANGED schedVars
    BY DEF UseCase
  <1> QED
    BY <1>1, <1>2, <1>3, <1>4, UseCaseInv, BookingInv, RescheduleInv, SystemEmitInv,
       WorkerAbortInv DEF HandlerStep

\* Every step keeps the invariant.
LEMMA SchedStepInv == SchedIInv /\ [SchedNext]_allVars => SchedIInv'
  <1> SUFFICES ASSUME SchedIInv, [SchedNext]_allVars PROVE SchedIInv'
    OBVIOUS
  <1>1. ASSUME NEW p \in Handlers, NEW r \in Rides, RescheduleRead(p, r) \/ StaleRead(p, r)
        PROVE  SchedIInv'
    BY <1>1, SchedStartInv DEF RescheduleRead, StaleRead
  <1>2. ASSUME NEW r \in Rides, RideStep(r) PROVE SchedIInv'
    BY <1>1, <1>2, TriggerInv, CronAddInv, QueueInv DEF RideStep
  <1> QED
    BY <1>2, HandlerStepInv, ClockAndScanInv DEF SchedNext

-----------------------------------------------------------------------------

\* The invariant holds in every reachable state.
LEMMA SchedInvariance == SchedSpec => []SchedIInv
  BY SchedInitInv, SchedStepInv, PTL DEF SchedSpec

\* The clock, the queue and the hand-overs keep their types, and a job is active
\* exactly while a worker runs it, whatever fails: the lock of BullMQ.
THEOREM SchedTypeCorrect == SchedSpec => []SchedTypeOK
  <1>1. SchedIInv => SchedTypeOK
    BY DEF SchedIInv
  <1> QED
    BY <1>1, SchedInvariance, PTL

\* ScheduledRidesWorker publishes RIDE_REQUESTED at most once for a ride, however
\* often the crons look, the worker is tried again and the passenger moves the ride.
THEOREM RequestedAtMostOnceTheorem == SchedSpec => []RequestedAtMostOnce
  <1>1. SchedIInv => RequestedAtMostOnce
    BY DEF SchedIInv, HandedOverLeft, RequestedAtMostOnce
  <1> QED
    BY <1>1, SchedInvariance, PTL

\* Each changed row is booked, follows VALID_TRANSITIONS, or is written by a
\* handler that had read an older version of it.
LEMMA SchedStepObeysTable ==
  ASSUME SchedIInv, SchedNext, NEW r \in Rides, rides'[r] # rides[r], ~StaleWrite(r)
  PROVE  Created(r) \/ canTransitionTo(rides[r].status, rides'[r].status)
  <1>1. ASSUME NEW p \in Handlers, NEW s \in {"searching", "cancelled"}, handler[p].pc = "write",
               handler[p].op \in {"cancel"} \cup SystemOps,
               Update(p, [RowNow(p) EXCEPT !.status = s]),
               canTransitionTo(handler[p].seen.status, s)
        PROVE  canTransitionTo(rides[r].status, rides'[r].status)
    <2> DEFINE x == handler[p].ride
               row == [rides[x] EXCEPT !.status = s]
    <2>1. x \in Rides /\ handler[p] \in SchedHandlers
      BY <1>1 DEF SchedIInv, HandlersOK, SchedLocalsOf
    <2>2. row.status = s
      BY <2>1, TypesAndLock DEF SchedIInv, Types, Row
    <2>3. rides' = [rides EXCEPT ![x] = row] /\ handler' = [handler EXCEPT ![p].pc = "emit"]
      BY <1>1 DEF Update, RowNow
    <2> HIDE DEF row
    <2>4. x = r /\ rides'[r] = row
      BY <2>1, <2>3, TypesAndLock DEF SchedIInv, Types
    <2>5. handler'[p].pc = "emit"
      BY <2>1, <2>3 DEF SchedIInv, HandlersOK, SchedHandlers
    <2>6. handler[p].seen = rides[r]
      BY <1>1, <2>4, <2>5 DEF StaleWrite
    <2> QED
      BY <1>1, <2>2, <2>4, <2>6
  <1>2. ASSUME NEW p \in Handlers, CancelWrite(p)
        PROVE  canTransitionTo(rides[r].status, rides'[r].status)
    <2>1. canTransitionTo(handler[p].seen.status, "cancelled")
      BY <1>2 DEF CancelWrite, Ready, SchedIInv, HandlersOK, SchedLocalsOf
    <2> QED
      BY <1>1, <1>2, <2>1 DEF CancelWrite, Ready
  <1>3. ASSUME NEW p \in Handlers, TriggerWrite(p) \/ SystemCancel(p)
        PROVE  canTransitionTo(rides[r].status, rides'[r].status)
    <2>1. handler[p].op \in SystemOps /\ handler[p].pc = "write"
      BY <1>3 DEF TriggerWrite, SystemCancel, Ready, SystemOps, WorkerOps
    <2>2. handler[p].seen.status = "scheduled"
      BY <2>1 DEF SchedIInv, HandlersOK, SchedLocalsOf
    <2>3. canTransitionTo("scheduled", "searching") /\ canTransitionTo("scheduled", "cancelled")
      BY DEF canTransitionTo, ValidTransitions
    <2> QED
      BY <1>1, <1>3, <2>1, <2>2, <2>3 DEF TriggerWrite, SystemCancel
  <1>4. ASSUME NEW p \in Handlers, CreateWrite(p) PROVE Created(r)
    BY <1>4, TypesAndLock DEF CreateWrite, Created, SchedIInv, Types
  <1>5. ASSUME NEW p \in Handlers, UseCase(p), ~CancelWrite(p) PROVE FALSE
    BY <1>5 DEF UseCase, CreateCheck, CancelRead, Start, Emit, Abort
  <1>6. ASSUME NEW p \in Handlers, HandlerStep(p)
        PROVE  Created(r) \/ canTransitionTo(rides[r].status, rides'[r].status)
    <2>1. RescheduleWrite(p) \/ SystemEmit(p) \/ WorkerAbort(p) => rides' = rides
      BY DEF RescheduleWrite, SystemEmit, WorkerAbort, Abort
    <2> QED
      BY <1>2, <1>3, <1>4, <1>5, <1>6, <2>1 DEF HandlerStep, CreateScheduledWrite
  <1>7. ASSUME NEW x \in Rides, RideStep(x) PROVE FALSE
    BY <1>7 DEF RideStep, RescheduleRead, StaleRead, TriggerRead, Start, CronAdd, TriggerSkip,
                ForgetJob, ridesVars
  <1>8. CronScan \/ CronAbort \/ Tick => rides' = rides
    BY DEF CronScan, CronAbort, Tick, ridesVars
  <1> QED
    BY <1>6, <1>7, <1>8 DEF SchedNext

\* VALID_TRANSITIONS is obeyed by the worker, the sweep of the cron and the use
\* cases that run beside them, but for the writes over a row that changed.
THEOREM SchedTableObeyed == SchedSpec => TableObeyedUnlessStale
  <1>1. SchedIInv /\ [SchedNext]_allVars =>
          [\A r \in Rides : rides'[r] # rides[r] =>
              \/ Created(r)
              \/ canTransitionTo(rides[r].status, rides'[r].status)
              \/ StaleWrite(r)
              \/ Released(r)]_ridesVars
    BY SchedStepObeysTable DEF allVars, ridesVars
  <1> QED
    BY <1>1, SchedInvariance, PTL DEF SchedSpec, TableObeyedUnlessStale

-----------------------------------------------------------------------------
(* RideModification: the invariant *)

\* The requests that will write a log.
Counted == {h \in Handlers : work[h].pc \in {"write", "log"}}

\* The logs and the count are bounded by the changes that began, the fees by the count.
MaxFee == Max2(Fee, EnRouteFee)
RowRead(h) == /\ work[h].row.count < modifications
              /\ work[h].row.fees <= work[h].row.count * MaxFee
BoundsOK ==
    /\ IsFiniteSet(Counted) /\ Len(logs) + Cardinality(Counted) <= modifications
    /\ ride.count <= modifications /\ ride.fees <= ride.count * MaxFee
    /\ \A h \in Handlers : work[h].pc = "write" => RowRead(h)

\* The ride, and the row a request will write, say no more than the changes written and
\* their fees, with a log or without.
Total == Len(logs) + past.unlogged
TotalFees == LoggedFees + past.owed
BooksOK ==
    /\ ride.count <= Total /\ ride.fees <= TotalFees
    /\ \A h \in Handlers : work[h].pc = "write" =>
           work[h].row.count <= Total /\ work[h].row.fees <= TotalFees

\* While no two requests read the same row, the one that will write it read it as it is,
\* and the ride says no less either.
ExactOK ==
    /\ \A g, h \in Handlers : work[g].pc = "write" /\ work[h].pc = "write" => g = h
    /\ \A h \in Handlers : work[h].pc = "write" =>
           work[h].row.count = ride.count /\ work[h].row.fees = ride.fees
    /\ ride.count >= Total /\ ride.fees >= TotalFees

\* The jobs that may still release a driver were asked for, or put back by a failure.
Releases(j) == j.name = "resolve" /\ j.reason = "driver_no_response"
LiveIn(q) == {i \in DOMAIN q : Releases(q[i])}
InHand == IF worker.pc \in {"resolve", "release"} /\ Releases(worker.job) THEN 1 ELSE 0
AskedOK ==
    /\ IsFiniteSet(LiveIn(jobs))
    /\ past.released + Cardinality(LiveIn(jobs)) + InHand <= past.asked + faults

\* What the worker does is what its job asks.
WorkerOK == CASE worker.pc = "price" -> worker.job.name = "recalculate"
              [] worker.pc = "release" -> Releases(worker.job)
              [] worker.pc = "del" -> worker.job.name = "resolve"
              [] OTHER -> worker.pc \in {"none", worker.job.name}

\* One change at a time: the row is as it was read until it is written, the price the one of
\* the destination until it is to be computed again, then the jobs bear the destination.
PriceOK ==
    /\ \A g, h \in Changing : g = h
    /\ \A h \in Handlers : work[h].pc \in {"write", "log", "recalculate"} => ~Pricing
    /\ \A h \in Handlers : work[h].pc = "write" =>
           /\ work[h].row.dropoff = ride.dropoff /\ work[h].row.price.of = ride.dropoff
           /\ ride.price.of = ride.dropoff /\ (work[h].enRoute => work[h].dto.dest # None)
    /\ \A h \in Handlers : work[h].pc \in {"log", "recalculate"} => Dropoff(work[h]) = ride.dropoff
    /\ ~Pricing /\ (\A h \in Handlers : work[h].pc \in {"log", "recalculate"} => work[h].enRoute) =>
           ride.price.of = ride.dropoff
    /\ \A i \in DOMAIN jobs : jobs[i].name = "recalculate" => jobs[i].dropoff = ride.dropoff
    /\ worker.pc # "none" /\ worker.job.name = "recalculate" => worker.job.dropoff = ride.dropoff
    /\ worker.pc = "price" => ride.price.of = ride.dropoff

ModInv ==
    /\ ModificationTypeOK /\ BoundsOK /\ WorkerOK /\ BooksOK /\ AskedOK
    /\ ~past.torn => ExactOK
    /\ ~past.mixed => PriceOK

-----------------------------------------------------------------------------
(* Numbers, sets and sequences *)

\* The constants are numbers.
LEMMA ModConstants ==
  /\ Attempts \in Nat \ {0} /\ Fee \in Nat /\ EnRouteFee \in Nat
  /\ MaxModifications \in Nat /\ MaxFaults \in Nat /\ MaxFee \in Nat /\ Fee <= MaxFee /\ EnRouteFee <= MaxFee
  <1>1. Attempts \in Nat \ {0} /\ Fee \in Nat /\ EnRouteFee \in Nat /\ MaxModifications \in Nat /\ MaxFaults \in Nat
    BY ModificationAssumption DEF ModificationAssumption
  <1>2. MaxFee \in Nat /\ Fee <= MaxFee /\ EnRouteFee <= MaxFee
    BY <1>1 DEF MaxFee, Max2
  <1> QED
    BY <1>1, <1>2

\* Fewer fees cost less.
LEMMA FeesMonotone == ASSUME NEW a \in Nat, NEW b \in Nat, NEW m \in Nat, a <= b PROVE a * m <= b * m
  <1> PICK d : d = b - a
    OBVIOUS
  <1>1. d \in Nat /\ b = a + d
    OBVIOUS
  <1>2. d * m \in Nat /\ a * m \in Nat
    BY <1>1
  <1>3. b * m = a * m + d * m
    BY <1>1
  <1> QED
    BY <1>2, <1>3

\* One more.
LEMMA OneMore == ASSUME NEW a \in Nat, NEW m \in Nat PROVE (a + 1) * m = a * m + m /\ m * (a + 1) = m * a + m
  OBVIOUS

\* A finite set with one element more, or less.
LEMMA CountMore ==
  ASSUME NEW S, IsFiniteSet(S), NEW x, NEW T
  PROVE  /\ T = S \cup {x} /\ x \notin S => IsFiniteSet(T) /\ Cardinality(T) = Cardinality(S) + 1
         /\ T = S \ {x} /\ x \in S => IsFiniteSet(T) /\ Cardinality(T) + 1 = Cardinality(S)
         /\ Cardinality(S) \in Nat
  <1>1. Cardinality(S) \in Nat
    BY FS_CardinalityType
  <1>2. ASSUME T = S \cup {x}, x \notin S PROVE IsFiniteSet(T) /\ Cardinality(T) = Cardinality(S) + 1
    BY <1>2, FS_AddElement
  <1>3. ASSUME T = S \ {x}, x \in S PROVE IsFiniteSet(T) /\ Cardinality(T) + 1 = Cardinality(S)
    <2>1. IsFiniteSet(S \ {x}) /\ Cardinality(S \ {x}) = Cardinality(S) - 1
      BY <1>3, FS_RemoveElement, Zenon
    <2>2. Cardinality(S) - 1 + 1 = Cardinality(S)
      BY <1>1
    <2> QED
      BY <1>3, <2>1, <2>2
  <1> QED
    BY <1>1, <1>2, <1>3, Zenon

\* A sequence with one element more.
LEMMA Appended ==
  ASSUME NEW S, NEW s \in Seq(S), NEW e \in S, NEW t, t = Append(s, e)
  PROVE  /\ t \in Seq(S) /\ Len(t) = Len(s) + 1 /\ Len(s) \in Nat
         /\ DOMAIN s = 1..Len(s) /\ DOMAIN t = 1..(Len(s) + 1)
         /\ \A i \in DOMAIN s : i \in DOMAIN t /\ t[i] = s[i]
         /\ t[Len(s) + 1] = e /\ Len(s) + 1 \in DOMAIN t
         /\ \A i \in DOMAIN t : i \in DOMAIN s \/ t[i] = e
  <1>1. t \in Seq(S) /\ Len(t) = Len(s) + 1 /\ Len(s) \in Nat
        /\ (\A i \in 1..Len(s) : t[i] = s[i]) /\ t[Len(s) + 1] = e
    BY AppendProperties, LenProperties
  <1>2. DOMAIN s = 1..Len(s) /\ DOMAIN t = 1..(Len(s) + 1)
    BY <1>1, LenProperties
  <1>3. \A i \in 1..(Len(s) + 1) : i \in 1..Len(s) \/ i = Len(s) + 1
    BY <1>1
  <1>4. \A i \in 1..Len(s) : i \in 1..(Len(s) + 1)
    BY <1>1
  <1>5. Len(s) + 1 \in 1..(Len(s) + 1)
    BY <1>1
  <1> QED
    BY <1>1, <1>2, <1>3, <1>4, <1>5

\* The queue without a job: the other jobs, and no other.
LEMMA Taken ==
  ASSUME jobs \in Seq(Job), NEW i \in DOMAIN jobs
  PROVE  /\ Without(i) \in Seq(Job)
         /\ \A k \in DOMAIN Without(i) : \E l \in DOMAIN jobs : Without(i)[k] = jobs[l]
         /\ \A l \in DOMAIN jobs \ {i} : \E k \in DOMAIN Without(i) : Without(i)[k] = jobs[l]
  <1> PICK n : n = Len(jobs)
    OBVIOUS
  <1> PICK m : m = n - 1
    OBVIOUS
  <1> PICK t : t = Without(i)
    OBVIOUS
  <1>1. n \in Nat /\ DOMAIN jobs = 1..n /\ i \in 1..n /\ \A k \in 1..n : jobs[k] \in Job
    BY LenProperties, ElementOfSeq
  <1>2. m \in Nat /\ \A k \in 1..m : k \in 1..n /\ k + 1 \in 1..n
    BY <1>1
  <1>3. t = [k \in 1..m |-> jobs[IF k < i THEN k ELSE k + 1]]
    BY DEF Without
  <1>4. DOMAIN t = 1..m /\ \A k \in 1..m : t[k] = jobs[IF k < i THEN k ELSE k + 1]
    BY <1>3
  <1>5. \A k \in 1..m : \E l \in 1..n : t[k] = jobs[l]
    BY <1>2, <1>4
  <1>6. t \in [1..m -> Job]
    BY <1>1, <1>2, <1>3
  <1>7. t \in Seq(Job)
    BY <1>2, <1>6, SeqDef
  <1>8. ASSUME NEW l \in (1..n) \ {i} PROVE \E k \in 1..m : t[k] = jobs[l]
    <2>1. CASE l < i
      <3>1. l \in 1..m
        BY <1>1, <2>1
      <3> QED
        BY <1>4, <2>1, <3>1
    <2>2. CASE ~(l < i)
      <3>1. l - 1 \in 1..m /\ ~(l - 1 < i) /\ (l - 1) + 1 = l
        BY <1>1, <2>2
      <3> QED
        BY <1>4, <3>1
    <2> QED
      BY <2>1, <2>2
  <1>9. /\ t \in Seq(Job)
        /\ \A k \in DOMAIN t : \E l \in DOMAIN jobs : t[k] = jobs[l]
        /\ \A l \in DOMAIN jobs \ {i} : \E k \in DOMAIN t : t[k] = jobs[l]
    <2>1. \A k \in DOMAIN t : \E l \in DOMAIN jobs : t[k] = jobs[l]
      BY <1>1, <1>4, <1>5
    <2>2. \A l \in (1..n) \ {i} : \E k \in 1..m : t[k] = jobs[l]
      BY <1>8
    <2>3. \A l \in DOMAIN jobs \ {i} : \E k \in DOMAIN t : t[k] = jobs[l]
      BY <1>1, <1>4, <2>2
    <2> QED
      BY <1>7, <2>1, <2>3
  <1> QED
    BY <1>9

\* One job more in the queue may release a driver, or not.
LEMMA MoreLive ==
  ASSUME NEW q \in Seq(Job), NEW j \in Job, NEW t, t = Append(q, j), IsFiniteSet(LiveIn(q))
  PROVE  /\ IsFiniteSet(LiveIn(t)) /\ Cardinality(LiveIn(q)) \in Nat
         /\ Cardinality(LiveIn(t)) =
                IF Releases(j) THEN Cardinality(LiveIn(q)) + 1 ELSE Cardinality(LiveIn(q))
  <1> PICK S : S = LiveIn(q)
    OBVIOUS
  <1> PICK T : T = LiveIn(t)
    OBVIOUS
  <1> PICK m : m = Len(q) + 1
    OBVIOUS
  <1>1. /\ Len(q) \in Nat /\ DOMAIN q = 1..Len(q) /\ DOMAIN t = 1..m
        /\ \A i \in DOMAIN q : i \in DOMAIN t /\ t[i] = q[i]
        /\ m \in DOMAIN t /\ t[m] = j
    BY Appended
  <1>2. m \notin DOMAIN q /\ \A i \in DOMAIN t : i \in DOMAIN q \/ i = m
    BY <1>1
  <1>3. T = IF Releases(j) THEN S \cup {m} ELSE S
    BY <1>1, <1>2 DEF LiveIn
  <1>4. m \notin S
    BY <1>2 DEF LiveIn
  <1> QED
    BY <1>3, <1>4, CountMore

\* The queue without a job has one less that may release a driver, or as many.
LEMMA LiveTaken ==
  ASSUME jobs \in Seq(Job), NEW i \in DOMAIN jobs, NEW t, t = Without(i), IsFiniteSet(LiveIn(jobs))
  PROVE  /\ IsFiniteSet(LiveIn(t)) /\ Cardinality(LiveIn(t)) \in Nat
         /\ Cardinality(LiveIn(jobs)) =
                IF Releases(jobs[i]) THEN Cardinality(LiveIn(t)) + 1 ELSE Cardinality(LiveIn(t))
  <1> PICK S : S = LiveIn(jobs)
    OBVIOUS
  <1> PICK R : R = S \ {i}
    OBVIOUS
  <1> PICK T : T = LiveIn(t)
    OBVIOUS
  <1> PICK n : n = Len(jobs)
    OBVIOUS
  <1> PICK m : m = n - 1
    OBVIOUS
  <1> PICK f : f = [l \in R |-> IF l < i THEN l ELSE l - 1]
    OBVIOUS
  <1>1. n \in Nat /\ DOMAIN jobs = 1..n /\ i \in 1..n
    BY LenProperties
  <1>2. m \in Nat /\ t = [k \in 1..m |-> jobs[IF k < i THEN k ELSE k + 1]]
    BY <1>1 DEF Without
  <1>3. DOMAIN t = 1..m /\ \A k \in 1..m : t[k] = jobs[IF k < i THEN k ELSE k + 1]
    BY <1>2
  <1>4. \A l \in R : l \in 1..n /\ l # i /\ Releases(jobs[l]) /\ f[l] = (IF l < i THEN l ELSE l - 1)
    BY <1>1 DEF LiveIn
  <1>5. \A l \in R : f[l] \in T
    <2> SUFFICES ASSUME NEW l \in R PROVE f[l] \in T
      OBVIOUS
    <2>1. CASE l < i
      <3>1. l \in 1..m
        BY <1>1, <1>4, <2>1
      <3>2. t[l] = jobs[l]
        BY <1>3, <2>1, <3>1
      <3> QED
        BY <1>3, <1>4, <2>1, <3>1, <3>2 DEF LiveIn
    <2>2. CASE ~(l < i)
      <3>1. l - 1 \in 1..m /\ ~(l - 1 < i) /\ (l - 1) + 1 = l
        BY <1>1, <1>4, <2>2
      <3>2. t[l - 1] = jobs[l]
        BY <1>3, <3>1
      <3> QED
        BY <1>3, <1>4, <2>2, <3>1, <3>2 DEF LiveIn
    <2> QED
      BY <2>1, <2>2
  <1>6. \A k \in T : \E l \in R : f[l] = k
    <2> SUFFICES ASSUME NEW k \in T PROVE \E l \in R : f[l] = k
      OBVIOUS
    <2>1. k \in 1..m /\ Releases(t[k])
      BY <1>3 DEF LiveIn
    <2>2. CASE k < i
      <3>1. k \in 1..n /\ k # i /\ t[k] = jobs[k]
        BY <1>1, <1>3, <2>1, <2>2
      <3>2. k \in R
        BY <1>1, <2>1, <3>1 DEF LiveIn
      <3> QED
        BY <1>4, <2>2, <3>2
    <2>3. CASE ~(k < i)
      <3>1. k + 1 \in 1..n /\ k + 1 # i /\ ~(k + 1 < i) /\ (k + 1) - 1 = k /\ t[k] = jobs[k + 1]
        BY <1>1, <1>3, <2>1, <2>3
      <3>2. k + 1 \in R
        BY <1>1, <2>1, <3>1 DEF LiveIn
      <3> QED
        BY <1>4, <3>1, <3>2
    <2> QED
      BY <2>2, <2>3
  <1>7. \A k, l \in R : f[k] = f[l] => k = l
    BY <1>1, <1>4
  <1>8. f \in Bijection(R, T)
    <2>1. f \in [R -> T]
      BY <1>5
    <2>2. f \in Injection(R, T)
      BY <1>7, <2>1 DEF Injection, IsInjective
    <2>3. f \in Surjection(R, T)
      BY <1>6, <2>1 DEF Surjection
    <2> QED
      BY <2>2, <2>3 DEF Bijection
  <1>9. IsFiniteSet(S) /\ IsFiniteSet(R)
    BY FS_Subset
  <1>10. IsFiniteSet(T) /\ Cardinality(T) = Cardinality(R)
    BY <1>8, <1>9, FS_Bijection DEF ExistsBijection
  <1>11. Releases(jobs[i]) <=> i \in S
    BY DEF LiveIn
  <1>12. /\ i \in S => Cardinality(R) + 1 = Cardinality(S)
         /\ Cardinality(R) \in Nat
    BY <1>9, CountMore
  <1>13. i \notin S => R = S
    OBVIOUS
  <1> QED
    BY <1>10, <1>11, <1>12, <1>13

-----------------------------------------------------------------------------
(* What keeps the invariant *)

\* The local state of a request.
LEMMA RequestTyped ==
  ASSUME ModificationTypeOK, NEW h \in Handlers
  PROVE  /\ work[h] \in Local /\ work[h].row \in Ride /\ work[h].dto \in Dto /\ work[h].enRoute \in BOOLEAN
         /\ work[h].row.count \in Nat /\ work[h].row.fees \in Nat
         /\ work[h].row.dropoff \in Dests /\ work[h].row.price \in Price
         /\ work[h].row.price.of \in Dests \cup {None}
         /\ work[h].dto.dest \in Dests \cup {None}
         /\ ride \in Ride /\ ride.count \in Nat /\ ride.fees \in Nat /\ ride.dropoff \in Dests
            /\ ride.price \in Price
  <1>1. work[h] \in Local
    BY DEF ModificationTypeOK
  <1>2. work[h].row \in Ride /\ work[h].dto \in Dto /\ work[h].enRoute \in BOOLEAN
    BY <1>1 DEF Local
  <1>3. \A r \in Ride : r.count \in Nat /\ r.fees \in Nat /\ r.dropoff \in Dests /\ r.price \in Price
    BY ModConstants DEF Ride
  <1>4. work[h].dto.dest \in Dests \cup {None}
    BY <1>2 DEF Dto
  <1>5. work[h].row.price.of \in Dests \cup {None}
    BY <1>2, <1>3 DEF Price
  <1> QED
    BY <1>1, <1>2, <1>3, <1>4, <1>5 DEF ModificationTypeOK

\* A request takes a local state, the others keep theirs.
LEMMA Takes ==
  ASSUME ModificationTypeOK, NEW h \in Handlers, NEW w \in Local, work' = [work EXCEPT ![h] = w]
  PROVE  /\ work' \in [Handlers -> Local] /\ work'[h] = w
         /\ \A g \in Handlers : g # h => work'[g] = work[g]
  BY DEF ModificationTypeOK

\* The bounds stay while no request begins, writes or is logged.
LEMMA BoundsKept ==
  ASSUME BoundsOK, Len(logs) \in Nat, modifications \in Nat,
         \A g \in Handlers : work'[g] = work[g] \/ work'[g].pc \notin {"write", "log"},
         Len(logs') = Len(logs), ride'.count = ride.count, ride'.fees = ride.fees,
         modifications' = modifications
  PROVE  BoundsOK'
  <1> PICK S : S = Counted
    OBVIOUS
  <1> PICK T : T = Counted'
    OBVIOUS
  <1>1. T \subseteq S
    BY DEF Counted
  <1>2. IsFiniteSet(S) /\ Len(logs) + Cardinality(S) <= modifications
    BY DEF BoundsOK
  <1>3. IsFiniteSet(T) /\ Cardinality(T) <= Cardinality(S)
    BY <1>1, <1>2, FS_Subset
  <1>4. Cardinality(T) \in Nat /\ Cardinality(S) \in Nat
    BY <1>2, <1>3, FS_CardinalityType
  <1>5. Len(logs') + Cardinality(T) <= modifications'
    BY <1>2, <1>3, <1>4
  <1>6. \A h \in Handlers : work'[h].pc = "write" => RowRead(h)'
    BY DEF RowRead, BoundsOK
  <1> QED
    BY <1>3, <1>5, <1>6 DEF BoundsOK

\* What the logs and the changes without one make stays while they do.
LEMMA SameTotals ==
  ASSUME Len(logs') = Len(logs), DOMAIN logs' = DOMAIN logs,
         \A i \in DOMAIN logs : logs'[i].phase = logs[i].phase /\ logs'[i].fee = logs[i].fee,
         past'.unlogged = past.unlogged, past'.owed = past.owed
  PROVE  Total' = Total /\ TotalFees' = TotalFees
  <1>1. \A p, f : LogsOf(p, f)' = LogsOf(p, f)
    BY DEF LogsOf
  <1>2. LogsOf("pre_departure", Fee)' = LogsOf("pre_departure", Fee)
        /\ LogsOf("in_progress", EnRouteFee)' = LogsOf("in_progress", EnRouteFee)
    BY <1>1
  <1>3. LoggedFees' = LoggedFees
    BY <1>2 DEF LoggedFees, Charge
  <1> QED
    BY <1>3 DEF Total, TotalFees

\* The books stay while no request begins, writes or is logged.
LEMMA BooksKept ==
  ASSUME BooksOK, Total' = Total, TotalFees' = TotalFees,
         \A g \in Handlers : work'[g] = work[g] \/ work'[g].pc # "write",
         ride'.count = ride.count, ride'.fees = ride.fees
  PROVE  BooksOK' /\ (ExactOK => ExactOK')
  <1>1. \A g \in Handlers : work'[g].pc = "write" => work'[g] = work[g]
    OBVIOUS
  <1>2. BooksOK'
    BY <1>1 DEF BooksOK
  <1>3. ASSUME ExactOK PROVE ExactOK'
    BY <1>1, <1>3 DEF ExactOK
  <1> QED
    BY <1>2, <1>3

\* A step that charges nothing and logs nothing.
LEMMA Steady ==
  ASSUME ModInv, work' \in [Handlers -> Local],
         \A g \in Handlers : work'[g] = work[g] \/ work'[g].pc \notin {"write", "log"},
         ride' \in Ride, ride'.count = ride.count, ride'.fees = ride.fees,
         logs' \in Seq(Log), Len(logs') = Len(logs),
         \A i \in DOMAIN logs : logs'[i].phase = logs[i].phase /\ logs'[i].fee = logs[i].fee,
         grace' \in BOOLEAN, conflict' \in BOOLEAN, jobs' \in Seq(Job),
         worker' \in [pc : {"none", "recalculate", "price", "notify", "resolve", "release", "del"}, job : Job],
         modifications' = modifications, faults' \in 0..MaxFaults,
         past' \in History, past'.torn = past.torn, past'.unlogged = past.unlogged, past'.owed = past.owed,
         WorkerOK', AskedOK', ~past'.mixed => PriceOK'
  PROVE  ModInv'
  <1> USE DEF ModInv
  <1>1. ModificationTypeOK'
    BY DEF ModificationTypeOK
  <1>2. Len(logs) \in Nat /\ DOMAIN logs' = DOMAIN logs /\ modifications \in Nat
    BY LenProperties DEF ModificationTypeOK
  <1>3. BoundsOK'
    BY <1>2, BoundsKept
  <1>4. Total' = Total /\ TotalFees' = TotalFees
    BY <1>2, SameTotals
  <1>5. BooksOK' /\ (~past'.torn => ExactOK')
    BY <1>4, BooksKept
  <1> QED
    BY <1>1, <1>3, <1>5

\* What may release a driver stays while the queue, the job in hand and the counts do.
LEMMA AskedKept ==
  ASSUME AskedOK, jobs' = jobs, worker' = worker, faults' = faults,
         past'.asked = past.asked, past'.released = past.released
  PROVE  AskedOK'
  BY DEF AskedOK, InHand, LiveIn

\* The price follows while the destination and the prices stay, and so does what is to be
\* computed.
LEMMA PriceKept ==
  ASSUME PriceOK, ride'.price = ride.price, ride'.dropoff = ride.dropoff,
         \A g \in Handlers : \/ work'[g] = work[g]
                             \/ /\ work[g].pc \notin {"idle", "write", "log", "recalculate"}
                                /\ work'[g].pc \notin {"write", "log", "recalculate"},
         Pricing' = Pricing,
         \A i \in DOMAIN jobs' : jobs'[i].name = "recalculate" => jobs'[i].dropoff = ride.dropoff,
         worker'.pc # "none" /\ worker'.job.name = "recalculate" => worker'.job.dropoff = ride.dropoff,
         worker'.pc = "price" => worker.pc = "price"
  PROVE  PriceOK'
  <1>1. \A h \in Changing' : h \in Changing
    BY DEF Changing, At
  <1>2. \A g, h \in Changing' : g = h
    BY <1>1 DEF PriceOK
  <1>3. \A h \in Handlers : work'[h].pc \in {"write", "log", "recalculate"} => work'[h] = work[h]
    OBVIOUS
  <1>4. \A h \in Handlers : work[h].pc \in {"write", "log", "recalculate"} => work'[h] = work[h]
    OBVIOUS
  <1>5. /\ \A h \in Handlers : work'[h].pc \in {"write", "log", "recalculate"} => ~Pricing'
        /\ \A h \in Handlers : work'[h].pc = "write" =>
              /\ work'[h].row.dropoff = ride'.dropoff /\ work'[h].row.price.of = ride'.dropoff
              /\ ride'.price.of = ride'.dropoff /\ (work'[h].enRoute => work'[h].dto.dest # None)
    BY <1>3 DEF PriceOK
  <1>6. \A h \in Handlers : work'[h].pc \in {"log", "recalculate"} => Dropoff(work'[h]) = ride'.dropoff
    <2> SUFFICES ASSUME NEW h \in Handlers, work'[h].pc \in {"log", "recalculate"}
                 PROVE  Dropoff(work'[h]) = ride'.dropoff
      OBVIOUS
    <2>1. work'[h] = work[h]
      BY <1>3
    <2>2. Dropoff(work[h]) = ride.dropoff
      BY <2>1 DEF PriceOK
    <2> QED
      BY <2>1, <2>2
  <1>7. ~Pricing' /\ (\A h \in Handlers : work'[h].pc \in {"log", "recalculate"} => work'[h].enRoute) =>
           ride'.price.of = ride'.dropoff
    BY <1>3, <1>4 DEF PriceOK
  <1>8. /\ \A i \in DOMAIN jobs' : jobs'[i].name = "recalculate" => jobs'[i].dropoff = ride'.dropoff
        /\ worker'.pc # "none" /\ worker'.job.name = "recalculate" => worker'.job.dropoff = ride'.dropoff
        /\ worker'.pc = "price" => ride'.price.of = ride'.dropoff
    BY DEF PriceOK
  <1> HIDE DEF Pricing
  <1> QED
    BY <1>2, <1>5, <1>6, <1>7, <1>8 DEF PriceOK, Dropoff

-----------------------------------------------------------------------------
(* The types of what the steps write *)

\* A request at rest.
LEMMA AtRestTyped == AtRest \in Local /\ AtRest.pc = "idle" /\ AtRest.enRoute = FALSE
  /\ Unread.dropoff \in Dests /\ NoDto \in Dto
  <1>1. Unread.dropoff \in Dests
    <2>1. (CHOOSE d \in Dests : TRUE) \in Dests
      BY ModificationAssumption DEF ModificationAssumption
    <2> QED
      BY <2>1 DEF Unread
  <1>2. Unread \in Ride
    <2>1. Unread.dropoff \in Dests /\ 0 \in 0..MaxModifications /\ "absent" \in RideStatuses
      BY <1>1, ModConstants DEF RideStatuses
    <2> QED
      BY <2>1 DEF Unread, Ride, Price
  <1>3. NoDto \in Dto
    BY DEF NoDto, Dto
  <1>4. AtRest \in Local
    BY <1>2, <1>3 DEF AtRest, Local
  <1> QED
    BY <1>1, <1>3, <1>4 DEF AtRest

\* A job.
LEMMA JobTyped ==
  ASSUME NEW name \in JobNames, NEW d \in Dests \cup {None},
  NEW reason \in {"driver_no_response", "implicit_accept"},
         NEW delayed \in BOOLEAN, NEW tries \in 1..Max2(Attempts, 2)
  PROVE  [name |-> name, dropoff |-> d, reason |-> reason, delayed |-> delayed, tries |-> tries] \in Job
  BY DEF Job

\* The numbers of tries of new jobs.
LEMMA TriesTyped == Attempts \in 1..Max2(Attempts, 2) /\ 2 \in 1..Max2(Attempts, 2)
  BY ModConstants DEF Max2

\* The jobs a request adds.
LEMMA NoticeTyped ==
  ASSUME NEW n \in 1..Max2(Attempts, 2)
  PROVE  [NewJob("notify") EXCEPT !.tries = n] \in Job /\ [NewJob("notify") EXCEPT !.tries = n].name = "notify"
  <1> PICK k : k = NewJob("notify")
    OBVIOUS
  <1> PICK j : j = [k EXCEPT !.tries = n]
    OBVIOUS
  <1>1. k \in Job /\ k.name = "notify"
    BY JobTyped, TriesTyped DEF NewJob, JobNames
  <1>2. j \in Job
    BY <1>1 DEF Job
  <1>3. j.name = "notify"
    BY <1>1 DEF Job
  <1> QED
    BY <1>2, <1>3
\* The job that settles a conflict.
LEMMA SettlementTyped ==
  ASSUME NEW r \in {"driver_no_response", "implicit_accept"}
  PROVE  LET j == [NewJob("resolve") EXCEPT !.delayed = TRUE, !.reason = r] IN
         j \in Job /\ j.name = "resolve" /\ j.reason = r
  <1> PICK k : k = NewJob("resolve")
    OBVIOUS
  <1> PICK j : j = [k EXCEPT !.delayed = TRUE, !.reason = r]
    OBVIOUS
  <1>1. k \in Job /\ k.name = "resolve"
    BY JobTyped, TriesTyped DEF NewJob, JobNames
  <1>2. j \in Job
    BY <1>1, TriesTyped DEF Job
  <1>3. j.name = "resolve" /\ j.reason = r
    BY <1>1 DEF Job
  <1> QED
    BY <1>2, <1>3, Zenon
\* The job that computes a price.
LEMMA PricingTyped ==
  ASSUME NEW d \in Dests \cup {None}
  PROVE  LET j == [NewJob("recalculate") EXCEPT !.dropoff = d, !.tries = Attempts] IN
         j \in Job /\ j.name = "recalculate" /\ j.dropoff = d
  <1> PICK k : k = NewJob("recalculate")
    OBVIOUS
  <1> PICK j : j = [k EXCEPT !.dropoff = d, !.tries = Attempts]
    OBVIOUS
  <1>1. k \in Job /\ k.name = "recalculate"
    BY JobTyped, TriesTyped DEF NewJob, JobNames
  <1>2. j \in Job
    BY <1>1, TriesTyped DEF Job
  <1>3. j.name = "recalculate" /\ j.dropoff = d
    BY <1>1 DEF Job
  <1> QED
    BY <1>2, <1>3, Zenon

\* The fields of a job.
LEMMA JobFields ==
  ASSUME NEW j \in Job
  PROVE  /\ j.name \in JobNames /\ j.dropoff \in Dests \cup {None} /\ j.delayed \in BOOLEAN
            /\ j.tries \in 1..Max2(Attempts, 2)
         /\ j.reason \in {"driver_no_response", "implicit_accept"}
         /\ j = [name |-> j.name, dropoff |-> j.dropoff, reason |-> j.reason, delayed |-> j.delayed, tries |-> j.tries]
  BY DEF Job

\* The states of the worker.
WorkerStates == {"none", "recalculate", "price", "notify", "resolve", "release", "del"}

\* The worker, and the job in hand.
LEMMA WorkerTyped ==
  /\ NoJobInHand \in [pc : WorkerStates, job : Job] /\ NoJobInHand.pc = "none"
  /\ \A pc \in WorkerStates, j \in Job :
        [pc |-> pc, job |-> j] \in [pc : WorkerStates, job : Job]
  /\ \A pc \in WorkerStates, w \in [pc : WorkerStates, job : Job] :
        /\ [w EXCEPT !.pc = pc] \in [pc : WorkerStates, job : Job]
        /\ [w EXCEPT !.pc = pc].pc = pc /\ [w EXCEPT !.pc = pc].job = w.job
  <1>1. NewJob("notify") \in Job
    <2>1. [name |-> "notify", dropoff |-> None, reason |-> "driver_no_response", delayed |-> FALSE, tries |-> 2] \in Job
      BY JobTyped, TriesTyped DEF JobNames
    <2> QED
      BY <2>1 DEF NewJob
  <1>2. NoJobInHand \in [pc : WorkerStates, job : Job] /\ NoJobInHand.pc = "none"
    BY <1>1 DEF NoJobInHand, WorkerStates
  <1>3. \A pc \in WorkerStates, j \in Job : [pc |-> pc, job |-> j] \in [pc : WorkerStates, job : Job]
    OBVIOUS
  <1>4. ASSUME NEW pc \in WorkerStates, NEW w \in [pc : WorkerStates, job : Job]
        PROVE  /\ [w EXCEPT !.pc = pc] \in [pc : WorkerStates, job : Job]
               /\ [w EXCEPT !.pc = pc].pc = pc /\ [w EXCEPT !.pc = pc].job = w.job
    OBVIOUS
  <1> QED
    BY <1>2, <1>3, <1>4, Zenon

\* What the invariant says of the types.
LEMMA ModTypes ==
  ASSUME ModInv
  PROVE  /\ work \in [Handlers -> Local] /\ ride \in Ride /\ logs \in Seq(Log) /\ Len(logs) \in Nat
         /\ grace \in BOOLEAN /\ conflict \in BOOLEAN /\ jobs \in Seq(Job)
            /\ \A i \in DOMAIN jobs : jobs[i] \in Job
         /\ worker \in [pc : WorkerStates, job : Job] /\ worker.pc \in WorkerStates /\ worker.job \in Job
         /\ modifications \in Nat /\ faults \in 0..MaxFaults /\ faults \in Nat /\ past \in History
         /\ past.torn \in BOOLEAN /\ past.mixed \in BOOLEAN /\ past.unlogged \in Int /\ past.owed \in Int
         /\ past.asked \in Nat /\ past.released \in Nat
         /\ ride.count \in Nat /\ ride.fees \in Nat
  <1>1. ModificationTypeOK
    BY DEF ModInv
  <1>2. Len(logs) \in Nat /\ \A i \in DOMAIN jobs : jobs[i] \in Job
    BY <1>1, LenProperties, ElementOfSeq DEF ModificationTypeOK
  <1>3. worker \in [pc : WorkerStates, job : Job]
    BY <1>1 DEF ModificationTypeOK, WorkerStates
  <1>4. worker.pc \in WorkerStates /\ worker.job \in Job
    BY <1>3
  <1>5. /\ past.torn \in BOOLEAN /\ past.mixed \in BOOLEAN /\ past.unlogged \in Int /\ past.owed \in Int
        /\ past.asked \in Nat /\ past.released \in Nat
    BY <1>1 DEF ModificationTypeOK, History
  <1>6. faults \in Nat
    BY <1>1, ModConstants DEF ModificationTypeOK
  <1>7. ride \in Ride
    BY <1>1 DEF ModificationTypeOK
  <1>8. ride.count \in Nat /\ ride.fees \in Nat
    BY <1>7, ModConstants DEF Ride
  <1> QED
    BY <1>1, <1>2, <1>3, <1>4, <1>5, <1>6, <1>8 DEF ModificationTypeOK

\* The logs of a phase are finitely many.
LEMMA LogsFinite ==
  ASSUME logs \in Seq(Log), NEW p, NEW f
  PROVE  Cardinality(LogsOf(p, f)) \in Nat /\ IsFiniteSet(LogsOf(p, f))
  <1> PICK n : n = Len(logs)
    OBVIOUS
  <1>1. n \in Nat /\ LogsOf(p, f) \subseteq 1..n
    BY LenProperties DEF LogsOf
  <1>2. IsFiniteSet(1..n)
    BY <1>1, FS_Interval
  <1> QED
    BY <1>1, <1>2, FS_Subset, FS_CardinalityType

\* The totals are numbers.
LEMMA TotalsTyped ==
  ASSUME ModInv
  PROVE  Total \in Int /\ TotalFees \in Int /\ LoggedFees \in Nat
  <1>1. Cardinality(LogsOf("pre_departure", Fee)) \in Nat /\ Cardinality(LogsOf("in_progress", EnRouteFee)) \in Nat
    BY ModTypes, LogsFinite
  <1> PICK a \in Nat : a = Cardinality(LogsOf("pre_departure", Fee))
    BY <1>1
  <1> PICK b \in Nat : b = Cardinality(LogsOf("in_progress", EnRouteFee))
    BY <1>1
  <1>2. Fee \in Nat /\ EnRouteFee \in Nat
    BY ModConstants
  <1>3. Fee * a + EnRouteFee * b \in Nat
    <2>1. Fee * a \in Nat /\ EnRouteFee * b \in Nat
      BY <1>2
    <2> QED
      BY <2>1
  <1>4. LoggedFees \in Nat
    BY <1>3 DEF LoggedFees, Charge
  <1>5. Len(logs) \in Nat /\ past.unlogged \in Int /\ past.owed \in Int
    BY ModTypes
  <1> QED
    BY <1>4, <1>5 DEF Total, TotalFees

\* A request ends, or goes on with what it holds.
LEMMA EndsOrGoes ==
  ASSUME ModInv, NEW h \in Handlers
  PROVE  /\ End(h) => /\ work' \in [Handlers -> Local] /\ work'[h] = AtRest /\ work'[h].pc = "idle"
                      /\ \A g \in Handlers : g # h => work'[g] = work[g]
         /\ \A pc \in {"idle", "write", "log", "recalculate", "conflict", "notify", "resolve"} :
              Goto(h, pc) => /\ work' \in [Handlers -> Local] /\ work'[h].pc = pc /\ work'[h].row = work[h].row
                             /\ work'[h].dto = work[h].dto /\ work'[h].enRoute = work[h].enRoute
                             /\ \A g \in Handlers : g # h => work'[g] = work[g]
  <1>1. ASSUME End(h)
        PROVE  /\ work' \in [Handlers -> Local] /\ work'[h] = AtRest /\ work'[h].pc = "idle"
               /\ \A g \in Handlers : g # h => work'[g] = work[g]
    BY <1>1, Takes, AtRestTyped DEF End, ModInv
  <1>2. ASSUME NEW pc \in {"idle", "write", "log", "recalculate", "conflict", "notify", "resolve"}, Goto(h, pc)
        PROVE  /\ work' \in [Handlers -> Local] /\ work'[h].pc = pc /\ work'[h].row = work[h].row
               /\ work'[h].dto = work[h].dto /\ work'[h].enRoute = work[h].enRoute
               /\ \A g \in Handlers : g # h => work'[g] = work[g]
    <2>1. work \in [Handlers -> Local] /\ work[h] \in Local
      BY ModTypes
    <2>2. [work[h] EXCEPT !.pc = pc] \in Local
      BY <2>1 DEF Local
    <2>3. /\ work'[h] = [work[h] EXCEPT !.pc = pc]
          /\ \A g \in Handlers : g # h => work'[g] = work[g]
      BY <1>2, <2>1 DEF Goto
    <2>4. work' \in [Handlers -> Local]
      BY <1>2, <2>1, <2>2 DEF Goto
    <2>5. /\ work'[h].pc = pc /\ work'[h].row = work[h].row
          /\ work'[h].dto = work[h].dto /\ work'[h].enRoute = work[h].enRoute
      BY <2>1, <2>3 DEF Local
    <2> QED
      BY <2>3, <2>4, <2>5
  <1> QED
    BY <1>1, <1>2, Zenon

-----------------------------------------------------------------------------
(* The worker *)

\* A job is taken.
LEMMA ProcessKept == ASSUME ModInv, process PROVE ModInv'
  <1> PICK i \in DOMAIN jobs : /\ IsReady(i) /\ worker' = [pc |-> jobs[i].name, job |-> jobs[i]]
                               /\ jobs' = Without(i)
    BY DEF process
  <1>1. /\ worker.pc = "none"
        /\ ride' = ride /\ grace' = grace /\ logs' = logs /\ conflict' = conflict /\ work' = work
        /\ modifications' = modifications /\ faults' = faults /\ past' = past
    BY DEF process, inputs
  <1>2. jobs[i] \in Job /\ jobs[i].name \in JobNames
    BY ModTypes, JobFields
  <1>3. worker'.pc = jobs[i].name /\ worker'.job = jobs[i] /\ jobs[i].name \in WorkerStates
        /\ worker'.pc # "price"
    BY <1>2 DEF JobNames, WorkerStates
  <1>4. /\ jobs' \in Seq(Job)
        /\ \A k \in DOMAIN jobs' : \E l \in DOMAIN jobs : jobs'[k] = jobs[l]
        /\ \A l \in DOMAIN jobs \ {i} : \E k \in DOMAIN jobs' : jobs'[k] = jobs[l]
    BY ModTypes, Taken
  <1>5. worker' \in [pc : WorkerStates, job : Job]
    BY <1>2, <1>3, WorkerTyped
  <1>6. WorkerOK'
    BY <1>2, <1>3 DEF WorkerOK, JobNames
  <1>7. AskedOK'
    <2> PICK n : n = Cardinality(LiveIn(jobs))
      OBVIOUS
    <2> PICK m : m = Cardinality(LiveIn(jobs'))
      OBVIOUS
    <2>1. AskedOK /\ past.released \in Nat /\ past.asked \in Nat /\ faults \in Nat
      BY ModTypes DEF ModInv
    <2>2. IsFiniteSet(LiveIn(jobs')) /\ m \in Nat /\ n = (IF Releases(jobs[i]) THEN m + 1 ELSE m)
      BY <2>1, ModTypes, LiveTaken DEF AskedOK
    <2>3. InHand = 0 /\ past.released + n + InHand <= past.asked + faults
      BY <1>1, <2>1 DEF InHand, AskedOK
    <2>4. InHand' = IF Releases(jobs[i]) THEN 1 ELSE 0
      BY <1>2, <1>3 DEF InHand, Releases
    <2>5. past.released + m + InHand' <= past.asked + faults
      BY <2>1, <2>2, <2>3, <2>4
    <2> QED
      BY <1>1, <2>2, <2>5 DEF AskedOK
  <1>8. ~past'.mixed => PriceOK'
    <2> SUFFICES ASSUME ~past.mixed PROVE PriceOK'
      BY <1>1
    <2>1. PriceOK
      BY DEF ModInv
    <2>2. Pricing' = Pricing
      <3>1. Pricing => Pricing'
        BY <1>1, <1>2, <1>3, <1>4 DEF Pricing, JobNames
      <3>2. Pricing' => Pricing
        BY <1>1, <1>3, <1>4 DEF Pricing
      <3> QED
        BY <3>1, <3>2 DEF Pricing
    <2>3. \A k \in DOMAIN jobs' : jobs'[k].name = "recalculate" => jobs'[k].dropoff = ride.dropoff
      BY <1>4, <2>1 DEF PriceOK
    <2>4. jobs[i].name = "recalculate" => jobs[i].dropoff = ride.dropoff
      BY <2>1 DEF PriceOK
    <2> QED
      BY <1>1, <1>3, <2>1, <2>2, <2>3, <2>4, PriceKept
  <1> QED
    BY <1>1, <1>4, <1>5, <1>6, <1>7, <1>8, ModTypes, Steady DEF WorkerStates

\* The worker goes on with its job, or is done with it, and no price is at stake.
LEMMA WorkerSteps ==
  ASSUME ModInv, grace' \in BOOLEAN,
  conflict' \in BOOLEAN, ride' \in Ride, ride'.count = ride.count, ride'.fees = ride.fees,
         ride'.dropoff = ride.dropoff, ride'.price = ride.price,
         logs' = logs, jobs' = jobs, work' = work,
         modifications' = modifications, faults' = faults,
         past' \in History, past'.torn = past.torn, past'.mixed = past.mixed,
         past'.unlogged = past.unlogged, past'.owed = past.owed, past'.asked = past.asked,
         past'.released + InHand' <= past.released + InHand, past'.released \in Nat,
         worker.pc # "none", worker.job.name # "recalculate",
         \/ worker' = NoJobInHand
         \/ worker' = [worker EXCEPT !.pc = "release"] /\ Releases(worker.job)
         \/ worker' = [worker EXCEPT !.pc = "del"] /\ worker.job.name = "resolve"
  PROVE  ModInv'
  <1>1. worker' \in [pc : WorkerStates, job : Job] /\ (worker' = NoJobInHand => worker'.pc = "none")
    BY ModTypes, WorkerTyped DEF WorkerStates
  <1>2. \/ worker'.pc = "none"
        \/ worker'.pc = "release" /\ worker'.job = worker.job /\ Releases(worker.job)
        \/ worker'.pc = "del" /\ worker'.job = worker.job /\ worker.job.name = "resolve"
    BY ModTypes, WorkerTyped DEF WorkerStates
  <1>3. WorkerOK'
    BY <1>2 DEF WorkerOK, Releases
  <1>4. AskedOK'
    <2> PICK n : n = Cardinality(LiveIn(jobs))
      OBVIOUS
    <2>1. IsFiniteSet(LiveIn(jobs)) /\ past.released + n + InHand <= past.asked + faults
      BY DEF ModInv, AskedOK
    <2>2. n \in Nat /\ past.released \in Nat /\ past.asked \in Nat /\ faults \in Nat
      BY <2>1, ModTypes, FS_CardinalityType
    <2>3. InHand \in Nat /\ InHand' \in Nat
      BY DEF InHand
    <2>4. past'.released + n + InHand' <= past.asked + faults
      BY <2>1, <2>2, <2>3
    <2> QED
      BY <2>1, <2>4 DEF AskedOK, LiveIn
  <1>5. Pricing' = Pricing
    BY <1>2 DEF Pricing, Releases
  <1>6. ~past'.mixed => PriceOK'
    <2> SUFFICES ASSUME ~past.mixed PROVE PriceOK'
      OBVIOUS
    <2>1. PriceOK
      BY DEF ModInv
    <2>2. /\ \A i \in DOMAIN jobs' : jobs'[i].name = "recalculate" => jobs'[i].dropoff = ride.dropoff
          /\ worker'.pc # "none" /\ worker'.job.name = "recalculate" => worker'.job.dropoff = ride.dropoff
      BY <1>2, <2>1 DEF PriceOK, Releases
    <2> QED
      BY <1>2, <1>5, <2>1, <2>2, PriceKept
  <1> QED
    BY <1>1, <1>3, <1>4, <1>6, ModTypes, Steady DEF WorkerStates

\* The new price goes to the row.
LEMMA RecalculatePriceKept == ASSUME ModInv, recalculatePrice PROVE ModInv'
  <1>1. /\ worker.pc = "recalculate" /\ ride' = [ride EXCEPT !.price = Computed]
        /\ worker' = [worker EXCEPT !.pc = "price"]
        /\ grace' = grace /\ logs' = logs /\ jobs' = jobs /\ conflict' = conflict /\ work' = work
        /\ modifications' = modifications /\ faults' = faults /\ past' = past
    BY DEF recalculatePrice, Next1, inputs
  <1>2. worker.job.name = "recalculate"
    BY <1>1 DEF ModInv, WorkerOK
  <1>3. worker' \in [pc : WorkerStates, job : Job] /\ worker'.pc = "price" /\ worker'.job = worker.job
    BY <1>1, ModTypes, WorkerTyped DEF WorkerStates
  <1>4. ride \in Ride /\ Computed \in Price /\ Computed.of = worker.job.dropoff
    BY ModTypes, JobFields DEF Price, Computed
  <1>5. ride' \in Ride
    BY <1>1, <1>4 DEF Ride
  <1>6. ride'.count = ride.count /\ ride'.fees = ride.fees /\ ride'.dropoff = ride.dropoff
        /\ ride'.price = Computed
    BY <1>1, <1>4 DEF Ride
  <1>7. WorkerOK'
    BY <1>2, <1>3 DEF WorkerOK
  <1>8. AskedOK'
    <2>1. InHand' = InHand
      BY <1>1, <1>3 DEF InHand
    <2> QED
      BY <1>1, <2>1 DEF ModInv, AskedOK, LiveIn
  <1>9. ~past'.mixed => PriceOK'
    <2> SUFFICES ASSUME ~past.mixed PROVE PriceOK'
      BY <1>1
    <2>1. PriceOK
      BY DEF ModInv
    <2>2. Pricing /\ Pricing'
      BY <1>1, <1>2, <1>3 DEF Pricing
    <2>3. worker.job.dropoff = ride.dropoff /\ ride'.price.of = ride'.dropoff
      BY <1>1, <1>2, <1>4, <1>6, <2>1 DEF PriceOK
    <2>4. Changing' = Changing
      BY <1>1 DEF Changing, At
    <2>5. \A h \in Handlers : work'[h].pc \notin {"write", "log", "recalculate"}
      BY <1>1, <2>1, <2>2 DEF PriceOK
    <2>6. \A i \in DOMAIN jobs' : jobs'[i].name = "recalculate" => jobs'[i].dropoff = ride'.dropoff
      BY <1>1, <1>6, <2>1 DEF PriceOK
    <2>7. \A g, h \in Changing' : g = h
      BY <2>1, <2>4 DEF PriceOK
    <2> HIDE DEF Pricing, Changing
    <2> QED
      BY <1>3, <1>6, <2>2, <2>3, <2>5, <2>6, <2>7 DEF PriceOK
  <1> QED
    BY <1>1, <1>3, <1>5, <1>6, <1>7, <1>8, <1>9, ModTypes, Steady DEF WorkerStates

\* The new price goes to the last log.
LEMMA PriceLogKept == ASSUME ModInv, priceLog PROVE ModInv'
  <1>1. /\ worker.pc = "price" /\ worker' = NoJobInHand
        /\ logs' = IF logs = <<>> THEN logs ELSE [logs EXCEPT ![Len(logs)].price = Computed]
        /\ ride' = ride /\ grace' = grace /\ jobs' = jobs /\ conflict' = conflict /\ work' = work
        /\ modifications' = modifications /\ faults' = faults /\ past' = past
    BY DEF priceLog, Done, inputs
  <1>2. worker.job.name = "recalculate"
    BY <1>1 DEF ModInv, WorkerOK
  <1>3. worker' \in [pc : WorkerStates, job : Job] /\ worker'.pc = "none"
    BY <1>1, WorkerTyped
  <1>4. Computed \in Price
    BY ModTypes, JobFields DEF Price, Computed
  <1>5. /\ logs' \in Seq(Log) /\ Len(logs') = Len(logs)
        /\ \A i \in DOMAIN logs : logs'[i].phase = logs[i].phase /\ logs'[i].fee = logs[i].fee
    <2>1. CASE logs = <<>>
      BY <1>1, <2>1, ModTypes
    <2>2. CASE logs # <<>>
      <3> PICK n : n = Len(logs)
        OBVIOUS
      <3>1. logs \in Seq(Log) /\ n \in Nat /\ n # 0 /\ DOMAIN logs = 1..n
        BY <2>2, ModTypes, EmptySeq, LenProperties
      <3>2. n \in 1..n
        BY <3>1
      <3>3. logs[n] \in Log
        BY <3>1, <3>2, ElementOfSeq
      <3> PICK e : e = [logs[n] EXCEPT !.price = Computed]
        OBVIOUS
      <3>4. e \in Log /\ e.phase = logs[n].phase /\ e.fee = logs[n].fee
        BY <1>4, <3>3 DEF Log
      <3>5. logs' = [logs EXCEPT ![n] = e]
        BY <1>1, <2>2
      <3>6. logs' \in Seq(Log) /\ Len(logs') = n /\ \A i \in 1..n : logs'[i] = IF i = n THEN e ELSE logs[i]
        BY <3>1, <3>2, <3>4, <3>5, ExceptSeq
      <3> QED
        BY <3>1, <3>2, <3>4, <3>6
    <2> QED
      BY <2>1, <2>2
  <1>6. WorkerOK'
    BY <1>3 DEF WorkerOK
  <1>7. AskedOK'
    <2>1. InHand' = 0 /\ InHand = 0
      BY <1>1, <1>3 DEF InHand
    <2> QED
      BY <1>1, <2>1 DEF ModInv, AskedOK, LiveIn
  <1>8. ~past'.mixed => PriceOK'
    <2> SUFFICES ASSUME ~past.mixed PROVE PriceOK'
      BY <1>1
    <2>1. PriceOK
      BY DEF ModInv
    <2>2. Pricing
      BY <1>1, <1>2 DEF Pricing
    <2>3. worker.job.dropoff = ride.dropoff /\ ride.price.of = ride.dropoff
      BY <1>1, <1>2, <2>1 DEF PriceOK
    <2>4. Changing' = Changing
      BY <1>1 DEF Changing, At
    <2>5. \A h \in Handlers : work'[h].pc \notin {"write", "log", "recalculate"}
      BY <1>1, <2>1, <2>2 DEF PriceOK
    <2>6. \A i \in DOMAIN jobs' : jobs'[i].name = "recalculate" => jobs'[i].dropoff = ride'.dropoff
      BY <1>1, <2>1 DEF PriceOK
    <2>7. \A g, h \in Changing' : g = h
      BY <2>1, <2>4 DEF PriceOK
    <2> HIDE DEF Pricing, Changing
    <2> QED
      BY <1>1, <1>3, <1>5, <2>3, <2>5, <2>6, <2>7 DEF PriceOK
  <1> QED
    BY <1>1, <1>3, <1>5, <1>6, <1>7, <1>8, ModTypes, Steady DEF WorkerStates

\* The other steps of the worker.
LEMMA NotifyDriverKept == ASSUME ModInv, notifyDriver PROVE ModInv'
  <1>1. worker.pc = "notify" /\ worker' = NoJobInHand
        /\ UNCHANGED <<ride, grace, logs, jobs, conflict, work, inputs, past>>
    BY DEF notifyDriver, Done
  <1>2. worker.job.name = "notify"
    BY <1>1 DEF ModInv, WorkerOK
  <1>3. InHand' = 0 /\ InHand = 0
    BY <1>1, WorkerTyped DEF InHand
  <1> QED
    BY <1>1, <1>2, <1>3, ModTypes, WorkerSteps DEF inputs
\* The key was there or not, and the driver is to be released or not.
LEMMA ResolveConflictKept == ASSUME ModInv, resolveConflict PROVE ModInv'
  <1>1. worker.pc = "resolve" /\ UNCHANGED <<ride, grace, logs, jobs, conflict, work, inputs, past>>
    BY DEF resolveConflict
  <1>2. worker.job.name = "resolve" /\ worker.job.reason \in {"driver_no_response", "implicit_accept"}
    BY <1>1, ModTypes, JobFields DEF ModInv, WorkerOK
  <1>3. \/ worker' = NoJobInHand
        \/ worker' = [worker EXCEPT !.pc = "release"] /\ Releases(worker.job)
        \/ worker' = [worker EXCEPT !.pc = "del"] /\ worker.job.name = "resolve"
    BY <1>2 DEF resolveConflict, Done, Next1, Releases
  <1>4. worker'.pc = "none" \/ (worker'.pc \in {"release", "del"} /\ worker'.job = worker.job)
    BY <1>3, ModTypes, WorkerTyped DEF WorkerStates
  <1>5. InHand' <= InHand /\ InHand \in Nat /\ InHand' \in Nat
    BY <1>1, <1>4 DEF InHand
  <1>6. past.released \in Nat /\ past' = past
    BY <1>1, ModTypes
  <1>7. past'.released + InHand' <= past.released + InHand
    BY <1>5, <1>6
  <1> QED
    BY <1>1, <1>2, <1>3, <1>6, <1>7, ModTypes, WorkerSteps DEF inputs
\* The driver is taken off the ride.
LEMMA ReleaseDriverKept == ASSUME ModInv, releaseDriver PROVE ModInv'
  <1> PICK n : n = past.released
    OBVIOUS
  <1>1. /\ worker.pc = "release" /\ ride' = [ride EXCEPT !.driver = None, !.status = "searching"]
        /\ grace' = FALSE /\ worker' = [worker EXCEPT !.pc = "del"]
        /\ logs' = logs /\ jobs' = jobs /\ conflict' = conflict /\ work' = work
        /\ modifications' = modifications /\ faults' = faults /\ past' = [past EXCEPT !.released = n + 1]
    BY DEF releaseDriver, Next1, inputs
  <1>2. Releases(worker.job) /\ worker.job.name = "resolve"
    BY <1>1 DEF ModInv, WorkerOK, Releases
  <1>3. ride \in Ride /\ "searching" \in RideStatuses /\ past \in History /\ n \in Nat
    BY ModTypes DEF RideStatuses
  <1>4. ride' \in Ride
    BY <1>1, <1>3 DEF Ride
  <1>5. ride'.count = ride.count /\ ride'.fees = ride.fees /\ ride'.dropoff = ride.dropoff
        /\ ride'.price = ride.price
    BY <1>1, <1>3 DEF Ride
  <1>6. n + 1 \in Nat
    BY <1>3
  <1>7. past' \in History /\ past'.torn = past.torn /\ past'.mixed = past.mixed /\ past'.released = n + 1
        /\ past'.unlogged = past.unlogged /\ past'.owed = past.owed /\ past'.asked = past.asked
    BY <1>1, <1>3, <1>6 DEF History
  <1>8. worker'.pc = "del"
    BY <1>1, ModTypes, WorkerTyped DEF WorkerStates
  <1>9. InHand = 1 /\ InHand' = 0
    BY <1>1, <1>2, <1>8 DEF InHand
  <1>10. past'.released + InHand' <= past.released + InHand
    BY <1>3, <1>7, <1>9
  <1> QED
    BY <1>1, <1>2, <1>4, <1>5, <1>6, <1>7, <1>10, ModTypes, WorkerSteps
\* The key is deleted.
LEMMA DeleteKeyKept == ASSUME ModInv, deleteKey PROVE ModInv'
  <1>1. /\ worker.pc = "del" /\ conflict' = FALSE /\ worker' = NoJobInHand
        /\ UNCHANGED <<ride, grace, logs, jobs, work, inputs, past>>
    BY DEF deleteKey, Done
  <1>2. worker.job.name = "resolve"
    BY <1>1 DEF ModInv, WorkerOK
  <1>3. InHand' = 0 /\ InHand = 0
    BY <1>1, WorkerTyped DEF InHand
  <1>4. past'.released = past.released /\ past.released \in Nat /\ conflict' \in BOOLEAN
    BY <1>1, ModTypes
  <1>5. past'.released + InHand' <= past.released + InHand
    BY <1>3, <1>4
  <1> QED
    BY <1>1, <1>2, <1>4, <1>5, ModTypes, WorkerSteps DEF inputs

\* A job fails: it goes back to the queue, or it was its last try.
LEMMA JobFailsKept == ASSUME ModInv, JobFails PROVE ModInv'
  <1>1. /\ worker.pc # "none" /\ faults < MaxFaults /\ faults' = faults + 1 /\ worker' = NoJobInHand
        /\ ride' = ride /\ grace' = grace /\ logs' = logs /\ conflict' = conflict /\ work' = work
        /\ modifications' = modifications
    BY DEF JobFails, Done
  <1>2. faults' \in 0..MaxFaults
    <2>1. faults \in 0..MaxFaults /\ MaxFaults \in Nat
      BY ModTypes, ModConstants
    <2> QED
      BY <1>1, <2>1
  <1>3. worker' \in [pc : WorkerStates, job : Job] /\ worker'.pc = "none"
    BY <1>1, WorkerTyped
  <1>4. WorkerOK'
    BY <1>3 DEF WorkerOK
  <1>7. /\ IsFiniteSet(LiveIn(jobs)) /\ Cardinality(LiveIn(jobs)) \in Nat /\ InHand' = 0
        /\ past.released + (Cardinality(LiveIn(jobs)) + 1) + InHand' <= past.asked + faults'
        /\ past.released + Cardinality(LiveIn(jobs)) + InHand' <= past.asked + faults'
    <2> PICK n : n = Cardinality(LiveIn(jobs))
      OBVIOUS
    <2>1. IsFiniteSet(LiveIn(jobs)) /\ past.released + n + InHand <= past.asked + faults
      BY DEF ModInv, AskedOK
    <2>2. n \in Nat
      BY <2>1, FS_CardinalityType
    <2>3. past.released \in Nat /\ past.asked \in Nat /\ faults \in Nat
      BY ModTypes
    <2>4. InHand \in Nat /\ InHand' = 0
      BY <1>3 DEF InHand
    <2>5. /\ past.released + (n + 1) + InHand' <= past.asked + faults'
          /\ past.released + n + InHand' <= past.asked + faults'
      BY <1>1, <2>1, <2>2, <2>3, <2>4
    <2> QED
      BY <2>1, <2>2, <2>4, <2>5
  <1>5. CASE worker.job.tries = 1
    <2>1. past' = [past EXCEPT !.mixed = @ \/ worker.job.name = "recalculate"] /\ jobs' = jobs
      BY <1>5 DEF JobFails
    <2>2. /\ past' \in History /\ past'.torn = past.torn
          /\ past'.unlogged = past.unlogged /\ past'.owed = past.owed
          /\ past'.asked = past.asked /\ past'.released = past.released
          /\ ~past'.mixed => ~past.mixed /\ worker.job.name # "recalculate"
      <3>1. past \in History /\ (past.mixed \/ worker.job.name = "recalculate") \in BOOLEAN
        BY ModTypes
      <3> PICK b \in BOOLEAN : b = (past.mixed \/ worker.job.name = "recalculate")
        BY <3>1
      <3>2. past' = [past EXCEPT !.mixed = b]
        BY <2>1
      <3>3. /\ past' \in History /\ past'.torn = past.torn /\ past'.mixed = b
            /\ past'.unlogged = past.unlogged /\ past'.owed = past.owed
            /\ past'.asked = past.asked /\ past'.released = past.released
        BY <3>1, <3>2 DEF History
      <3> QED
        BY <3>3
    <2>3. AskedOK'
      <3>1. past'.released + Cardinality(LiveIn(jobs)) + InHand' <= past'.asked + faults'
        BY <1>7, <2>2
      <3> QED
        BY <1>7, <2>1, <3>1 DEF AskedOK, LiveIn
    <2>4. ~past'.mixed => PriceOK'
      <3> SUFFICES ASSUME ~past'.mixed PROVE PriceOK'
        OBVIOUS
      <3>1. PriceOK /\ worker.job.name # "recalculate"
        BY <2>2 DEF ModInv
      <3>2. Pricing' = Pricing
        BY <1>3, <2>1, <3>1 DEF Pricing
      <3>3. \A i \in DOMAIN jobs' : jobs'[i].name = "recalculate" => jobs'[i].dropoff = ride.dropoff
        BY <2>1, <3>1 DEF PriceOK
      <3> QED
        BY <1>1, <1>3, <3>1, <3>2, <3>3, PriceKept
    <2> QED
      BY <1>1, <1>2, <1>3, <1>4, <2>1, <2>2, <2>3, <2>4, ModTypes, Steady DEF WorkerStates
  <1>6. CASE worker.job.tries # 1
    <2>b. PICK b : b = (worker.job.name = "recalculate")
      OBVIOUS
    <2>j. PICK j : j = [worker.job EXCEPT !.tries = @ - 1, !.delayed = b]
      OBVIOUS
    <2>1. past' = past /\ jobs' = Append(jobs, j)
      BY <2>b, <2>j, <1>6 DEF JobFails, add
    <2>2. j \in Job /\ j.name = worker.job.name /\ j.dropoff = worker.job.dropoff
      <3>1. worker.job \in Job /\ worker.job.tries \in 1..Max2(Attempts, 2) /\ Max2(Attempts, 2) \in Nat
        BY ModTypes, JobFields, ModConstants DEF Max2
      <3> PICK m : m = Max2(Attempts, 2)
        OBVIOUS
      <3>2. worker.job.tries - 1 \in 1..Max2(Attempts, 2)
        <4>1. worker.job.tries - 1 \in 1..m
          BY <1>6, <3>1
        <4> QED
          BY <4>1
      <3> QED
        BY <2>b, <2>j, <3>1, <3>2 DEF Job
    <2>3. /\ jobs' \in Seq(Job) /\ \A i \in DOMAIN jobs : i \in DOMAIN jobs' /\ jobs'[i] = jobs[i]
          /\ \A i \in DOMAIN jobs' : i \in DOMAIN jobs \/ jobs'[i] = j
          /\ Len(jobs) + 1 \in DOMAIN jobs' /\ jobs'[Len(jobs) + 1] = j
      <3>1. jobs \in Seq(Job)
        BY ModTypes
      <3> QED
        BY <2>1, <2>2, <3>1, Appended
    <2>4. AskedOK'
      <3>n. PICK n : n = Cardinality(LiveIn(jobs))
        OBVIOUS
      <3>m. PICK m : m = Cardinality(LiveIn(jobs'))
        OBVIOUS
      <3>3. jobs \in Seq(Job) /\ IsFiniteSet(LiveIn(jobs))
        BY <1>7, ModTypes
      <3>4. /\ IsFiniteSet(LiveIn(jobs'))
            /\ Cardinality(LiveIn(jobs')) = IF Releases(j) THEN Cardinality(LiveIn(jobs)) + 1
                                            ELSE Cardinality(LiveIn(jobs))
        BY <2>1, <2>2, <3>3, MoreLive
      <3>1. IsFiniteSet(LiveIn(jobs')) /\ (m = n \/ m = n + 1)
        BY <3>n, <3>m, <3>4
      <3>2. past'.released + m + InHand' <= past'.asked + faults'
        BY <3>n, <1>7, <2>1, <3>1
      <3> QED
        BY <3>m, <3>1, <3>2 DEF AskedOK
    <2>5. ~past'.mixed => PriceOK'
      <3> SUFFICES ASSUME ~past.mixed PROVE PriceOK'
        BY <2>1
      <3>1. PriceOK
        BY DEF ModInv
      <3>2. Pricing' = Pricing
        <4>1. Pricing => Pricing'
          BY <1>1, <2>2, <2>3 DEF Pricing
        <4>2. Pricing' => Pricing
          BY <1>1, <1>3, <2>2, <2>3 DEF Pricing
        <4> QED
          BY <4>1, <4>2 DEF Pricing
      <3>3. \A i \in DOMAIN jobs' : jobs'[i].name = "recalculate" => jobs'[i].dropoff = ride.dropoff
        BY <1>1, <2>2, <2>3, <3>1 DEF PriceOK
      <3> QED
        BY <1>1, <1>3, <3>1, <3>2, <3>3, PriceKept
    <2> QED
      BY <1>1, <1>2, <1>3, <1>4, <2>1, <2>3, <2>4, <2>5, ModTypes, Steady DEF WorkerStates
  <1> QED
    BY <1>5, <1>6

-----------------------------------------------------------------------------
(* What happens around the requests and the worker *)

\* The ride goes on.
LEMMA RideMovesKept == ASSUME ModInv, RideMoves PROVE ModInv'
  <1>1. /\ logs' = logs /\ jobs' = jobs /\ conflict' = conflict /\ work' = work /\ worker' = worker
        /\ modifications' = modifications /\ faults' = faults /\ past' = past
        /\ grace' \in BOOLEAN
        /\ \E to \in RideStatuses : \/ \E d \in Drivers : ride' = [ride EXCEPT !.status = to, !.driver = d]
                                    \/ ride' = [ride EXCEPT !.status = to]
    BY DEF RideMoves, inputs
  <1>2. ride \in Ride
    BY ModTypes
  <1>3. ride' \in Ride
    BY <1>1, <1>2 DEF Ride
  <1>4. ride'.count = ride.count /\ ride'.fees = ride.fees /\ ride'.dropoff = ride.dropoff
        /\ ride'.price = ride.price
    BY <1>1, <1>2 DEF Ride
  <1>6. WorkerOK' /\ AskedOK'
    BY <1>1, AskedKept DEF ModInv, WorkerOK, Releases
  <1>7. ~past'.mixed => PriceOK'
    <2> SUFFICES ASSUME ~past.mixed PROVE PriceOK'
      BY <1>1
    <2>1. PriceOK
      BY DEF ModInv
    <2>2. Pricing' = Pricing
      BY <1>1 DEF Pricing
    <2>3. /\ \A i \in DOMAIN jobs' : jobs'[i].name = "recalculate" => jobs'[i].dropoff = ride.dropoff
          /\ worker'.pc # "none" /\ worker'.job.name = "recalculate" => worker'.job.dropoff = ride.dropoff
      BY <1>1, <2>1 DEF PriceOK
    <2> QED
      BY <1>1, <1>4, <2>1, <2>2, <2>3, PriceKept
  <1> QED
    BY <1>1, <1>3, <1>4, <1>6, <1>7, ModTypes, Steady DEF WorkerStates

\* The time to change an accepted ride is over, or the key expires.
LEMMA ClocksKept == ASSUME ModInv, GraceEnds \/ KeyExpires PROVE ModInv'
  <1>1. /\ ride' = ride /\ logs' = logs /\ jobs' = jobs /\ work' = work /\ worker' = worker
        /\ modifications' = modifications /\ faults' = faults /\ past' = past
        /\ grace' \in BOOLEAN /\ conflict' \in BOOLEAN
    BY ModTypes DEF GraceEnds, KeyExpires, inputs
  <1>2. WorkerOK' /\ AskedOK'
    BY <1>1, AskedKept DEF ModInv, WorkerOK, Releases
  <1>3. ~past'.mixed => PriceOK'
    BY <1>1 DEF ModInv, PriceOK, Pricing, Changing, At, Dropoff
  <1> QED
    BY <1>1, <1>2, <1>3, ModTypes, Steady DEF WorkerStates

\* The delay of a job is over.
LEMMA DelayEndsKept == ASSUME ModInv, DelayEnds PROVE ModInv'
  <1>i. PICK i \in DOMAIN jobs : jobs' = Append(Without(i), [jobs[i] EXCEPT !.delayed = FALSE])
    BY DEF DelayEnds
  <1>j. PICK j : j = jobs[i]
    OBVIOUS
  <1>e. PICK e : e = [j EXCEPT !.delayed = FALSE]
    OBVIOUS
  <1>t. PICK t : t = Without(i)
    OBVIOUS
  <1>1. /\ jobs' = Append(t, e)
        /\ ride' = ride /\ grace' = grace /\ logs' = logs /\ conflict' = conflict /\ work' = work
        /\ worker' = worker /\ modifications' = modifications /\ faults' = faults /\ past' = past
    BY <1>i, <1>j, <1>e, <1>t DEF DelayEnds, inputs
  <1>2. j \in Job
    BY <1>j, ModTypes
  <1>3. e \in Job /\ e.name = j.name /\ e.dropoff = j.dropoff /\ e.reason = j.reason
    BY <1>e, <1>2 DEF Job
  <1>4. /\ t \in Seq(Job)
        /\ \A k \in DOMAIN t : \E l \in DOMAIN jobs : t[k] = jobs[l]
        /\ \A l \in DOMAIN jobs \ {i} : \E k \in DOMAIN t : t[k] = jobs[l]
    BY <1>t, ModTypes, Taken
  <1>5. /\ jobs' \in Seq(Job) /\ \A k \in DOMAIN t : k \in DOMAIN jobs' /\ jobs'[k] = t[k]
        /\ \A k \in DOMAIN jobs' : k \in DOMAIN t \/ jobs'[k] = e
        /\ \E k \in DOMAIN jobs' : jobs'[k] = e
    <2>1. /\ jobs' \in Seq(Job) /\ \A k \in DOMAIN t : k \in DOMAIN jobs' /\ jobs'[k] = t[k]
          /\ \A k \in DOMAIN jobs' : k \in DOMAIN t \/ jobs'[k] = e
          /\ jobs'[Len(t) + 1] = e /\ Len(t) + 1 \in DOMAIN jobs'
      BY <1>1, <1>3, <1>4, Appended
    <2> QED
      BY <2>1
  <1>6. /\ \A k \in DOMAIN jobs' : \E l \in DOMAIN jobs :
              jobs'[k].name = jobs[l].name /\ jobs'[k].dropoff = jobs[l].dropoff
        /\ \A l \in DOMAIN jobs : \E k \in DOMAIN jobs' : jobs'[k].name = jobs[l].name
    <2>1. ASSUME NEW k \in DOMAIN jobs'
          PROVE  \E l \in DOMAIN jobs : jobs'[k].name = jobs[l].name /\ jobs'[k].dropoff = jobs[l].dropoff
      <3>1. CASE k \in DOMAIN t
        BY <1>4, <1>5, <3>1
      <3>2. CASE jobs'[k] = e
        BY <1>3, <1>4, <3>2, <1>j
      <3> QED
        BY <1>5, <3>1, <3>2
    <2>2. ASSUME NEW l \in DOMAIN jobs PROVE \E k \in DOMAIN jobs' : jobs'[k].name = jobs[l].name
      <3>1. CASE l = i
        BY <1>j, <1>3, <1>5, <3>1
      <3>2. CASE l # i
        <4> PICK k \in DOMAIN t : t[k] = jobs[l]
          BY <1>4, <3>2
        <4>1. k \in DOMAIN jobs' /\ jobs'[k] = jobs[l]
          BY <1>5
        <4> QED
          BY <4>1
      <3> QED
        BY <3>1, <3>2
    <2> QED
      BY <2>1, <2>2
  <1>7. WorkerOK'
    BY <1>1 DEF ModInv, WorkerOK, Releases
  <1>8. AskedOK'
    <2>n. PICK n : n = Cardinality(LiveIn(jobs))
      OBVIOUS
    <2>m. PICK m : m = Cardinality(LiveIn(t))
      OBVIOUS
    <2>1. IsFiniteSet(LiveIn(jobs)) /\ past.released + n + InHand <= past.asked + faults
      BY <2>n DEF ModInv, AskedOK
    <2>2. IsFiniteSet(LiveIn(t)) /\ m \in Nat /\ n = (IF Releases(j) THEN m + 1 ELSE m)
      BY <2>n, <2>m, <1>t, <1>j, <2>1, ModTypes, LiveTaken
    <2>3. Releases(e) <=> Releases(j)
      BY <1>3 DEF Releases
    <2>4. IsFiniteSet(LiveIn(jobs')) /\ Cardinality(LiveIn(jobs')) = n
      <3>1. /\ IsFiniteSet(LiveIn(jobs'))
            /\ Cardinality(LiveIn(jobs')) = IF Releases(e) THEN Cardinality(LiveIn(t)) + 1
                                            ELSE Cardinality(LiveIn(t))
        BY <1>1, <1>3, <1>4, <2>m, <2>2, MoreLive
      <3> QED
        BY <2>m, <2>2, <2>3, <3>1
    <2>5. InHand' = InHand
      BY <1>1 DEF InHand
    <2> QED
      BY <1>1, <2>1, <2>4, <2>5 DEF AskedOK
  <1>9. ~past'.mixed => PriceOK'
    <2> SUFFICES ASSUME ~past.mixed PROVE PriceOK'
      BY <1>1
    <2>1. PriceOK
      BY DEF ModInv
    <2>2. Pricing' = Pricing
      <3>1. Pricing => Pricing'
        BY <1>1, <1>6 DEF Pricing
      <3>2. Pricing' => Pricing
        BY <1>1, <1>6 DEF Pricing
      <3> QED
        BY <3>1, <3>2 DEF Pricing
    <2>3. /\ \A k \in DOMAIN jobs' : jobs'[k].name = "recalculate" => jobs'[k].dropoff = ride.dropoff
          /\ worker'.pc # "none" /\ worker'.job.name = "recalculate" => worker'.job.dropoff = ride.dropoff
      BY <1>1, <1>6, <2>1 DEF PriceOK
    <2> QED
      BY <1>1, <2>1, <2>2, <2>3, PriceKept
  <1> QED
    BY <1>1, <1>5, <1>7, <1>8, <1>9, ModTypes, Steady DEF WorkerStates

-----------------------------------------------------------------------------
(* The requests, once the ride is charged *)

\* A request that has no price to ask asks the rest: the driver's answer, a notice, a settlement.
LEMMA AsksKept ==
  ASSUME ModInv, NEW h \in Handlers, work[h].pc \in {"conflict", "notify", "resolve"},
         work'[h].pc \in {"idle", "conflict", "notify", "resolve"}, work' \in [Handlers -> Local],
         \A g \in Handlers : g # h => work'[g] = work[g],
         ride' = ride, grace' = grace, logs' = logs, worker' = worker, modifications' = modifications,
         faults' = faults, conflict' \in BOOLEAN,
         past' \in History, past'.torn = past.torn, past'.mixed = past.mixed,
         past'.unlogged = past.unlogged, past'.owed = past.owed,
         NEW j \in Job, j.name # "recalculate", jobs' = jobs \/ jobs' = Append(jobs, j),
         AskedOK'
  PROVE  ModInv'
  <1>1. /\ jobs' \in Seq(Job) /\ \A i \in DOMAIN jobs : i \in DOMAIN jobs' /\ jobs'[i] = jobs[i]
        /\ \A i \in DOMAIN jobs' : i \in DOMAIN jobs \/ jobs'[i] = j
    <2>1. jobs \in Seq(Job)
      BY ModTypes
    <2>2. CASE jobs' = jobs
      BY <2>1, <2>2
    <2>3. CASE jobs' = Append(jobs, j)
      BY <2>1, <2>3, Appended
    <2> QED
      BY <2>2, <2>3
  <1>2. WorkerOK'
    BY DEF ModInv, WorkerOK, Releases
  <1>3. ~past'.mixed => PriceOK'
    <2> SUFFICES ASSUME ~past.mixed PROVE PriceOK'
      OBVIOUS
    <2>1. PriceOK
      BY DEF ModInv
    <2>2. Pricing' = Pricing
      BY <1>1 DEF Pricing
    <2>3. /\ \A i \in DOMAIN jobs' : jobs'[i].name = "recalculate" => jobs'[i].dropoff = ride.dropoff
          /\ worker'.pc # "none" /\ worker'.job.name = "recalculate" => worker'.job.dropoff = ride.dropoff
      BY <1>1, <2>1 DEF PriceOK
    <2>4. \A g \in Handlers : \/ work'[g] = work[g]
                              \/ /\ work[g].pc \notin {"idle", "write", "log", "recalculate"}
                                 /\ work'[g].pc \notin {"write", "log", "recalculate"}
      OBVIOUS
    <2> QED
      BY <2>1, <2>2, <2>3, <2>4, PriceKept
  <1>4. \A g \in Handlers : work'[g] = work[g] \/ work'[g].pc \notin {"write", "log"}
    OBVIOUS
  <1> QED
    BY <1>1, <1>2, <1>3, <1>4, ModTypes, Steady DEF WorkerStates

\* A conflict is recorded.
LEMMA RecordConflictKept == ASSUME ModInv, NEW h \in Handlers, recordConflict(h) PROVE ModInv'
  <1>1. /\ work[h].pc = "conflict" /\ conflict' = TRUE /\ past' = past
        /\ ride' = ride /\ grace' = grace /\ logs' = logs /\ jobs' = jobs /\ worker' = worker
        /\ modifications' = modifications /\ faults' = faults
    BY DEF recordConflict, At, inputs
  <1>2. /\ work' \in [Handlers -> Local] /\ work'[h].pc \in {"notify", "resolve"}
        /\ \A g \in Handlers : g # h => work'[g] = work[g]
    <2>1. Goto(h, "notify") \/ Goto(h, "resolve")
      BY DEF recordConflict
    <2> QED
      BY <2>1, EndsOrGoes
  <1>3. AskedOK'
    BY <1>1, AskedKept DEF ModInv
  <1>4. NoJobInHand.job \in Job /\ NoJobInHand.job.name # "recalculate"
    BY WorkerTyped DEF NoJobInHand, NewJob
  <1> QED
    BY <1>1, <1>2, <1>3, <1>4, ModTypes, AsksKept

\* One job more that releases nobody, or one that was asked for.
LEMMA AskedMore ==
  ASSUME ModInv, NEW j \in Job, jobs' = Append(jobs, j), worker' = worker, faults' = faults,
         past'.released = past.released,
         past'.asked = IF Releases(j) THEN past.asked + 1 ELSE past.asked
  PROVE  AskedOK'
  <1>n. PICK n : n = Cardinality(LiveIn(jobs))
    OBVIOUS
  <1>m. PICK m : m = Cardinality(LiveIn(jobs'))
    OBVIOUS
  <1>1. IsFiniteSet(LiveIn(jobs)) /\ past.released + n + InHand <= past.asked + faults
    BY <1>n DEF ModInv, AskedOK
  <1>2. IsFiniteSet(LiveIn(jobs')) /\ n \in Nat /\ m = (IF Releases(j) THEN n + 1 ELSE n)
    BY <1>n, <1>m, <1>1, ModTypes, MoreLive
  <1>3. InHand' = InHand /\ InHand \in Nat
    BY DEF InHand
  <1>4. past.released \in Nat /\ past.asked \in Nat /\ faults \in Nat
    BY ModTypes
  <1>5. past'.released + m + InHand' <= past'.asked + faults'
    <2>k. PICK k : k = InHand
      OBVIOUS
    <2>1. k \in Nat /\ past.released + n + k <= past.asked + faults
      BY <2>k, <1>1, <1>3
    <2>2. CASE Releases(j)
      <3>a. PICK a \in Nat : a = past.released
        BY <1>4
      <3>b. PICK b \in Nat : b = past.asked
        BY <1>4
      <3>2. n \in Nat /\ a + n + k <= b + faults
        BY <3>a, <3>b, <1>2, <2>1
      <3>3. a + (n + 1) + k <= (b + 1) + faults
        BY <1>4, <2>1, <3>2
      <3>1. past.released + (n + 1) + k <= (past.asked + 1) + faults
        BY <3>a, <3>b, <3>3
      <3> QED
        BY <2>k, <1>2, <1>3, <2>2, <3>1
    <2>3. CASE ~Releases(j)
      BY <2>k, <1>2, <1>3, <2>1, <2>3
    <2> QED
      BY <2>2, <2>3
  <1> QED
    BY <1>m, <1>2, <1>5 DEF AskedOK

\* The driver is to be told.
LEMMA EnqueueNoticeKept == ASSUME ModInv, NEW h \in Handlers, enqueueNotice(h) PROVE ModInv'
  <1> PICK j : j = [NewJob("notify") EXCEPT !.tries = IF work[h].enRoute THEN Attempts ELSE 2]
    OBVIOUS
  <1>1. /\ work[h].pc = "notify" /\ jobs' = Append(jobs, j)
        /\ ride' = ride /\ grace' = grace /\ logs' = logs /\ conflict' = conflict /\ worker' = worker
           /\ past' = past
        /\ modifications' = modifications /\ faults' = faults
    BY DEF enqueueNotice, At, add, inputs
  <1>2. /\ work' \in [Handlers -> Local] /\ work'[h].pc \in {"idle", "conflict", "resolve"}
        /\ \A g \in Handlers : g # h => work'[g] = work[g]
    <2>1. Goto(h, "resolve") \/ Goto(h, "conflict") \/ End(h)
      BY DEF enqueueNotice
    <2> QED
      BY <2>1, EndsOrGoes
  <1>3. j \in Job /\ j.name = "notify"
    <2> PICK n : n = IF work[h].enRoute THEN Attempts ELSE 2
      OBVIOUS
    <2>1. n \in 1..Max2(Attempts, 2)
      BY TriesTyped
    <2>2. j = [NewJob("notify") EXCEPT !.tries = n]
      OBVIOUS
    <2> QED
      BY <2>1, <2>2, NoticeTyped
  <1>4. AskedOK'
    <2>1. ~Releases(j)
      BY <1>3 DEF Releases
    <2> QED
      BY <1>1, <1>3, <2>1, AskedMore
  <1> QED
    BY <1>1, <1>2, <1>3, <1>4, ModTypes, AsksKept

\* The settlement of a conflict is asked for: that of a change before departure may release the driver.
LEMMA EnqueueResolveKept == ASSUME ModInv, NEW h \in Handlers, enqueueResolve(h) PROVE ModInv'
  <1> PICK r : r = IF work[h].enRoute THEN "implicit_accept" ELSE "driver_no_response"
    OBVIOUS
  <1> PICK j : j = [NewJob("resolve") EXCEPT !.delayed = TRUE, !.reason = r]
    OBVIOUS
  <1> PICK n : n = past.asked
    OBVIOUS
  <1>1. /\ work[h].pc = "resolve" /\ jobs' = Append(jobs, j) /\ End(h)
        /\ ride' = ride /\ grace' = grace /\ logs' = logs /\ conflict' = conflict /\ worker' = worker
        /\ modifications' = modifications /\ faults' = faults
        /\ past' = IF work[h].enRoute THEN past ELSE [past EXCEPT !.asked = n + 1]
    BY DEF enqueueResolve, At, add, inputs
  <1>2. /\ work' \in [Handlers -> Local] /\ work'[h].pc = "idle"
        /\ \A g \in Handlers : g # h => work'[g] = work[g]
    BY <1>1, EndsOrGoes
  <1>3. j \in Job /\ j.name = "resolve" /\ j.reason = r
    <2>1. r \in {"driver_no_response", "implicit_accept"}
      OBVIOUS
    <2> QED
      BY <2>1, SettlementTyped
  <1>4. Releases(j) <=> ~work[h].enRoute
    BY <1>3 DEF Releases
  <1>5. past \in History /\ n \in Nat /\ n + 1 \in Nat
    BY ModTypes
  <1>6. /\ past' \in History /\ past'.torn = past.torn /\ past'.mixed = past.mixed
        /\ past'.unlogged = past.unlogged /\ past'.owed = past.owed /\ past'.released = past.released
        /\ past'.asked = IF work[h].enRoute THEN n ELSE n + 1
    <2>1. CASE work[h].enRoute
      BY <1>1, <1>5, <2>1
    <2>2. CASE ~work[h].enRoute
      BY <1>1, <1>5, <2>2 DEF History
    <2> QED
      BY <2>1, <2>2
  <1>7. AskedOK'
    BY <1>1, <1>3, <1>4, <1>6, AskedMore
  <1> QED
    BY <1>1, <1>2, <1>3, <1>6, <1>7, ModTypes, AsksKept

\* The price is asked of the worker, for the destination the request wrote.
LEMMA EnqueuePriceKept == ASSUME ModInv, NEW h \in Handlers, enqueuePrice(h) PROVE ModInv'
  <1> PICK j : j = [NewJob("recalculate") EXCEPT !.dropoff = Dropoff(work[h]), !.tries = Attempts]
    OBVIOUS
  <1>1. /\ work[h].pc = "recalculate" /\ jobs' = Append(jobs, j)
        /\ ride' = ride /\ grace' = grace /\ logs' = logs /\ conflict' = conflict /\ worker' = worker
           /\ past' = past
        /\ modifications' = modifications /\ faults' = faults
    BY DEF enqueuePrice, At, add, inputs
  <1>2. /\ work' \in [Handlers -> Local] /\ work'[h].pc \in {"idle", "conflict"}
        /\ \A g \in Handlers : g # h => work'[g] = work[g]
    <2>1. Goto(h, "conflict") \/ End(h)
      BY DEF enqueuePrice
    <2> QED
      BY <2>1, EndsOrGoes
  <1>3. j \in Job /\ j.name = "recalculate" /\ j.dropoff = Dropoff(work[h])
    <2> PICK d : d = Dropoff(work[h])
      OBVIOUS
    <2>1. d \in Dests \cup {None}
      BY RequestTyped DEF Dropoff, ModInv
    <2>2. j = [NewJob("recalculate") EXCEPT !.dropoff = d, !.tries = Attempts]
      OBVIOUS
    <2> QED
      BY <2>1, <2>2, PricingTyped
  <1>4. /\ jobs' \in Seq(Job) /\ \A i \in DOMAIN jobs' : (i \in DOMAIN jobs /\ jobs'[i] = jobs[i]) \/ jobs'[i] = j
        /\ \E i \in DOMAIN jobs' : jobs'[i] = j
    <2>1. jobs \in Seq(Job)
      BY ModTypes
    <2> QED
      BY <1>1, <1>3, <2>1, Appended
  <1>5. AskedOK'
    <2>1. ~Releases(j)
      BY <1>3 DEF Releases
    <2> QED
      BY <1>1, <1>3, <2>1, AskedMore
  <1>6. ~past'.mixed => PriceOK'
    <2> SUFFICES ASSUME ~past.mixed PROVE PriceOK'
      BY <1>1
    <2>1. PriceOK
      BY DEF ModInv
    <2>2. Pricing'
      BY <1>3, <1>4 DEF Pricing
    <2>3. j.dropoff = ride.dropoff
      BY <1>1, <1>3, <2>1 DEF PriceOK
    <2>4. \A i \in DOMAIN jobs' : jobs'[i].name = "recalculate" => jobs'[i].dropoff = ride'.dropoff
      BY <1>1, <1>4, <2>1, <2>3 DEF PriceOK
    <2>5. h \in Changing /\ \A g \in Changing' : g \in Changing
      BY <1>1, <1>2 DEF Changing, At
    <2>6. \A f, g \in Changing' : f = g
      BY <2>1, <2>5 DEF PriceOK
    <2>7. \A g \in Handlers : g # h => work[g].pc = "idle"
      BY <2>1, <2>5 DEF PriceOK, Changing, At
    <2>8. \A g \in Handlers : work'[g].pc \notin {"write", "log", "recalculate"}
      BY <1>2, <2>7
    <2>9. /\ worker'.pc # "none" /\ worker'.job.name = "recalculate" => worker'.job.dropoff = ride'.dropoff
          /\ worker'.pc = "price" => ride'.price.of = ride'.dropoff
      BY <1>1, <2>1 DEF PriceOK
    <2> HIDE DEF Pricing, Changing
    <2> QED
      BY <2>2, <2>4, <2>6, <2>8, <2>9 DEF PriceOK
  <1>7. WorkerOK'
    BY <1>1 DEF ModInv, WorkerOK, Releases
  <1>8. \A g \in Handlers : work'[g] = work[g] \/ work'[g].pc \notin {"write", "log"}
    BY <1>1, <1>2
  <1> QED
    BY <1>1, <1>2, <1>4, <1>5, <1>6, <1>7, <1>8, ModTypes, Steady DEF WorkerStates

\* A request ends before its time: a step of the change is missing.
LEMMA AbandonKept ==
  ASSUME ModInv, NEW h \in Handlers, End(h), ride' = ride, grace' = grace, logs' = logs, jobs' = jobs,
         conflict' = conflict, worker' = worker, modifications' = modifications,
         faults' \in 0..MaxFaults, faults' >= faults,
         past' = [past EXCEPT !.mixed = TRUE]
  PROVE  ModInv'
  <1>1. /\ work' \in [Handlers -> Local] /\ work'[h].pc = "idle"
        /\ \A g \in Handlers : g # h => work'[g] = work[g]
    BY EndsOrGoes
  <1>2. /\ past' \in History /\ past'.mixed = TRUE /\ past'.torn = past.torn /\ past'.unlogged = past.unlogged
        /\ past'.owed = past.owed /\ past'.asked = past.asked /\ past'.released = past.released
    BY ModTypes DEF History
  <1>3. WorkerOK'
    BY DEF ModInv, WorkerOK, Releases
  <1>4. AskedOK'
    <2> PICK n : n = Cardinality(LiveIn(jobs))
      OBVIOUS
    <2>1. IsFiniteSet(LiveIn(jobs)) /\ past.released + n + InHand <= past.asked + faults
      BY DEF ModInv, AskedOK
    <2>2. n \in Nat /\ past.released \in Nat /\ past.asked \in Nat /\ faults \in Nat /\ faults' \in Nat
      BY <2>1, ModTypes, ModConstants, FS_CardinalityType
    <2>3. InHand' = InHand /\ InHand \in Nat
      BY DEF InHand
    <2>4. past'.released + n + InHand' <= past'.asked + faults'
      BY <1>2, <2>1, <2>2, <2>3
    <2> QED
      BY <2>1, <2>4 DEF AskedOK, LiveIn
  <1>5. \A g \in Handlers : work'[g] = work[g] \/ work'[g].pc \notin {"write", "log"}
    BY <1>1
  <1> QED
    BY <1>1, <1>2, <1>3, <1>4, <1>5, ModTypes, Steady DEF WorkerStates
\* The log has no new value to name.
LEMMA LogFailsKept == ASSUME ModInv, NEW h \in Handlers, LogFails(h) PROVE ModInv'
  <1>1. /\ End(h) /\ past' = [past EXCEPT !.mixed = TRUE]
        /\ ride' = ride /\ grace' = grace /\ logs' = logs /\ jobs' = jobs /\ conflict' = conflict
        /\ worker' = worker /\ modifications' = modifications /\ faults' = faults
    BY DEF LogFails, inputs
  <1>2. faults' \in 0..MaxFaults /\ faults' >= faults
    BY <1>1, ModTypes
  <1> QED
    BY <1>1, <1>2, AbandonKept
\* A query of a request fails.
LEMMA RequestFailsKept == ASSUME ModInv, NEW h \in Handlers, RequestFails(h) PROVE ModInv'
  <1>1. /\ faults < MaxFaults /\ faults' = faults + 1 /\ End(h) /\ past' = [past EXCEPT !.mixed = TRUE]
        /\ ride' = ride /\ grace' = grace /\ logs' = logs /\ jobs' = jobs /\ conflict' = conflict
        /\ worker' = worker /\ modifications' = modifications
    BY DEF RequestFails
  <1>2. faults' \in 0..MaxFaults /\ faults' >= faults
    <2>1. faults \in 0..MaxFaults /\ MaxFaults \in Nat
      BY ModTypes, ModConstants
    <2> QED
      BY <1>1, <2>1
  <1> QED
    BY <1>1, <1>2, AbandonKept

-----------------------------------------------------------------------------
(* The requests, while they charge the ride *)

\* One more request that will write its log, or one less.
LEMMA CountedMoves ==
  ASSUME BoundsOK, NEW h \in Handlers, \A g \in Handlers : g # h => work'[g] = work[g]
  PROVE  /\ work[h].pc \notin {"write", "log"} /\ work'[h].pc \in {"write", "log"} =>
               IsFiniteSet(Counted') /\ Cardinality(Counted') = Cardinality(Counted) + 1
         /\ work[h].pc \in {"write", "log"} /\ work'[h].pc \notin {"write", "log"} =>
               IsFiniteSet(Counted') /\ Cardinality(Counted') + 1 = Cardinality(Counted)
         /\ work[h].pc \in {"write", "log"} /\ work'[h].pc \in {"write", "log"} => Counted' = Counted
         /\ Cardinality(Counted) \in Nat
  <1> PICK S : S = Counted
    OBVIOUS
  <1> PICK T : T = Counted'
    OBVIOUS
  <1>1. IsFiniteSet(S)
    BY DEF BoundsOK
  <1>2. work[h].pc \notin {"write", "log"} /\ work'[h].pc \in {"write", "log"} => T = S \cup {h} /\ h \notin S
    BY DEF Counted
  <1>3. work[h].pc \in {"write", "log"} /\ work'[h].pc \notin {"write", "log"} => T = S \ {h} /\ h \in S
    BY DEF Counted
  <1>4. work[h].pc \in {"write", "log"} /\ work'[h].pc \in {"write", "log"} => T = S
    BY DEF Counted
  <1>5. /\ T = S \cup {h} /\ h \notin S => IsFiniteSet(T) /\ Cardinality(T) = Cardinality(S) + 1
        /\ T = S \ {h} /\ h \in S => IsFiniteSet(T) /\ Cardinality(T) + 1 = Cardinality(S)
        /\ Cardinality(S) \in Nat
    BY <1>1, CountMore
  <1> QED
    BY <1>2, <1>3, <1>4, <1>5

\* A request begins.
LEMMA BeginKept ==
  ASSUME ModInv, NEW h \in Handlers, NEW enRoute \in BOOLEAN, NEW dto \in Dto, enRoute => dto.dest # None,
         Begin(h, enRoute, dto)
  PROVE  ModInv'
  <1> PICK b : b = (past.torn \/ \E g \in Changing : At(g, "write"))
    OBVIOUS
  <1> PICK c : c = (past.mixed \/ Changing # {} \/ Pricing)
    OBVIOUS
  <1> PICK w : w = [pc |-> "write", enRoute |-> enRoute, row |-> ride, dto |-> dto]
    OBVIOUS
  <1>1. /\ work[h].pc = "idle" /\ modifications < MaxModifications /\ modifications' = modifications + 1
        /\ work' = [work EXCEPT ![h] = w] /\ past' = [past EXCEPT !.torn = b, !.mixed = c]
        /\ ride' = ride /\ grace' = grace /\ logs' = logs /\ jobs' = jobs /\ conflict' = conflict
        /\ worker' = worker /\ faults' = faults
    BY DEF Begin, At
  <1>2. ModificationTypeOK /\ BoundsOK
    BY DEF ModInv
  <1>3. w \in Local /\ w.pc = "write" /\ w.enRoute = enRoute /\ w.row = ride /\ w.dto = dto
    BY ModTypes DEF Local
  <1>4. work' \in [Handlers -> Local] /\ work'[h] = w /\ \A g \in Handlers : g # h => work'[g] = work[g]
    BY <1>1, <1>2, <1>3, Takes
  <1>5. /\ past' \in History /\ past'.torn = b /\ past'.mixed = c
        /\ past'.unlogged = past.unlogged /\ past'.owed = past.owed
        /\ past'.asked = past.asked /\ past'.released = past.released
    <2>1. past \in History /\ b \in BOOLEAN /\ c \in BOOLEAN
      BY ModTypes
    <2> QED
      BY <1>1, <2>1 DEF History
  <1>6. modifications \in Nat /\ modifications' \in 0..MaxModifications /\ ride.count \in Nat
        /\ ride.fees \in Nat
        /\ Len(logs) \in Nat
    <2>1. modifications \in Nat /\ MaxModifications \in Nat /\ ride.count \in Nat /\ ride.fees \in Nat
          /\ Len(logs) \in Nat
      BY <1>2, ModTypes, ModConstants, RequestTyped
    <2> QED
      BY <1>1, <2>1
  <1>7. ModificationTypeOK'
    BY <1>1, <1>2, <1>4, <1>5, <1>6 DEF ModificationTypeOK
  <1>8. BoundsOK'
    <2> PICK n : n = Cardinality(Counted)
      OBVIOUS
    <2>1. IsFiniteSet(Counted') /\ Cardinality(Counted') = n + 1 /\ n \in Nat
      BY <1>1, <1>2, <1>3, <1>4, CountedMoves
    <2>2. Len(logs) + n <= modifications
      BY <1>2 DEF BoundsOK
    <2>3. Len(logs') + Cardinality(Counted') <= modifications'
      BY <1>1, <1>6, <2>1, <2>2
    <2>4. ride'.count <= modifications' /\ ride'.fees <= ride'.count * MaxFee
      BY <1>1, <1>2, <1>6 DEF BoundsOK
    <2>5. ASSUME NEW g \in Handlers, work'[g].pc = "write" PROVE RowRead(g)'
      <3>1. CASE g = h
        BY <1>1, <1>2, <1>3, <1>4, <1>6, <3>1 DEF BoundsOK, RowRead
      <3>2. CASE g # h
        <4>1. RowRead(g) /\ work[g].row.count \in Nat
          BY <1>2, <1>4, <2>5, <3>2, RequestTyped DEF BoundsOK
        <4> QED
          BY <1>1, <1>4, <1>6, <3>2, <4>1 DEF RowRead
      <3> QED
        BY <3>1, <3>2
    <2> QED
      BY <2>1, <2>3, <2>4, <2>5 DEF BoundsOK
  <1>9. Total' = Total /\ TotalFees' = TotalFees
    BY <1>1, <1>5, SameTotals
  <1>12. BooksOK'
    <2>1. BooksOK
      BY DEF ModInv
    <2>2. \A g \in Handlers : work'[g].pc = "write" => work'[g] = work[g] \/ work'[g].row = ride
      BY <1>3, <1>4
    <2> QED
      BY <1>1, <1>9, <2>1, <2>2 DEF BooksOK
  <1>13. ASSUME ~past'.torn PROVE ExactOK'
    <2>1. ExactOK /\ \A g \in Handlers : work[g].pc # "write"
      BY <1>5, <1>13 DEF ModInv, Changing, At
    <2>2. \A g \in Handlers : work'[g].pc = "write" => g = h
      BY <1>4, <2>1
    <2> QED
      BY <1>1, <1>3, <1>4, <1>9, <2>1, <2>2 DEF ExactOK
  <1>10. WorkerOK' /\ AskedOK'
    BY <1>1, <1>5, AskedKept DEF ModInv, WorkerOK, Releases
  <1>11. ASSUME ~past'.mixed PROVE PriceOK'
    <2>1. PriceOK /\ Changing = {} /\ ~Pricing
      BY <1>5, <1>11 DEF ModInv
    <2>2. \A g \in Handlers : work[g].pc = "idle"
      BY <2>1 DEF Changing, At
    <2>3. ~Pricing'
      BY <1>1, <2>1 DEF Pricing
    <2>4. ride.price.of = ride.dropoff
      BY <2>1, <2>2 DEF PriceOK
    <2>5. \A f, g \in Changing' : f = g
      BY <1>4, <2>2 DEF Changing, At
    <2>6. \A g \in Handlers : work'[g].pc \notin {"log", "recalculate"}
      BY <1>3, <1>4, <2>2
    <2>7. \A g \in Handlers : work'[g].pc = "write" =>
              /\ work'[g].row.dropoff = ride'.dropoff /\ work'[g].row.price.of = ride'.dropoff
              /\ ride'.price.of = ride'.dropoff /\ (work'[g].enRoute => work'[g].dto.dest # None)
      BY <1>1, <1>3, <1>4, <2>2, <2>4
    <2>8. /\ \A i \in DOMAIN jobs' : jobs'[i].name = "recalculate" => jobs'[i].dropoff = ride'.dropoff
          /\ worker'.pc # "none" /\ worker'.job.name = "recalculate" => worker'.job.dropoff = ride'.dropoff
          /\ worker'.pc = "price" => ride'.price.of = ride'.dropoff
      BY <1>1, <2>1 DEF PriceOK
    <2>9. ride'.price.of = ride'.dropoff
      BY <1>1, <2>4
    <2> HIDE DEF Pricing, Changing
    <2> QED
      BY <2>3, <2>5, <2>6, <2>7, <2>8, <2>9 DEF PriceOK
  <1> QED
    BY <1>7, <1>8, <1>10, <1>11, <1>12, <1>13 DEF ModInv
\* A change before departure, or en route, begins.
LEMMA ModifyKept == ASSUME ModInv, NEW h \in Handlers, modify(h) \/ modifyEnRoute(h) PROVE ModInv'
  <1>1. ASSUME modify(h) PROVE ModInv'
    <2>1. PICK dto \in Dto : Begin(h, FALSE, dto)
      BY <1>1 DEF modify
    <2> QED
      BY <2>1, BeginKept
  <1>2. ASSUME modifyEnRoute(h) PROVE ModInv'
    <2>1. PICK dto \in Dto : dto.lng /\ Begin(h, TRUE, dto)
      BY <1>2 DEF modifyEnRoute
    <2>2. dto.dest # None
      BY <2>1 DEF Dto
    <2> QED
      BY <2>1, <2>2, BeginKept
  <1> QED
    BY <1>1, <1>2

\* The fee is that of the phase.
LEMMA FeeOfPhase ==
  ASSUME NEW w, w.enRoute \in BOOLEAN
  PROVE  /\ \/ Phase(w) = "in_progress" /\ FeeOf(w) = EnRouteFee
            \/ Phase(w) = "pre_departure" /\ FeeOf(w) = Fee
            \/ Phase(w) = "pre_acceptance" /\ FeeOf(w) = 0
         /\ FeeOf(w) \in {0, Fee, EnRouteFee} /\ FeeOf(w) \in Nat /\ FeeOf(w) <= MaxFee
         /\ Phase(w) \in ModificationPhase
  <1>1. \/ Phase(w) = "in_progress" /\ FeeOf(w) = EnRouteFee
        \/ Phase(w) = "pre_departure" /\ FeeOf(w) = Fee
        \/ Phase(w) = "pre_acceptance" /\ FeeOf(w) = 0
    BY DEF Phase, FeeOf
  <1>2. FeeOf(w) \in Nat /\ FeeOf(w) <= MaxFee
    BY <1>1, ModConstants
  <1> QED
    BY <1>1, <1>2 DEF ModificationPhase

\* The fees of one change more.
LEMMA FeesMore ==
  ASSUME NEW n \in Nat, NEW m \in Nat, NEW a \in Nat, NEW f \in Nat, a <= n * m, f <= m
  PROVE  a + f <= (n + 1) * m
  <1> PICK p : p = n * m
    OBVIOUS
  <1>1. p \in Nat /\ (n + 1) * m = p + m
    OBVIOUS
  <1>2. a <= p
    OBVIOUS
  <1> QED
    BY <1>1, <1>2
\* One change more of a phase costs its fee.
LEMMA ChargeMore ==
  ASSUME NEW x \in Nat, NEW y \in Nat
  PROVE  Charge(x + 1, y) = Charge(x, y) + Fee /\ Charge(x, y + 1) = Charge(x, y) + EnRouteFee
  <1>1. Fee \in Nat /\ EnRouteFee \in Nat
    BY ModConstants
  <1> PICK a : a = Fee * x
    OBVIOUS
  <1> PICK b : b = EnRouteFee * y
    OBVIOUS
  <1>2. a \in Nat /\ b \in Nat
    BY <1>1
  <1>3. Fee * (x + 1) = a + Fee /\ EnRouteFee * (y + 1) = b + EnRouteFee
    BY <1>1, OneMore
  <1>4. Charge(x, y) = a + b /\ Charge(x + 1, y) = (a + Fee) + b /\ Charge(x, y + 1) = a + (b + EnRouteFee)
    BY <1>3 DEF Charge
  <1> QED
    BY <1>1, <1>2, <1>4

\* One log more counts for its phase.
LEMMA LogsMore ==
  ASSUME logs \in Seq(Log), NEW p, NEW f, NEW e \in Log, logs' = Append(logs, e)
  PROVE  Cardinality(LogsOf(p, f)') = IF e.phase = p /\ e.fee = f THEN Cardinality(LogsOf(p, f)) + 1
                                      ELSE Cardinality(LogsOf(p, f))
  <1> PICK S : S = LogsOf(p, f)
    OBVIOUS
  <1> PICK T : T = LogsOf(p, f)'
    OBVIOUS
  <1> PICK m : m = Len(logs) + 1
    OBVIOUS
  <1>1. /\ Len(logs) \in Nat /\ DOMAIN logs = 1..Len(logs) /\ DOMAIN logs' = 1..m
        /\ \A i \in DOMAIN logs : i \in DOMAIN logs' /\ logs'[i] = logs[i]
        /\ m \in DOMAIN logs' /\ logs'[m] = e
    BY Appended
  <1>2. m \notin DOMAIN logs /\ \A i \in DOMAIN logs' : i \in DOMAIN logs \/ i = m
    BY <1>1
  <1>3. T = IF e.phase = p /\ e.fee = f THEN S \cup {m} ELSE S
    BY <1>1, <1>2 DEF LogsOf
  <1>4. m \notin S
    BY <1>2 DEF LogsOf
  <1>5. IsFiniteSet(S)
    BY LogsFinite
  <1> QED
    BY <1>3, <1>4, <1>5, CountMore

\* The estimate is a price.
LEMMA EstimateTyped == ASSUME ModInv, NEW h \in Handlers PROVE Estimate(work[h]) \in Price
  <1>1. work[h].row.price \in Price /\ work[h].dto.dest \in Dests \cup {None}
    BY RequestTyped DEF ModInv
  <1>2. CASE work[h].enRoute
    <2> PICK x \in Dests \cup {None} :
               x = IF work[h].row.price.of = work[h].row.dropoff THEN work[h].dto.dest ELSE None
      BY <1>1
    <2>1. Estimate(work[h]) = [of |-> x, scaled |-> TRUE]
      BY <1>2 DEF Estimate
    <2> QED
      BY <2>1 DEF Price
  <1>3. CASE ~work[h].enRoute
    BY <1>1, <1>3 DEF Estimate
  <1> QED
    BY <1>2, <1>3

\* A request writes the row.
LEMMA WriteKept == ASSUME ModInv, NEW h \in Handlers, write(h) PROVE ModInv'
  <1>r. PICK r : r = work[h].row
    OBVIOUS
  <1>f. PICK f : f = FeeOf(work[h])
    OBVIOUS
  <1>c. PICK c : c = r.count + 1
    OBVIOUS
  <1>e. PICK e : e = r.fees + f
    OBVIOUS
  <1>d. PICK d : d = IF work[h].dto.dest = None THEN ride.dropoff ELSE work[h].dto.dest
    OBVIOUS
  <1>p. PICK p : p = IF work[h].enRoute THEN Estimate(work[h]) ELSE ride.price
    OBVIOUS
  <1>u. PICK u : u = past.unlogged
    OBVIOUS
  <1>o. PICK o : o = past.owed
    OBVIOUS
  <1>1. /\ work[h].pc = "write" /\ Goto(h, "log")
        /\ ride' = [ride EXCEPT !.count = c, !.fees = e, !.dropoff = d, !.price = p]
        /\ grace' = grace /\ logs' = logs /\ jobs' = jobs /\ conflict' = conflict /\ worker' = worker
        /\ modifications' = modifications /\ faults' = faults
        /\ past' = [past EXCEPT !.unlogged = u + 1, !.owed = o + f]
    BY <1>r, <1>f, <1>c, <1>e, <1>d, <1>p, <1>u, <1>o DEF write, At, inputs
  <1>2. ModificationTypeOK /\ BoundsOK /\ modifications \in 0..MaxModifications /\ MaxModifications \in Nat
    BY ModConstants DEF ModInv, ModificationTypeOK
  <1>3. /\ work' \in [Handlers -> Local] /\ work'[h].pc = "log" /\ work'[h].row = work[h].row
        /\ work'[h].dto = work[h].dto /\ work'[h].enRoute = work[h].enRoute
        /\ \A g \in Handlers : g # h => work'[g] = work[g]
    BY <1>1, EndsOrGoes
  <1>4. /\ work[h].enRoute \in BOOLEAN /\ r.count \in Nat /\ r.fees \in Nat /\ r.price \in Price
        /\ ride \in Ride /\ ride.dropoff \in Dests /\ ride.price \in Price
        /\ work[h].dto.dest \in Dests \cup {None} /\ r.dropoff \in Dests
    BY <1>r, <1>2, RequestTyped
  <1>5. f \in Nat /\ f <= MaxFee
    BY <1>f, <1>4, FeeOfPhase
  <1>6. r.count < modifications /\ r.fees <= r.count * MaxFee
    BY <1>r, <1>1, <1>2 DEF BoundsOK, RowRead
  <1>7. c \in 0..MaxModifications /\ c <= modifications /\ e \in Nat
    BY <1>c, <1>e, <1>2, <1>4, <1>5, <1>6
  <1>8. e <= c * MaxFee
    BY <1>c, <1>e, <1>4, <1>5, <1>6, FeesMore, ModConstants
  <1>9. e \in 0..(MaxModifications * MaxFee)
    <2>1. c * MaxFee <= MaxModifications * MaxFee
      BY <1>2, <1>7, FeesMonotone, ModConstants
    <2> PICK x : x = c * MaxFee
      OBVIOUS
    <2> PICK y : y = MaxModifications * MaxFee
      OBVIOUS
    <2>2. x \in Nat /\ y \in Nat
      BY <1>2, <1>7, ModConstants
    <2>3. e <= x /\ x <= y
      BY <1>8, <2>1
    <2>4. e \in 0..y
      BY <1>7, <2>2, <2>3
    <2> QED
      BY <2>4
  <1>10. d \in Dests /\ p \in Price
    BY <1>d, <1>p, <1>4, EstimateTyped
  <1>11. ride' \in Ride /\ ride'.count = c /\ ride'.fees = e /\ ride'.dropoff = d /\ ride'.price = p
    <2>1. ride' = [ride EXCEPT !.count = c, !.fees = e, !.dropoff = d, !.price = p]
      BY <1>1
    <2>2. ride \in Ride /\ c \in 0..MaxModifications /\ e \in Nat
      BY <1>4, <1>7
    <2>3. ride' \in Ride
      BY <1>10, <2>1, <2>2 DEF Ride
    <2>4. ride'.count = c /\ ride'.fees = e /\ ride'.dropoff = d /\ ride'.price = p
      BY <2>1, <2>2 DEF Ride
    <2> QED
      BY <2>3, <2>4
  <1>17. /\ past' \in History /\ past'.unlogged = u + 1 /\ past'.owed = o + f
         /\ past'.torn = past.torn /\ past'.mixed = past.mixed
         /\ past'.asked = past.asked /\ past'.released = past.released /\ u \in Int /\ o \in Int
    <2>1. past \in History /\ u \in Int /\ o \in Int
      BY <1>u, <1>o, ModTypes
    <2>2. u + 1 \in Int /\ o + f \in Int
      BY <1>5, <2>1
    <2> QED
      BY <1>1, <2>1, <2>2 DEF History
  <1>12. ModificationTypeOK'
    BY <1>1, <1>2, <1>3, <1>9, <1>11, <1>17 DEF ModificationTypeOK, MaxFee
  <1>13. BoundsOK'
    <2>1. Counted' = Counted
      BY <1>1, <1>2, <1>3, CountedMoves
    <2>2. Len(logs') + Cardinality(Counted') <= modifications' /\ IsFiniteSet(Counted')
      BY <1>1, <1>2, <2>1 DEF BoundsOK
    <2>3. ride'.count <= modifications' /\ ride'.fees <= ride'.count * MaxFee
      BY <1>1, <1>7, <1>8, <1>11
    <2>4. \A g \in Handlers : work'[g].pc = "write" => RowRead(g)'
      BY <1>1, <1>2, <1>3 DEF BoundsOK, RowRead
    <2> QED
      BY <2>2, <2>3, <2>4 DEF BoundsOK
  <1>18. Total' = Total + 1 /\ TotalFees' = TotalFees + f /\ Total \in Int /\ TotalFees \in Int
    <2>l. PICK l : l = LoggedFees
      OBVIOUS
    <2>n. PICK n : n = Len(logs)
      OBVIOUS
    <2>1. l \in Nat /\ n \in Nat
      BY <2>l, <2>n, TotalsTyped, ModTypes
    <2>2. LoggedFees' = l
      BY <2>l, <1>1 DEF LoggedFees, LogsOf
    <2>3. Total = n + u /\ Total' = n + (u + 1) /\ TotalFees = l + o /\ TotalFees' = l + (o + f)
      BY <2>l, <2>n, <2>2, <1>u, <1>o, <1>1, <1>17 DEF Total, TotalFees
    <2> QED
      BY <2>1, <2>3, <1>5, <1>17
  <1>t. PICK t : t = Total
    OBVIOUS
  <1>s. PICK s : s = TotalFees
    OBVIOUS
  <1>19. BooksOK'
    <2>1. \A g \in Handlers : work[g].pc = "write" => work[g].row.count <= t /\ work[g].row.fees <= s
      BY <1>t, <1>s DEF ModInv, BooksOK
    <2>2. t \in Int /\ s \in Int /\ Total' = t + 1 /\ TotalFees' = s + f
      BY <1>t, <1>s, <1>18
    <2>3. ride'.count <= Total' /\ ride'.fees <= TotalFees'
      <3>1. r.count <= t /\ r.fees <= s
        BY <1>r, <1>1, <2>1
      <3>2. c <= t + 1 /\ e <= s + f
        BY <1>c, <1>e, <1>4, <1>5, <2>2, <3>1
      <3> QED
        BY <1>11, <2>2, <3>2
    <2>4. ASSUME NEW g \in Handlers, work'[g].pc = "write"
          PROVE  work'[g].row.count <= Total' /\ work'[g].row.fees <= TotalFees'
      <3>1. work'[g] = work[g]
        BY <1>3, <2>4
      <3>2. work[g].row.count \in Nat /\ work[g].row.fees \in Nat
        BY <1>2, RequestTyped
      <3>a. PICK a \in Nat : a = work[g].row.count
        BY <3>2
      <3>b. PICK b \in Nat : b = work[g].row.fees
        BY <3>2
      <3>3. a <= t /\ b <= s
        BY <3>a, <3>b, <2>1, <2>4, <3>1
      <3>4. a <= t + 1 /\ b <= s + f
        BY <3>a, <3>b, <1>5, <2>2, <3>3
      <3> QED
        BY <3>a, <3>b, <2>2, <3>1, <3>4
    <2> QED
      BY <2>3, <2>4 DEF BooksOK
  <1>14. ASSUME ~past'.torn PROVE ExactOK'
    <2>1. ExactOK
      BY <1>14, <1>17 DEF ModInv
    <2>2. \A g \in Handlers : work'[g].pc # "write"
      BY <1>1, <1>3, <2>1 DEF ExactOK
    <2>3. r.count = ride.count /\ r.fees = ride.fees /\ ride.count >= t /\ ride.fees >= s
      BY <1>r, <1>t, <1>s, <1>1, <2>1 DEF ExactOK
    <2>4. t \in Int /\ s \in Int /\ Total' = t + 1 /\ TotalFees' = s + f
      BY <1>t, <1>s, <1>18
    <2>5. c >= t + 1 /\ e >= s + f
      <3>1. r.count >= t /\ r.fees >= s
        BY <2>3
      <3> QED
        BY <1>c, <1>e, <1>4, <1>5, <2>4, <3>1
    <2>6. ride'.count >= Total' /\ ride'.fees >= TotalFees'
      BY <1>11, <2>4, <2>5
    <2> QED
      BY <2>2, <2>6 DEF ExactOK
  <1>15. WorkerOK' /\ AskedOK'
    BY <1>1, <1>17, AskedKept DEF ModInv, WorkerOK, Releases
  <1>16. ASSUME ~past'.mixed PROVE PriceOK'
    <2>1. PriceOK
      BY <1>16, <1>17 DEF ModInv
    <2>2. h \in Changing /\ \A g \in Changing' : g \in Changing
      BY <1>1, <1>3 DEF Changing, At
    <2>3. \A g, k \in Changing' : g = k
      BY <2>1, <2>2 DEF PriceOK
    <2>4. \A g \in Handlers : g # h => work[g].pc = "idle" /\ work'[g].pc = "idle"
      BY <1>3, <2>1, <2>2 DEF PriceOK, Changing, At
    <2>5. ~Pricing /\ ~Pricing'
      <3>1. ~Pricing
        BY <1>1, <2>1 DEF PriceOK
      <3> QED
        BY <1>1, <3>1 DEF Pricing
    <2>6. /\ r.dropoff = ride.dropoff /\ r.price.of = ride.dropoff
          /\ work[h].enRoute => work[h].dto.dest # None
      BY <1>r, <1>1, <2>1 DEF PriceOK
    <2>7. Dropoff(work'[h]) = ride'.dropoff
      BY <1>r, <1>d, <1>3, <1>11, <2>6 DEF Dropoff
    <2>8. work[h].enRoute => ride'.price.of = ride'.dropoff
      BY <1>r, <1>d, <1>p, <1>11, <2>6 DEF Estimate
    <2>9. \A g \in Handlers : work'[g].pc \in {"write", "log", "recalculate"} => g = h /\ work'[g].pc = "log"
      BY <1>3, <2>4
    <2>10. \A g \in Handlers : work'[g].pc \in {"log", "recalculate"} => Dropoff(work'[g]) = ride'.dropoff
      BY <2>7, <2>9
    <2>11. (\A g \in Handlers : work'[g].pc \in {"log", "recalculate"} => work'[g].enRoute) => work[h].enRoute
      BY <1>3
    <2>12. /\ \A i \in DOMAIN jobs' : jobs'[i].name = "recalculate" => FALSE
           /\ worker'.pc # "none" /\ worker'.job.name = "recalculate" => FALSE
      BY <2>5 DEF Pricing
    <2>13. worker'.pc # "price"
      BY <2>12, <1>15 DEF WorkerOK
    <2> HIDE DEF Pricing, Changing
    <2> QED
      BY <2>3, <2>5, <2>8, <2>9, <2>10, <2>11, <2>12, <2>13 DEF PriceOK
  <1> QED
    BY <1>12, <1>13, <1>14, <1>15, <1>16, <1>19 DEF ModInv

\* A request is logged.
LEMMA SaveLogKept == ASSUME ModInv, NEW h \in Handlers, saveModificationLog(h) PROVE ModInv'
  <1>f. PICK f : f = FeeOf(work[h])
    OBVIOUS
  <1>e. PICK e : e = [phase |-> Phase(work[h]), fee |-> f, price |-> Estimate(work[h])]
    OBVIOUS
  <1>u. PICK u : u = past.unlogged
    OBVIOUS
  <1>o. PICK o : o = past.owed
    OBVIOUS
  <1>1. /\ work[h].pc = "log" /\ logs' = Append(logs, e)
        /\ IF work[h].enRoute THEN Goto(h, "notify") ELSE Goto(h, "recalculate")
        /\ ride' = ride /\ grace' = grace /\ jobs' = jobs /\ conflict' = conflict /\ worker' = worker
        /\ modifications' = modifications /\ faults' = faults
        /\ past' = [past EXCEPT !.unlogged = u - 1, !.owed = o - f]
    BY <1>f, <1>e, <1>u, <1>o DEF saveModificationLog, Logged, At, inputs
  <1>2. ModificationTypeOK /\ BoundsOK /\ logs \in Seq(Log) /\ modifications \in 0..MaxModifications
        /\ MaxModifications \in Nat
    BY ModConstants DEF ModInv, ModificationTypeOK
  <1>3. /\ work' \in [Handlers -> Local] /\ work'[h].row = work[h].row
        /\ work'[h].dto = work[h].dto /\ work'[h].enRoute = work[h].enRoute
        /\ work'[h].pc = (IF work[h].enRoute THEN "notify" ELSE "recalculate")
        /\ \A g \in Handlers : g # h => work'[g] = work[g]
    BY <1>1, EndsOrGoes
  <1>4. work[h].enRoute \in BOOLEAN
    BY <1>2, RequestTyped
  <1>5. e \in Log /\ e.phase = Phase(work[h]) /\ e.fee = f /\ f \in Nat
    <2>1. Phase(work[h]) \in ModificationPhase /\ f \in {0, Fee, EnRouteFee} /\ f \in Nat
      BY <1>f, <1>4, FeeOfPhase
    <2>2. Estimate(work[h]) \in Price
      BY EstimateTyped
    <2> QED
      BY <1>e, <2>1, <2>2 DEF Log
  <1>n. PICK n : n = Len(logs)
    OBVIOUS
  <1>6. logs' \in Seq(Log) /\ Len(logs') = n + 1 /\ n \in Nat
    BY <1>n, <1>1, <1>2, <1>5, Appended
  <1>m. PICK m : m = Cardinality(Counted)
    OBVIOUS
  <1>7. IsFiniteSet(Counted') /\ Cardinality(Counted') + 1 = m /\ m \in Nat /\ Cardinality(Counted') \in Nat
    <2>1. IsFiniteSet(Counted') /\ Cardinality(Counted') + 1 = m /\ m \in Nat
      BY <1>m, <1>1, <1>2, <1>3, CountedMoves
    <2> QED
      BY <2>1, FS_CardinalityType
  <1>8. n + m <= modifications
    BY <1>m, <1>n, <1>2 DEF BoundsOK
  <1>9. Len(logs') + Cardinality(Counted') <= modifications' /\ Len(logs') <= MaxModifications
    <2> PICK k : k = Cardinality(Counted')
      OBVIOUS
    <2>1. (n + 1) + k <= modifications /\ n + 1 <= MaxModifications
      BY <1>2, <1>6, <1>7, <1>8
    <2> QED
      BY <1>1, <1>6, <2>1
  <1>15. /\ past' \in History /\ past'.unlogged = u - 1 /\ past'.owed = o - f
         /\ past'.torn = past.torn /\ past'.mixed = past.mixed
         /\ past'.asked = past.asked /\ past'.released = past.released /\ u \in Int /\ o \in Int
    <2>1. past \in History /\ u \in Int /\ o \in Int
      BY <1>u, <1>o, ModTypes
    <2>2. u - 1 \in Int /\ o - f \in Int
      BY <1>5, <2>1
    <2> QED
      BY <1>1, <2>1, <2>2 DEF History
  <1>10. ModificationTypeOK'
    BY <1>1, <1>2, <1>3, <1>6, <1>9, <1>15 DEF ModificationTypeOK
  <1>11. BoundsOK'
    <2>1. \A g \in Handlers : work'[g].pc = "write" => RowRead(g)'
      BY <1>1, <1>2, <1>3 DEF BoundsOK, RowRead
    <2>2. ride'.count <= modifications' /\ ride'.fees <= ride'.count * MaxFee
      BY <1>1, <1>2 DEF BoundsOK
    <2> QED
      BY <1>7, <1>9, <2>1, <2>2 DEF BoundsOK
  <1>12. Total' = Total /\ TotalFees' = TotalFees
    <2>a. PICK a : a = Cardinality(LogsOf("pre_departure", Fee))
      OBVIOUS
    <2>b. PICK b : b = Cardinality(LogsOf("in_progress", EnRouteFee))
      OBVIOUS
    <2>1. a \in Nat /\ b \in Nat
      BY <2>a, <2>b, <1>2, LogsFinite
    <2>2. Cardinality(LogsOf("pre_departure", Fee)') = IF e.phase = "pre_departure" /\ f = Fee THEN a + 1 ELSE a
      BY <2>a, <1>1, <1>2, <1>5, LogsMore
    <2>3. Cardinality(LogsOf("in_progress", EnRouteFee)')
              = IF e.phase = "in_progress" /\ f = EnRouteFee THEN b + 1 ELSE b
      BY <2>b, <1>1, <1>2, <1>5, LogsMore
    <2>4. \/ e.phase = "in_progress" /\ f = EnRouteFee
          \/ e.phase = "pre_departure" /\ f = Fee
          \/ e.phase = "pre_acceptance" /\ f = 0
      BY <1>f, <1>4, <1>5, FeeOfPhase
    <2>5. Charge(a, b) \in Nat
      BY <2>a, <2>b, TotalsTyped DEF LoggedFees
    <2>c. PICK c : c = Charge(a, b)
      OBVIOUS
    <2>6. LoggedFees = c /\ LoggedFees' = c + f
      <3>1. LoggedFees = c /\ c \in Nat
        BY <2>a, <2>b, <2>c, <2>5 DEF LoggedFees
      <3>2. CASE e.phase = "in_progress" /\ f = EnRouteFee
        <4>1. LoggedFees' = Charge(a, b + 1)
          BY <2>2, <2>3, <3>2 DEF LoggedFees, Charge
        <4> QED
          BY <2>1, <2>c, <3>1, <3>2, <4>1, ChargeMore
      <3>3. CASE e.phase = "pre_departure" /\ f = Fee
        <4>1. LoggedFees' = Charge(a + 1, b)
          BY <2>2, <2>3, <3>3 DEF LoggedFees, Charge
        <4> QED
          BY <2>1, <2>c, <3>1, <3>3, <4>1, ChargeMore
      <3>4. CASE e.phase = "pre_acceptance" /\ f = 0
        <4>1. LoggedFees' = Charge(a, b)
          BY <2>2, <2>3, <3>4 DEF LoggedFees, Charge
        <4> QED
          BY <2>c, <3>1, <3>4, <4>1
      <3> QED
        BY <2>4, <3>2, <3>3, <3>4
    <2>7. Total = n + u /\ Total' = (n + 1) + (u - 1) /\ TotalFees = c + o /\ TotalFees' = (c + f) + (o - f)
      BY <1>n, <1>u, <1>o, <1>6, <1>15, <2>6 DEF Total, TotalFees
    <2>8. c \in Nat
      BY <2>c, <2>5
    <2> QED
      BY <1>5, <1>6, <1>15, <2>7, <2>8
  <1>16. BooksOK' /\ (ExactOK => ExactOK')
    <2>1. \A g \in Handlers : work'[g] = work[g] \/ work'[g].pc # "write"
      BY <1>3
    <2> QED
      BY <1>1, <1>12, <2>1, BooksKept DEF ModInv
  <1>13. WorkerOK' /\ AskedOK'
    BY <1>1, <1>15, AskedKept DEF ModInv, WorkerOK, Releases
  <1>14. ASSUME ~past'.mixed PROVE PriceOK'
    <2>1. PriceOK
      BY <1>14, <1>15 DEF ModInv
    <2>2. h \in Changing /\ \A g \in Changing' : g \in Changing
      BY <1>1, <1>3 DEF Changing, At
    <2>3. \A g, k \in Changing' : g = k
      BY <2>1, <2>2 DEF PriceOK
    <2>4. \A g \in Handlers : g # h => work[g].pc = "idle" /\ work'[g].pc = "idle"
      BY <1>3, <2>1, <2>2 DEF PriceOK, Changing, At
    <2>5. ~Pricing /\ ~Pricing'
      <3>1. ~Pricing
        BY <1>1, <2>1 DEF PriceOK
      <3> QED
        BY <1>1, <3>1 DEF Pricing
    <2>6. Dropoff(work[h]) = ride.dropoff
      BY <1>1, <2>1 DEF PriceOK
    <2>7. Dropoff(work'[h]) = ride'.dropoff
      BY <1>1, <1>3, <2>6 DEF Dropoff
    <2>8. work[h].enRoute => ride'.price.of = ride'.dropoff
      <3>1. \A g \in Handlers : work[g].pc \in {"log", "recalculate"} => g = h
        BY <2>4
      <3> QED
        BY <1>1, <2>1, <2>5, <3>1 DEF PriceOK
    <2>10. \A g \in Handlers : work'[g].pc \in {"write", "log", "recalculate"} =>
                                 g = h /\ work'[g].pc = "recalculate" /\ ~work[h].enRoute
      BY <1>3, <2>4
    <2>11. (\A g \in Handlers : work'[g].pc \in {"log", "recalculate"} => work'[g].enRoute) => work[h].enRoute
      BY <1>3, <1>4
    <2>13. /\ \A i \in DOMAIN jobs' : jobs'[i].name = "recalculate" => FALSE
           /\ worker'.pc # "none" /\ worker'.job.name = "recalculate" => FALSE
      BY <2>5 DEF Pricing
    <2>14. worker'.pc # "price"
      BY <2>13, <1>13 DEF WorkerOK
    <2>15. \A g \in Handlers : work'[g].pc \in {"log", "recalculate"} => Dropoff(work'[g]) = ride'.dropoff
      BY <1>3, <2>7, <2>10
    <2> HIDE DEF Pricing, Changing
    <2> QED
      BY <2>3, <2>5, <2>8, <2>10, <2>11, <2>13, <2>14, <2>15 DEF PriceOK
  <1> QED
    BY <1>10, <1>11, <1>13, <1>14, <1>15, <1>16 DEF ModInv

-----------------------------------------------------------------------------
(* The theorems *)

\* The invariant holds at first.
LEMMA ModInitially == ModificationInit => ModInv
  <1> SUFFICES ASSUME ModificationInit PROVE ModInv
    OBVIOUS
  <1>1. /\ ride = [status |-> "searching", driver |-> None, dropoff |-> Unread.dropoff,
                   price |-> [of |-> Unread.dropoff, scaled |-> FALSE], count |-> 0, fees |-> 0]
        /\ grace = FALSE /\ logs = <<>> /\ jobs = <<>> /\ conflict = FALSE
        /\ work = [h \in Handlers |-> AtRest] /\ worker = NoJobInHand
        /\ modifications = 0 /\ faults = 0
        /\ past = [torn |-> FALSE, mixed |-> FALSE, unlogged |-> 0, owed |-> 0, asked |-> 0, released |-> 0]
    BY DEF ModificationInit
  <1>2. Unread.dropoff \in Dests /\ AtRest \in Local /\ AtRest.pc = "idle" /\ AtRest.enRoute = FALSE
    BY AtRestTyped
  <1>3. ride \in Ride
    <2>1. 0 \in 0..MaxModifications /\ "searching" \in RideStatuses
      BY ModConstants DEF RideStatuses
    <2>2. [of |-> Unread.dropoff, scaled |-> FALSE] \in Price
      BY <1>2 DEF Price
    <2> QED
      BY <1>1, <1>2, <2>1, <2>2 DEF Ride
  <1>4. ride.count = 0 /\ ride.fees = 0 /\ ride.price.of = ride.dropoff
    BY <1>1
  <1>5. work \in [Handlers -> Local] /\ \A h \in Handlers : work[h].pc = "idle"
    BY <1>1, <1>2
  <1>6. worker \in [pc : WorkerStates, job : Job] /\ worker.pc = "none"
    BY <1>1, WorkerTyped
  <1>7. /\ past \in History /\ past.torn = FALSE /\ past.mixed = FALSE /\ past.unlogged = 0 /\ past.owed = 0
        /\ past.asked = 0 /\ past.released = 0
    BY <1>1 DEF History
  <1>8. logs \in Seq(Log) /\ Len(logs) = 0 /\ jobs \in Seq(Job) /\ DOMAIN logs = {} /\ DOMAIN jobs = {}
    BY <1>1, EmptySeq
  <1>9. 0 \in 0..(MaxModifications * MaxFee)
        /\ 0 \in 0..MaxModifications /\ 0 \in 0..MaxFaults /\ 0 <= MaxModifications /\ 0 * MaxFee = 0
    <2> PICK x : x = MaxModifications * MaxFee
      OBVIOUS
    <2>1. x \in Nat
      BY ModConstants
    <2> QED
      BY <2>1, ModConstants
  <1>10. ModificationTypeOK
    BY <1>1, <1>3, <1>4, <1>5, <1>6, <1>7, <1>8, <1>9 DEF ModificationTypeOK, WorkerStates, MaxFee
  <1>11. Counted = {} /\ Changing = {}
    BY <1>5 DEF Counted, Changing, At
  <1>12. (\A p, f : LogsOf(p, f) = {}) /\ LiveIn(jobs) = {}
    BY <1>8 DEF LogsOf, LiveIn
  <1>13. IsFiniteSet({}) /\ Cardinality({}) = 0
    BY FS_EmptySet
  <1>14. BoundsOK
    BY <1>1, <1>4, <1>5, <1>8, <1>9, <1>11, <1>13 DEF BoundsOK
  <1>15. Total = 0 /\ TotalFees = 0
    <2>1. Charge(0, 0) = 0
      BY ModConstants DEF Charge
    <2>2. /\ Cardinality(LogsOf("pre_departure", Fee)) = 0
          /\ Cardinality(LogsOf("in_progress", EnRouteFee)) = 0
      BY <1>12, <1>13
    <2>3. LoggedFees = 0
      BY <2>1, <2>2 DEF LoggedFees
    <2> QED
      BY <1>7, <1>8, <2>3 DEF Total, TotalFees
  <1>16. BooksOK /\ ExactOK
    BY <1>4, <1>5, <1>15 DEF BooksOK, ExactOK
  <1>17. WorkerOK /\ AskedOK
    <2>1. InHand = 0
      BY <1>6 DEF InHand
    <2> QED
      <3>1. IsFiniteSet(LiveIn(jobs)) /\ Cardinality(LiveIn(jobs)) = 0
        BY <1>12, <1>13
      <3>2. past.released + Cardinality(LiveIn(jobs)) + InHand <= past.asked + faults
        BY <1>1, <1>7, <2>1, <3>1
      <3>3. WorkerOK
        BY <1>6 DEF WorkerOK
      <3> QED
        BY <3>1, <3>2, <3>3 DEF AskedOK
  <1>18. ~Pricing
    BY <1>6, <1>8 DEF Pricing
  <1>19. PriceOK
    BY <1>1, <1>4, <1>5, <1>6, <1>8, <1>11, <1>18 DEF PriceOK
  <1> QED
    BY <1>10, <1>14, <1>16, <1>17, <1>19 DEF ModInv

\* A step that changes nothing.
LEMMA ModStutter == ASSUME ModInv, UNCHANGED vars PROVE ModInv'
  <1>1. /\ ride' = ride /\ grace' = grace /\ logs' = logs /\ jobs' = jobs /\ conflict' = conflict
        /\ work' = work /\ worker' = worker /\ modifications' = modifications /\ faults' = faults
        /\ past' = past
    BY DEF vars
  <1>2. WorkerOK' /\ AskedOK'
    BY <1>1, AskedKept DEF ModInv, WorkerOK, Releases
  <1>3. ~past'.mixed => PriceOK'
    BY <1>1 DEF ModInv, PriceOK, Pricing, Changing, At, Dropoff
  <1> QED
    BY <1>1, <1>2, <1>3, ModTypes, Steady DEF WorkerStates

\* Every step keeps the invariant.
LEMMA ModSteps == ModInv /\ [ModificationNext]_vars => ModInv'
  <1> SUFFICES ASSUME ModInv, [ModificationNext]_vars PROVE ModInv'
    OBVIOUS
  <1>1. ASSUME NEW h \in Handlers, ChangeRequest(h) PROVE ModInv'
    BY <1>1, ModifyKept, WriteKept, SaveLogKept,
       LogFailsKept, EnqueuePriceKept, RecordConflictKept, EnqueueNoticeKept,
       EnqueueResolveKept DEF ChangeRequest
  <1>2. ASSUME NEW h \in Handlers, RequestFails(h) PROVE ModInv'
    BY <1>2, RequestFailsKept
  <1>3. CASE Worker
    BY <1>3, ProcessKept, RecalculatePriceKept,
       PriceLogKept, NotifyDriverKept, ResolveConflictKept, ReleaseDriverKept,
       DeleteKeyKept DEF Worker
  <1>4. CASE JobFails
    BY <1>4, JobFailsKept
  <1>5. CASE respondToModification \/ UNCHANGED vars
    BY <1>5, ModStutter DEF respondToModification
  <1>6. CASE RideMoves
    BY <1>6, RideMovesKept
  <1>7. CASE GraceEnds \/ KeyExpires
    BY <1>7, ClocksKept
  <1>8. CASE DelayEnds
    BY <1>8, DelayEndsKept
  <1> QED
    BY <1>1, <1>2, <1>3, <1>4, <1>5, <1>6, <1>7, <1>8 DEF ModificationNext

\* The requests, the worker, the clocks and the ride keep the invariant: the books of the ride,
\* exact while no two requests read the same row; the price of a change made alone; and the
\* account of the jobs that may still release a driver.
THEOREM ModificationInvariance == ModificationSpec => []ModInv
  <1>1. ModificationInit => ModInv
    BY ModInitially
  <1>2. ModInv /\ [ModificationNext]_vars => ModInv'
    BY ModSteps
  <1> QED
    BY <1>1, <1>2, PTL DEF ModificationSpec

\* The row, the logs, the queue and the key keep their types, the charge stays under its bound.
THEOREM ModificationTypeCorrect == ModificationSpec => []ModificationTypeOK
  <1>1. ModInv => ModificationTypeOK
    BY DEF ModInv
  <1> QED
    BY <1>1, ModificationInvariance, PTL

\* The row of a ride says what its logs and its changes without a log make: never more, and not
\* less unless two requests of the use cases read the same row; the worker prices the destination
\* of a change made alone.
THEOREM RowAgreesTheorem == ModificationSpec => []RowAgreesWithLogs
  <1>1. ModInv => RowAgreesWithLogs
    <2> SUFFICES ASSUME ModInv PROVE RowAgreesWithLogs
      OBVIOUS
    <2>1. NeverOvercharged
      BY DEF ModInv, BooksOK, Total, TotalFees, NeverOvercharged
    <2>2. NothingLost
      BY DEF ModInv, ExactOK, Total, TotalFees, NothingLost
    <2>3. ASSUME Changing = {} PROVE \A h \in Handlers : work[h].pc = "idle"
      BY <2>3 DEF Changing, At
    <2>4. PriceFollows
      BY <2>3 DEF ModInv, PriceOK, PriceFollows
    <2> QED
      BY <2>1, <2>2, <2>4 DEF RowAgreesWithLogs
  <1> QED
    BY <1>1, ModificationInvariance, PTL

\* The worker sends a ride back to the search once for each change of an accepted ride that asked
\* the driver, and once more for each failure: a job is not run twice but by a retry, and the job
\* of a change en route never does.
THEOREM ReleasedTheorem == ModificationSpec => []ReleasedIfAsked
  <1>1. ModInv => ReleasedIfAsked
    <2> SUFFICES ASSUME ModInv PROVE ReleasedIfAsked
      OBVIOUS
    <2> PICK n : n = Cardinality(LiveIn(jobs))
      OBVIOUS
    <2>1. IsFiniteSet(LiveIn(jobs)) /\ past.released + n + InHand <= past.asked + faults
      BY DEF ModInv, AskedOK
    <2>2. n \in Nat /\ past.released \in Nat /\ past.asked \in Nat /\ faults \in Nat
      BY <2>1, ModTypes, FS_CardinalityType
    <2>3. InHand \in Nat
      BY DEF InHand
    <2>4. past.released <= past.asked + faults
      BY <2>1, <2>2, <2>3
    <2> QED
      BY <2>4 DEF ReleasedIfAsked
  <1> QED
    BY <1>1, ModificationInvariance, PTL
=============================================================================
