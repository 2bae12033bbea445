------------------------------- MODULE Rides --------------------------------
(***************************************************************************)
(* The ride use cases of the backend (create, accept, cancel, complete)    *)
(* and the worker that takes the driver off a ride, over the table of      *)
(* rides.  Each is a handler that reads the row, checks it, and later      *)
(* writes the row by id with no condition, with an await between the       *)
(* steps: handlers interleave at each of them.  The event is published     *)
(* after the write, in a step of its own.                                  *)
(*                                                                         *)
(* The steps a trip makes between acceptance and completion, and the move  *)
(* of an immediate ride out of "pending", have no writer in the            *)
(* repository: ExternalProgress stands for whoever performs them.          *)
(***************************************************************************)
EXTENDS RideStatus

CONSTANTS
    Rides,      \* the ids a ride can get
    Users       \* passengers

ASSUME NoneAssumption == None \notin Rides \cup Users \cup Drivers

VARIABLES
    rides,      \* the table: ride id -> row
    handler,    \* the local state of each running handler
    event       \* the domain event published last

ridesVars == <<rides, handler, event>>

Row == [status : RideStatuses, user : Users \cup {None}, driver : Drivers \cup {None}]
AbsentRow == [status |-> "absent", user |-> None, driver |-> None]

Idle == [pc |-> "idle", op |-> "none", ride |-> None, who |-> None, seen |-> AbsentRow]

Events == [type : {"ride.requested", "ride.scheduled", "ride.accepted",
                   "ride.cancelled", "ride.completed"},
           ride : Rides, driver : Drivers \cup {None}]
NoEvent == [type |-> "none", ride |-> None, driver |-> None]

-----------------------------------------------------------------------------
(* Steps shared by the handlers. *)

\* The handler starts: it has read the row of r and its checks passed.
Start(p, pc, op, r, who) ==
    /\ handler[p] = Idle
    /\ handler' = [handler EXCEPT
            ![p] = [pc |-> pc, op |-> op, ride |-> r, who |-> who,
                    seen |-> IF r = None THEN AbsentRow ELSE rides[r]]]
    /\ UNCHANGED <<rides, event>>

Ready(p, op) == handler[p].pc = "write" /\ handler[p].op = op

\* repo.update(id, data): the row is rewritten whatever it holds by now.
Update(p, row) ==
    /\ rides' = [rides EXCEPT ![handler[p].ride] = row]
    /\ handler' = [handler EXCEPT ![p].pc = "emit"]
    /\ UNCHANGED event

RowNow(p) == rides[handler[p].ride]

\* countActiveRidesByDriver(d) > 0
hasActiveRides(d) ==
    \E r \in Rides : rides[r].driver = d /\ rides[r].status \in CountedForDriver

\* What a handler publishes when it is done: the fields are those of the row it read.
EventOf(h) ==
    CASE h.op = "create"   -> [type |-> "ride.requested", ride |-> h.ride, driver |-> None]
      [] h.op = "schedule" -> [type |-> "ride.scheduled", ride |-> h.ride, driver |-> None]
      [] h.op = "release"  -> [type |-> "ride.requested", ride |-> h.ride, driver |-> None]
      [] h.op = "accept"   -> [type |-> "ride.accepted", ride |-> h.ride, driver |-> h.who]
      [] h.op = "cancel"   -> [type |-> "ride.cancelled", ride |-> h.ride,
                               driver |-> h.seen.driver]
      [] OTHER             -> [type |-> "ride.completed", ride |-> h.ride,
                               driver |-> h.seen.driver]

-----------------------------------------------------------------------------
(* CreateRideUseCase *)

CreateCheck(p, u, op) ==
    /\ \A r \in Rides : ~(rides[r].user = u /\ rides[r].status \in BlocksCreate)
    /\ Start(p, "write", op, None, u)

\* Mutant: the handler does not keep the id of the row it saved.
CreateWriteNoId(p) ==
    \E r \in Rides :
        /\ handler[p].pc = "write" /\ handler[p].op \in {"create", "schedule"}
        /\ rides[r].status = "absent"
        /\ rides' = [rides EXCEPT ![r] =
                [status |-> IF handler[p].op = "schedule" THEN "scheduled" ELSE "pending",
                 user |-> handler[p].who, driver |-> None]]
        /\ handler' = [handler EXCEPT ![p].pc = "emit"]
        /\ UNCHANGED event

CreateWrite(p) ==
    \E r \in Rides :
        /\ handler[p].pc = "write" /\ handler[p].op \in {"create", "schedule"}
        /\ rides[r].status = "absent"
        /\ rides' = [rides EXCEPT ![r] =
                [status |-> IF handler[p].op = "schedule" THEN "scheduled" ELSE "pending",
                 user |-> handler[p].who, driver |-> None]]
        /\ handler' = [handler EXCEPT ![p].pc = "emit", ![p].ride = r]
        /\ UNCHANGED event

-----------------------------------------------------------------------------
(* AcceptRideUseCase: the row, then the count, then the write. *)

AcceptRead(p, r, d) ==
    /\ canTransitionTo(rides[r].status, "accepted")
    /\ Start(p, "count", "accept", r, d)

AcceptCount(p) ==
    /\ handler[p].pc = "count"
    /\ handler' = [handler EXCEPT ![p] =
            IF hasActiveRides(@.who) THEN Idle ELSE [@ EXCEPT !.pc = "write"]]
    /\ UNCHANGED <<rides, event>>

AcceptWrite(p) ==
    /\ Ready(p, "accept")
    /\ Update(p, [RowNow(p) EXCEPT !.status = "accepted", !.driver = handler[p].who])

-----------------------------------------------------------------------------
(* CancelRideUseCase and CompleteRideUseCase *)

\* Mutant: any ride that exists can be cancelled.
CancelReadUnchecked(p, r) ==
    /\ rides[r].status # "absent"
    /\ Start(p, "write", "cancel", r, None)

CancelRead(p, r) ==
    /\ canTransitionTo(rides[r].status, "cancelled")
    /\ Start(p, "write", "cancel", r, None)

CancelWrite(p) ==
    /\ Ready(p, "cancel")
    /\ Update(p, [RowNow(p) EXCEPT !.status = "cancelled"])

\* Mutant: every ride that cannot be cancelled any more can be completed.
CompleteReadNotCancellable(p, r) ==
    /\ ~canTransitionTo(rides[r].status, "cancelled") /\ rides[r].status # "absent"
    /\ Start(p, "write", "complete", r, None)

CompleteRead(p, r) ==
    /\ canTransitionTo(rides[r].status, "completed")
    /\ Start(p, "write", "complete", r, None)

CompleteWrite(p) ==
    /\ Ready(p, "complete")
    /\ Update(p, [RowNow(p) EXCEPT !.status = "completed"])

-----------------------------------------------------------------------------
(* The passenger changes the destination of an accepted ride: the driver    *)
(* is asked, and the delayed job of RideModificationWorker takes him off    *)
(* the ride if the question is still there two minutes later.              *)

ModifyRead(p, r) ==
    /\ rides[r].status = "accepted" /\ rides[r].driver # None
    /\ Start(p, "asked", "release", r, None)

\* resolveConflict: the row is read again and only has to be there, nothing else
\* of it is looked at.
ReleaseRead(p) ==
    /\ handler[p].pc = "asked"
    /\ RowNow(p).status # "absent"
    /\ handler' = [handler EXCEPT ![p].pc = "write"]
    /\ UNCHANGED <<rides, event>>

\* Mutant: the driver is taken off and the status stays.
ReleaseWriteKeepsStatus(p) ==
    /\ Ready(p, "release")
    /\ Update(p, [RowNow(p) EXCEPT !.driver = None])

\* Whatever became of the ride, it is searched for again without its driver.
ReleaseWrite(p) ==
    /\ Ready(p, "release")
    /\ Update(p, [RowNow(p) EXCEPT !.status = "searching", !.driver = None])

\* The attempt fails, before its event or as it deletes the question after it,
\* and the job runs again.
ReleaseRetry(p) ==
    /\ handler[p].op = "release" /\ handler[p].pc \in {"write", "emit"}
    /\ handler' = [handler EXCEPT ![p].pc = "asked"]
    /\ event' = event \/ (handler[p].pc = "emit" /\ event' = EventOf(handler[p]))
    /\ UNCHANGED rides

-----------------------------------------------------------------------------
(* Publication, failure, and the steps performed outside the repository. *)

Emit(p) ==
    /\ handler[p].pc = "emit"
    /\ event' = EventOf(handler[p])
    /\ handler' = [handler EXCEPT ![p] = Idle]
    /\ UNCHANGED rides

\* A database error thrown at an await, or the process dying there: what the
\* handler already wrote stays, and the event it had not published is lost.
Abort(p) ==
    /\ handler[p] # Idle
    /\ handler' = [handler EXCEPT ![p] = Idle]
    /\ UNCHANGED <<rides, event>>

\* The transitions of the table that no code of the repository performs.
ExternalSteps == { <<"pending", "searching">>, <<"searching", "no_driver">>,
                   <<"accepted", "driver_en_route">>, <<"driver_en_route", "arrived">>,
                   <<"arrived", "in_progress">> }

ExternalProgress(r) ==
    \E s \in RideStatuses :
        /\ <<rides[r].status, s>> \in ExternalSteps
        /\ rides' = [rides EXCEPT ![r].status = s]
        /\ UNCHANGED <<handler, event>>

-----------------------------------------------------------------------------
(* The specification *)

Init ==
    /\ rides = [r \in Rides |-> AbsentRow]
    /\ handler = [p \in Handlers |-> Idle]
    /\ event = NoEvent

Request(p) ==
    \/ \E u \in Users, op \in {"create", "schedule"} : CreateCheck(p, u, op)
    \/ \E r \in Rides, d \in Drivers : AcceptRead(p, r, d)
    \/ \E r \in Rides : CancelRead(p, r)
    \/ \E r \in Rides : CompleteRead(p, r)
    \/ \E r \in Rides : ModifyRead(p, r)

Continue(p) ==
    \/ CreateWrite(p)
    \/ AcceptCount(p)
    \/ AcceptWrite(p)
    \/ CancelWrite(p)
    \/ CompleteWrite(p)
    \/ ReleaseRead(p)
    \/ ReleaseWrite(p)
    \/ ReleaseRetry(p)
    \/ Emit(p)
    \/ Abort(p)

Next ==
    \/ \E p \in Handlers : Request(p) \/ Continue(p)
    \/ \E r \in Rides : ExternalProgress(r)

Spec == Init /\ [][Next]_ridesVars

-----------------------------------------------------------------------------
(* Properties *)

HandlerRecords ==
    [pc : {"idle", "count", "asked", "write", "emit"},
     op : {"none", "create", "schedule", "accept", "cancel", "complete", "release"},
     ride : Rides \cup {None}, who : Users \cup Drivers \cup {None}, seen : Row]

\* The types of the table, the handlers' locals and the published event.
TypeOK ==
    /\ rides \in [Rides -> Row]
    /\ handler \in [Handlers -> HandlerRecords]
    /\ event \in Events \cup {NoEvent}

OnTrip == {"accepted", "driver_en_route", "arrived", "in_progress"}

\* However the use cases and the worker that releases a driver interleave, a trip
\* that is under way names a driver, so nobody rides a row whose driverId is NULL.
\* (A completion that meets the release does leave a completed row without one.)
TripHasDriver ==
    \A r \in Rides : rides[r].status \in OnTrip => rides[r].driver # None

\* What an event says has happened has: RIDE_ACCEPTED and RIDE_COMPLETED carry a
\* driver, even when the row lost its own to a release in between (the completion
\* asserts ride.driverId! and the wallet is credited from it), and no event is
\* about a ride whose row is not there.
EventHasCause ==
    event # NoEvent =>
        /\ rides[event.ride].status # "absent"
        /\ event.type \in {"ride.accepted", "ride.completed"} => event.driver \in Drivers

Created(r) == rides[r].status = "absent" /\ rides'[r].status \in {"pending", "scheduled"}

\* Some handler writes r now although the row changed since it read it.
StaleWrite(r) ==
    \E p \in Handlers :
        /\ handler[p].pc = "write" /\ handler'[p].pc = "emit"
        /\ handler[p].ride = r /\ handler[p].seen # rides[r]

\* The worker writes the release of a driver, which asks no table.
Released(r) ==
    \E p \in Handlers :
        /\ handler[p].op = "release" /\ handler[p].ride = r
        /\ handler[p].pc = "write" /\ handler'[p].pc = "emit"

\* VALID_TRANSITIONS is obeyed by every write of a use case whose row did not
\* change since it read it: a status outside the table, a second acceptance or
\* a ride that leaves a final status needs two handlers to overlap, or the worker
\* that releases a driver.
TableObeyedUnlessStale ==
    [][\A r \in Rides : rides'[r] # rides[r] =>
          \/ Created(r)
          \/ canTransitionTo(rides[r].status, rides'[r].status)
          \/ StaleWrite(r)
          \/ Released(r)]_ridesVars

\* The accept use case refuses a driver who "already has an active ride": a
\* driver is never on two trips at once.
OneActiveRidePerDriver ==
    \A d \in Drivers : \A r1, r2 \in Rides :
        (/\ rides[r1].driver = d /\ rides[r1].status \in OnTrip
         /\ rides[r2].driver = d /\ rides[r2].status \in OnTrip) => r1 = r2
=============================================================================
