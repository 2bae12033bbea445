-------------------------- MODULE RideModification --------------------------
(***************************************************************************)
(* The passenger changes a ride: the two use cases, before departure and   *)
(* en route, the queue of jobs they fill and the worker that prices the    *)
(* new trip and settles what the driver did not answer.                    *)
(*                                                                         *)
(* One ride, from the moment a driver is sought: every row, key and job    *)
(* bears the id of a ride.  The steps of its life that the other use cases *)
(* and the driver make are those of RideStatus, a step each (Rides has     *)
(* their interleavings).  A destination is a point of a line, in           *)
(* kilometres; a price is the destination it is for and whether it was     *)
(* scaled from another; the fee added to it is left out.                   *)
(* The five minutes after acceptance, the 120 seconds of the conflict key  *)
(* and the 120 seconds of the job that reads it are on the clocks of the   *)
(* service, of Redis and of the queue: each ends when it does, so the job  *)
(* may find the key, or find that it expired.                              *)
(***************************************************************************)
EXTENDS RideStatus, Integers, Sequences, FiniteSets

CONSTANTS
    Dests,          \* the destinations
    Fee, EnRouteFee,
    Attempts,       \* tries of a pricing job (3)
    MaxModifications, MaxFaults     \* bounds

ASSUME ModificationAssumption ==
    /\ Dests \subseteq Nat /\ Dests # {} /\ None \notin Dests \cup Drivers
    /\ Attempts \in Nat \ {0}
    /\ \A n \in {Fee, EnRouteFee, MaxModifications, MaxFaults} : n \in Nat

VARIABLES
    ride,           \* the row
    grace,          \* an accepted ride can still be changed
    logs,           \* the table ride_modification_logs, oldest first
    jobs,           \* the queue ride-modification
    conflict,       \* the key modification:conflict:{id} is there
    work,           \* the local state of each request
    worker,         \* the job in hand
    modifications, faults,
    past            \* history: see History

vars == <<ride, grace, logs, jobs, conflict, work, worker, modifications, faults, past>>
inputs == <<modifications, faults>>

Max2(a, b) == IF a > b THEN a ELSE b
Detour(a, b) == Max2(a - b, b - a)

\* of: None when no destination explains the amount.
Price == [of : Dests \cup {None}, scaled : BOOLEAN]
Ride == [status : RideStatuses, driver : Drivers \cup {None}, dropoff : Dests,
         price : Price, count : 0..MaxModifications, fees : Nat]
ModificationPhase == {"pre_acceptance", "pre_departure", "in_progress"}
Log == [phase : ModificationPhase, fee : {0, Fee, EnRouteFee}, price : Price]

\* ModifyRideBeforeDepartureDto, ModifyRideEnRouteDto: every field is optional.
\* named: a new address or a new time is given, the fields a log can name; dest:
\* where the new latitude, longitude or both lead; lng: the longitude is given.
Dto == {dto \in [named : BOOLEAN, dest : Dests \cup {None}, lng : BOOLEAN] :
            dto.lng => dto.dest # None}

JobNames == {"recalculate", "notify", "resolve"}
Job == [name : JobNames, dropoff : Dests \cup {None}, reason : {"driver_no_response", "implicit_accept"},
        delayed : BOOLEAN, tries : 1..Max2(Attempts, 2)]
NewJob(name) == [name |-> name, dropoff |-> None, reason |-> "driver_no_response",
                 delayed |-> FALSE, tries |-> 2]
NoJobInHand == [pc |-> "none", job |-> NewJob("notify")]

Local == [pc : {"idle", "write", "log", "recalculate", "conflict", "notify", "resolve"},
          enRoute : BOOLEAN, row : Ride, dto : Dto]

\* torn: two requests read the same row; mixed: a change began before the ones
\*   before it were priced, or a step of one failed;
\* unlogged, owed: the changes written, and their fees, that no log records;
\* asked: the jobs queued to release a driver; released: the times they did.
History == [torn : BOOLEAN, mixed : BOOLEAN, unlogged : Int, owed : Int,
            asked : Nat, released : Nat]

-----------------------------------------------------------------------------

At(h, pc) == work[h].pc = pc
Goto(h, pc) == work' = [work EXCEPT ![h].pc = pc]

Unread == [status |-> "absent", driver |-> None, dropoff |-> CHOOSE d \in Dests : TRUE,
           price |-> [of |-> None, scaled |-> FALSE], count |-> 0, fees |-> 0]
NoDto == [named |-> FALSE, dest |-> None, lng |-> FALSE]
AtRest == [pc |-> "idle", enRoute |-> FALSE, row |-> Unread, dto |-> NoDto]
End(h) == work' = [work EXCEPT ![h] = AtRest]

Changing == {h \in Handlers : ~At(h, "idle")}

\* The prices still to be computed.
Pricing == \/ \E i \in DOMAIN jobs : jobs[i].name = "recalculate"
           \/ worker.pc # "none" /\ worker.job.name = "recalculate"

add(job) == jobs' = Append(jobs, job)

-----------------------------------------------------------------------------
(* ModifyRideBeforeDepartureUseCase, ModifyRideEnRouteUseCase: the row is   *)
(* read and checked, and written later from what was read.  RIDE_MODIFIED   *)
(* follows the last of the steps: only notifications listen to it.          *)

MODIFIABLE_STATUSES == {"scheduled", "pending", "searching", "accepted"}

assertModifiable == /\ ride.status \in MODIFIABLE_STATUSES
                    /\ ride.status = "accepted" => grace

Begin(h, enRoute, dto) ==
    /\ At(h, "idle") /\ modifications < MaxModifications
    /\ modifications' = modifications + 1
    /\ work' = [work EXCEPT ![h] = [pc |-> "write", enRoute |-> enRoute, row |-> ride, dto |-> dto]]
    /\ past' = [past EXCEPT !.torn = @ \/ \E g \in Changing : At(g, "write"),
                            !.mixed = @ \/ Changing # {} \/ Pricing]
    /\ UNCHANGED <<ride, grace, logs, jobs, conflict, worker, faults>>

modify(h) ==
    /\ assertModifiable
    /\ \E dto \in Dto \ {NoDto} : Begin(h, FALSE, dto)

modifyEnRoute(h) ==
    /\ ride.status = "in_progress" /\ ride.driver # None
    /\ \E dto \in Dto : dto.lng /\ dto.named /\ Begin(h, TRUE, dto)

Phase(w) == IF w.enRoute THEN "in_progress"
            ELSE IF w.row.status = "accepted" THEN "pre_departure" ELSE "pre_acceptance"

\* getModificationFee: free until a driver has accepted.
FeeOf(w) == IF w.enRoute THEN EnRouteFee ELSE IF w.row.status = "accepted" THEN Fee ELSE 0

Dropoff(w) == IF w.dto.dest = None THEN w.row.dropoff ELSE w.dto.dest

\* En route the price read is scaled by the ratio of the two distances, and is 500
\* at least; of the wrong destination, it gives one that nothing explains.
Estimate(w) ==
    IF ~w.enRoute THEN w.row.price
    ELSE [of |-> IF w.row.price.of = w.row.dropoff THEN w.dto.dest ELSE None, scaled |-> TRUE]

\* rideRepo.update(id, updates): the columns given, whatever the row is by now.
write(h) ==
    LET w == work[h] IN
    /\ At(h, "write")
    /\ ride' = [ride EXCEPT !.count = w.row.count + 1, !.fees = w.row.fees + FeeOf(w),
                            !.dropoff = IF w.dto.dest = None THEN @ ELSE w.dto.dest,
                            !.price = IF w.enRoute THEN Estimate(w) ELSE @]
    /\ past' = [past EXCEPT !.unlogged = @ + 1, !.owed = @ + FeeOf(w)]
    /\ Goto(h, "log")
    /\ UNCHANGED <<grace, logs, jobs, conflict, worker, inputs>>

\* The log is written.
Logged(w) == past' = [past EXCEPT !.unlogged = @ - 1, !.owed = @ - FeeOf(w)]

\* Mutant: the log always says the change was free.
saveModificationLogFree(h) ==
    LET w == work[h] IN
    /\ At(h, "log")
    /\ w.enRoute \/ w.dto.named
    /\ logs' = Append(logs, [phase |-> Phase(w), fee |-> 0, price |-> Estimate(w)])
    /\ Logged(w)
    /\ Goto(h, IF w.enRoute THEN "notify" ELSE "recalculate")
    /\ UNCHANGED <<ride, grace, jobs, conflict, worker, inputs>>

\* The log names the address or the time that changed.
saveModificationLog(h) ==
    LET w == work[h] IN
    /\ At(h, "log")
    /\ w.enRoute \/ w.dto.named
    /\ logs' = Append(logs, [phase |-> Phase(w), fee |-> FeeOf(w), price |-> Estimate(w)])
    /\ Logged(w)
    /\ Goto(h, IF w.enRoute THEN "notify" ELSE "recalculate")
    /\ UNCHANGED <<ride, grace, jobs, conflict, worker, inputs>>

\* With coordinates alone there is no new value to write: the row is refused, and
\* the request ends after the ride was changed.
LogFails(h) ==
    LET w == work[h] IN
    /\ At(h, "log")
    /\ ~w.enRoute /\ ~w.dto.named
    /\ End(h)
    /\ past' = [past EXCEPT !.mixed = TRUE]
    /\ UNCHANGED <<ride, grace, logs, jobs, conflict, worker, inputs>>

\* The driver is asked when the detour is more than two kilometres en route; before
\* departure more than one, and only if the longitude is given.
Conflicting(w) ==
    IF w.enRoute THEN Detour(w.row.dropoff, w.dto.dest) > 2
    ELSE /\ w.row.status = "accepted" /\ w.row.driver # None
         /\ w.dto.lng /\ Detour(w.row.dropoff, Dropoff(w)) > 1

\* Pre-departure, the price is asked of the worker; then the driver of an
\* accepted ride is involved when the detour calls for it.
enqueuePrice(h) ==
    LET w == work[h] IN
    /\ At(h, "recalculate")
    /\ add([NewJob("recalculate") EXCEPT !.dropoff = Dropoff(w), !.tries = Attempts])
    /\ IF Conflicting(w) THEN Goto(h, "conflict") ELSE End(h)
    /\ UNCHANGED <<ride, grace, logs, conflict, worker, inputs, past>>

\* SET modification:conflict:{id} ... EX 120
recordConflict(h) ==
    /\ At(h, "conflict")
    /\ conflict' = TRUE
    /\ Goto(h, IF work[h].enRoute THEN "resolve" ELSE "notify")
    /\ UNCHANGED <<ride, grace, logs, jobs, worker, inputs, past>>

enqueueNotice(h) ==
    LET w == work[h] IN
    /\ At(h, "notify")
    /\ add([NewJob("notify") EXCEPT !.tries = IF w.enRoute THEN Attempts ELSE 2])
    /\ IF ~w.enRoute THEN Goto(h, "resolve")
       ELSE IF Conflicting(w) THEN Goto(h, "conflict") ELSE End(h)
    /\ UNCHANGED <<ride, grace, logs, conflict, worker, inputs, past>>

\* Mutant: the job of a change en route has the reason of the other use case.
enqueueResolveOneReason(h) ==
    LET w == work[h] IN
    /\ At(h, "resolve")
    /\ add([NewJob("resolve") EXCEPT !.delayed = TRUE])
    /\ past' = IF w.enRoute THEN past ELSE [past EXCEPT !.asked = @ + 1]
    /\ End(h)
    /\ UNCHANGED <<ride, grace, logs, conflict, worker, inputs>>

enqueueResolve(h) ==
    LET w == work[h] IN
    /\ At(h, "resolve")
    /\ add([NewJob("resolve") EXCEPT !.delayed = TRUE,
               !.reason = IF w.enRoute THEN "implicit_accept" ELSE "driver_no_response"])
    /\ past' = IF w.enRoute THEN past ELSE [past EXCEPT !.asked = @ + 1]
    /\ End(h)
    /\ UNCHANGED <<ride, grace, logs, conflict, worker, inputs>>

\* The endpoint of the driver's answer: it writes nothing.
respondToModification == ride.driver # None /\ UNCHANGED vars

-----------------------------------------------------------------------------
(* RideModificationWorker: a job at a time, in the order they became ready. *)

IsReady(i) == ~jobs[i].delayed
Without(i) == [k \in 1..(Len(jobs) - 1) |-> jobs[IF k < i THEN k ELSE k + 1]]

process ==
    /\ worker.pc = "none"
    /\ \E i \in DOMAIN jobs :
        /\ IsReady(i) /\ \A j \in 1..(i - 1) : ~IsReady(j)
        /\ worker' = [pc |-> jobs[i].name, job |-> jobs[i]]
        /\ jobs' = Without(i)
    /\ UNCHANGED <<ride, grace, logs, conflict, work, inputs, past>>

Next1(pc) == worker' = [worker EXCEPT !.pc = pc]
Done == worker' = NoJobInHand

\* The price of the trip in the job goes to the row, then to the last log.
Computed == [of |-> worker.job.dropoff, scaled |-> FALSE]

recalculatePrice ==
    /\ worker.pc = "recalculate"
    /\ ride' = [ride EXCEPT !.price = Computed]
    /\ Next1("price")
    /\ UNCHANGED <<grace, logs, jobs, conflict, work, inputs, past>>

priceLog ==
    /\ worker.pc = "price"
    /\ logs' = IF logs = <<>> THEN logs ELSE [logs EXCEPT ![Len(logs)].price = Computed]
    /\ Done
    /\ UNCHANGED <<ride, grace, jobs, conflict, work, inputs, past>>

\* The driver is told; nothing reads the question this leaves in Redis.
notifyDriver ==
    /\ worker.pc = "notify"
    /\ Done
    /\ UNCHANGED <<ride, grace, logs, jobs, conflict, work, inputs, past>>

\* The key is read: gone, the conflict is settled; there, nobody answered.
resolveConflict ==
    /\ worker.pc = "resolve"
    /\ IF ~conflict THEN Done
       ELSE IF worker.job.reason = "implicit_accept" THEN Next1("del") ELSE Next1("release")
    /\ UNCHANGED <<ride, grace, logs, jobs, conflict, work, inputs, past>>

\* The update is unconditional; the request for a driver is published after it.
releaseDriver ==
    /\ worker.pc = "release"
    /\ ride' = [ride EXCEPT !.driver = None, !.status = "searching"]
    /\ grace' = FALSE
    /\ Next1("del")
    /\ past' = [past EXCEPT !.released = @ + 1]
    /\ UNCHANGED <<logs, jobs, conflict, work, inputs>>

deleteKey ==
    /\ worker.pc = "del"
    /\ conflict' = FALSE
    /\ Done
    /\ UNCHANGED <<ride, grace, logs, jobs, work, inputs, past>>

-----------------------------------------------------------------------------
(* What happens around them. *)

\* The rest of the life of the ride.
RideMoves ==
    \E to \in RideStatuses :
        /\ canTransitionTo(ride.status, to)
        /\ IF to = "accepted"
           THEN \E d \in Drivers : ride' = [ride EXCEPT !.status = to, !.driver = d]
           ELSE ride' = [ride EXCEPT !.status = to]
        /\ grace' = (to = "accepted")
        /\ UNCHANGED <<logs, jobs, conflict, work, worker, inputs, past>>

GraceEnds ==
    /\ grace
    /\ grace' = FALSE
    /\ UNCHANGED <<ride, logs, jobs, conflict, work, worker, inputs, past>>

KeyExpires ==
    /\ conflict
    /\ conflict' = FALSE
    /\ UNCHANGED <<ride, grace, logs, jobs, work, worker, inputs, past>>

\* A job whose delay is over goes to the end of those that wait.
DelayEnds ==
    /\ \E i \in DOMAIN jobs :
        /\ ~IsReady(i)
        /\ jobs' = Append(Without(i), [jobs[i] EXCEPT !.delayed = FALSE])
    /\ UNCHANGED <<ride, grace, logs, conflict, work, worker, inputs, past>>

\* A query or a command fails, or the process dies: the request ends there,
\* the job goes back to the queue until it has no try left, a pricing job after
\* a delay.  (So does a notice sent en route: nothing depends on when.)
RequestFails(h) ==
    /\ ~At(h, "idle") /\ faults < MaxFaults
    /\ faults' = faults + 1
    /\ End(h)
    /\ past' = [past EXCEPT !.mixed = TRUE]
    /\ UNCHANGED <<ride, grace, logs, jobs, conflict, worker, modifications>>

\* Mutant: the tries of a job are counted up.
JobFailsUp ==
    /\ worker.pc # "none" /\ faults < MaxFaults
    /\ faults' = faults + 1
    /\ IF worker.job.tries = 1
       THEN /\ past' = [past EXCEPT !.mixed = @ \/ worker.job.name = "recalculate"]
            /\ UNCHANGED jobs
       ELSE add([worker.job EXCEPT !.tries = @ + 1, !.delayed = worker.job.name = "recalculate"]) /\ UNCHANGED past
    /\ Done
    /\ UNCHANGED <<ride, grace, logs, conflict, work, modifications>>

JobFails ==
    /\ worker.pc # "none" /\ faults < MaxFaults
    /\ faults' = faults + 1
    /\ IF worker.job.tries = 1
       THEN /\ past' = [past EXCEPT !.mixed = @ \/ worker.job.name = "recalculate"]
            /\ UNCHANGED jobs
       ELSE add([worker.job EXCEPT !.tries = @ - 1, !.delayed = worker.job.name = "recalculate"]) /\ UNCHANGED past
    /\ Done
    /\ UNCHANGED <<ride, grace, logs, conflict, work, modifications>>

-----------------------------------------------------------------------------

ModificationInit ==
    /\ ride = [status |-> "searching", driver |-> None, dropoff |-> Unread.dropoff,
               price |-> [of |-> Unread.dropoff, scaled |-> FALSE], count |-> 0, fees |-> 0]
    /\ grace = FALSE /\ logs = <<>> /\ jobs = <<>> /\ conflict = FALSE
    /\ work = [h \in Handlers |-> AtRest] /\ worker = NoJobInHand
    /\ modifications = 0 /\ faults = 0
    /\ past = [torn |-> FALSE, mixed |-> FALSE, unlogged |-> 0, owed |-> 0,
               asked |-> 0, released |-> 0]

ChangeRequest(h) ==
    \/ modify(h) \/ modifyEnRoute(h) \/ write(h) \/ saveModificationLog(h) \/ LogFails(h)
    \/ enqueuePrice(h) \/ recordConflict(h) \/ enqueueNotice(h) \/ enqueueResolve(h)

Worker == process \/ recalculatePrice \/ priceLog \/ notifyDriver
          \/ resolveConflict \/ releaseDriver \/ deleteKey

ModificationNext ==
    \/ \E h \in Handlers : ChangeRequest(h) \/ RequestFails(h)
    \/ Worker \/ JobFails \/ respondToModification \/ RideMoves
    \/ GraceEnds \/ KeyExpires \/ DelayEnds

ModificationSpec == ModificationInit /\ [][ModificationNext]_vars

-----------------------------------------------------------------------------

\* The variables keep their types.
ModificationTypeOK ==
    /\ ride \in Ride /\ ride.fees \in 0..(MaxModifications * Max2(Fee, EnRouteFee))
    /\ grace \in BOOLEAN /\ conflict \in BOOLEAN
    /\ logs \in Seq(Log) /\ Len(logs) <= MaxModifications
    /\ jobs \in Seq(Job)
    /\ work \in [Handlers -> Local]
    /\ worker \in [pc : {"none", "recalculate", "price", "notify", "resolve", "release", "del"}, job : Job]
    /\ modifications \in 0..MaxModifications /\ faults \in 0..MaxFaults
    /\ past \in History

\* What the logs say the ride was charged for its changes.
LogsOf(phase, fee) == {i \in DOMAIN logs : logs[i].phase = phase /\ logs[i].fee = fee}
Charge(before, enRoute) == Fee * before + EnRouteFee * enRoute
LoggedFees == Charge(Cardinality(LogsOf("pre_departure", Fee)),
                     Cardinality(LogsOf("in_progress", EnRouteFee)))

\* What the ride says of its changes and of their fees is never more than the logs
\* and the changes without one make, whatever overlaps or fails.
NeverOvercharged ==
    ride.count <= Len(logs) + past.unlogged /\ ride.fees <= LoggedFees + past.owed

\* It is not less either, unless two requests read the same row.
NothingLost ==
    ~past.torn => ride.count >= Len(logs) + past.unlogged /\ ride.fees >= LoggedFees + past.owed

\* With nothing left to compute the price is that of the destination, unless a
\* change met the pricing of another or a step failed.
PriceFollows ==
    Changing = {} /\ ~Pricing /\ ~past.mixed => ride.price.of = ride.dropoff

\* The row of a ride agrees with the logs of its changes, their number and their
\* fees, and its price with its destination once it was computed again.
RowAgreesWithLogs == NeverOvercharged /\ NothingLost /\ PriceFollows

\* A ride is taken from its driver and sent back to the search at most once for each
\* change of an accepted ride that asked the driver, and once more for each failure:
\* not by a change en route, nor by a job that has done its work.
ReleasedIfAsked == past.released <= past.asked + faults

\* "Le chauffeur a 2 minutes pour refuser, sinon modification acceptée
\* implicitement": a driver who does not answer keeps the ride.
DriverKept == [][ride.driver # None => ride'.driver # None]_vars

\* "Course en attente": the ride whose driver is released has not gone further than
\* its acceptance.
OnlyWaitingReleased ==
    [][ride.driver # None /\ ride'.driver = None => ride.status = "accepted"]_vars

\* "Jamais d'UPDATE ni de DELETE": a log stays as it was written.
LogsImmutable == [][\A i \in DOMAIN logs : i \in DOMAIN logs' /\ logs'[i] = logs[i]]_vars

\* "Audit trail de toutes les modifications": a change that ended without a failure
\* has its log.
EveryChangeLogged == Changing = {} /\ faults = 0 => past.unlogged = 0
=============================================================================
