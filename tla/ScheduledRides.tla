--------------------------- MODULE ScheduledRides ---------------------------
(***************************************************************************)
(* Scheduled rides: the two crons of SchedulingService, the BullMQ queue    *)
(* of delayed jobs and ScheduledRidesWorker, running beside the use cases  *)
(* of Rides that book, move and cancel such a ride.                        *)
(*                                                                         *)
(* A job is keyed by its ride (jobId ride-{id}): while a job of that id is *)
(* known to the queue, delayed, active, or kept after it ended, adding it  *)
(* again changes nothing.  A worker that fails gives the job back to the   *)
(* queue until its attempts are used up.                                   *)
(***************************************************************************)
EXTENDS Rides, Integers

CONSTANTS
    MaxTime,        \* bound on the clock, in units of time
    Window,         \* the cron looks this far ahead (16 minutes)
    Lead,           \* a job is due this long before the ride (1 minute)
    Grace,          \* a ride this late is cancelled (30 minutes)
    Advance,        \* a new time is at least this far ahead (10 minutes)
    MaxAttempts     \* attempts of a job (3)

ASSUME TimingAssumption ==
    /\ MaxTime \in Nat /\ Window \in Nat /\ Lead \in Nat
    /\ Grace \in Nat /\ Advance \in Nat
    /\ MaxAttempts \in Nat \ {0}

VARIABLES
    now,            \* the clock
    scheduledAt,    \* column scheduled_at of each ride
    scan,           \* the rides the enqueueing cron has read and not yet added
    job,            \* the queue: the job of each ride
    requested       \* how often the worker published RIDE_REQUESTED for a ride

schedVars == <<now, scheduledAt, scan, job, requested>>
allVars == <<ridesVars, schedVars>>

Times == 0..MaxTime
\* The clock runs until every ride that can be booked is late.
Bookable == 0..(MaxTime - Grace)
NoJob == [state |-> "none", due |-> 0, attempts |-> 0]
WorkerOps == {"trigger", "overdue"}
SystemOps == WorkerOps \cup {"stale"}

LaterOf(a, b) == IF a > b THEN a ELSE b

-----------------------------------------------------------------------------
(* The passenger: the creation fixes the time, a modification moves it. *)

CreateScheduledWrite(p) ==
    /\ CreateWrite(p)
    /\ \E t \in Bookable, r \in Rides :
          /\ rides'[r] # rides[r]
          /\ scheduledAt' = [scheduledAt EXCEPT ![r] = t]
    /\ UNCHANGED <<now, scan, job, requested>>

\* ModifyRideBeforeDepartureUseCase with newScheduledAt, for a scheduled ride.
RescheduleRead(p, r) ==
    /\ rides[r].status = "scheduled"
    /\ Start(p, "write", "reschedule", r, None)
    /\ UNCHANGED schedVars

\* The new time is checked just before the write; the queue is left as it is.
RescheduleWrite(p) ==
    /\ Ready(p, "reschedule")
    /\ \E t \in Bookable :
          /\ t >= now + Advance
          /\ scheduledAt' = [scheduledAt EXCEPT ![handler[p].ride] = t]
    /\ handler' = [handler EXCEPT ![p] = Idle]
    /\ UNCHANGED <<rides, event, now, scan, job, requested>>

-----------------------------------------------------------------------------
(* SchedulingService *)

\* processPendingScheduledRides: one query, then one queue.add per ride.
CronScan ==
    /\ scan = {}
    /\ scan' = {<<r, scheduledAt[r]>> : r \in {x \in Rides :
                    /\ rides[x].status = "scheduled"
                    /\ scheduledAt[x] \in now..(now + Window)}}
    /\ UNCHANGED <<ridesVars, now, scheduledAt, job, requested>>

\* Mutant: the job is added without a jobId, so the queue does not know it already.
CronAddNoJobId(r, at) ==
    /\ <<r, at>> \in scan
    /\ scan' = scan \ {<<r, at>>}
    /\ job' = [job EXCEPT ![r] =
            [state |-> "delayed", due |-> LaterOf(now, at - Lead), attempts |-> 0]]
    /\ UNCHANGED <<ridesVars, now, scheduledAt, requested>>

CronAdd(r, at) ==
    /\ <<r, at>> \in scan
    /\ scan' = scan \ {<<r, at>>}
    /\ job' = [job EXCEPT ![r] =
            IF @ = NoJob
            THEN [state |-> "delayed", due |-> LaterOf(now, at - Lead), attempts |-> 0]
            ELSE @]
    /\ UNCHANGED <<ridesVars, now, scheduledAt, requested>>

\* The process dies during the loop: the rest of the list is left to the next scan.
CronAbort ==
    /\ scan # {}
    /\ scan' = {}
    /\ UNCHANGED <<ridesVars, now, scheduledAt, job, requested>>

\* Mutant: the safety net leaves alone the rides that still have a job.
StaleReadNoJob(p, r) ==
    /\ rides[r].status = "scheduled" /\ job[r] = NoJob
    /\ scheduledAt[r] <= now - Grace
    /\ Start(p, "write", "stale", r, None)
    /\ UNCHANGED schedVars

\* cancelStaleScheduledRides
StaleRead(p, r) ==
    /\ rides[r].status = "scheduled"
    /\ scheduledAt[r] <= now - Grace
    /\ Start(p, "write", "stale", r, None)
    /\ UNCHANGED schedVars

-----------------------------------------------------------------------------
(* ScheduledRidesWorker.triggerScheduledRide *)

Due(r) == job[r].state = "delayed" /\ job[r].due <= now

\* The row is no longer scheduled: the job ends without doing anything.
TriggerSkip(r) ==
    /\ Due(r)
    /\ rides[r].status # "scheduled"
    /\ job' = [job EXCEPT ![r].state = "ended"]
    /\ UNCHANGED <<ridesVars, now, scheduledAt, scan, requested>>

\* Mutant: the worker does not check the status of the ride again.
TriggerReadUnchecked(p, r) ==
    /\ Due(r) /\ rides[r].status # "absent"
    /\ Start(p, "write", IF now - scheduledAt[r] > Grace THEN "overdue" ELSE "trigger", r, None)
    /\ job' = [job EXCEPT ![r].state = "active"]
    /\ UNCHANGED <<now, scheduledAt, scan, requested>>

TriggerRead(p, r) ==
    /\ Due(r)
    /\ rides[r].status = "scheduled"
    /\ Start(p, "write", IF now - scheduledAt[r] > Grace THEN "overdue" ELSE "trigger", r, None)
    /\ job' = [job EXCEPT ![r].state = "active"]
    /\ UNCHANGED <<now, scheduledAt, scan, requested>>

TriggerWrite(p) ==
    /\ Ready(p, "trigger")
    /\ Update(p, [RowNow(p) EXCEPT !.status = "searching"])
    /\ UNCHANGED schedVars

\* The cancellation by the system: the overdue branch of the worker, and the cron.
SystemCancel(p) ==
    /\ Ready(p, "overdue") \/ Ready(p, "stale")
    /\ Update(p, [RowNow(p) EXCEPT !.status = "cancelled"])
    /\ UNCHANGED schedVars

\* The events of the worker and of the cron; the worker's job then ends.
SystemEmit(p) ==
    /\ handler[p].pc = "emit" /\ handler[p].op \in SystemOps
    /\ event' = [type |-> IF handler[p].op = "trigger" THEN "ride.requested"
                                                       ELSE "ride.cancelled",
                 ride |-> handler[p].ride, driver |-> None]
    /\ requested' = [requested EXCEPT
            ![handler[p].ride] = IF handler[p].op = "trigger" THEN @ + 1 ELSE @]
    /\ job' = [job EXCEPT ![handler[p].ride].state =
            IF handler[p].op \in WorkerOps THEN "ended" ELSE @]
    /\ handler' = [handler EXCEPT ![p] = Idle]
    /\ UNCHANGED <<rides, now, scheduledAt, scan>>

\* Mutant: the attempt is counted and the job is never given back.
WorkerAbortKeepsLock(p) ==
    /\ handler[p].op \in WorkerOps
    /\ Abort(p)
    /\ job' = [job EXCEPT ![handler[p].ride].attempts =
                   IF @ < MaxAttempts THEN @ + 1 ELSE @]
    /\ UNCHANGED <<now, scheduledAt, scan, requested>>

\* The worker throws or dies: the queue runs the job again, or gives it up.
WorkerAbort(p) ==
    /\ handler[p].op \in WorkerOps
    /\ Abort(p)
    /\ job' = [job EXCEPT ![handler[p].ride] =
            [state |-> IF @.attempts + 1 < MaxAttempts THEN "delayed" ELSE "ended",
             due |-> now, attempts |-> @.attempts + 1]]
    /\ UNCHANGED <<now, scheduledAt, scan, requested>>

\* removeOnComplete and removeOnFail: an ended job is dropped some time later.
ForgetJob(r) ==
    /\ job[r].state = "ended"
    /\ job' = [job EXCEPT ![r] = NoJob]
    /\ UNCHANGED <<ridesVars, now, scheduledAt, scan, requested>>

-----------------------------------------------------------------------------
(* The specification *)

Tick ==
    /\ now < MaxTime
    /\ now' = now + 1
    /\ UNCHANGED <<ridesVars, scheduledAt, scan, job, requested>>

\* The use cases of Rides that apply to a ride before it is searched for: booking
\* it and cancelling it.
UseCase(p) ==
    /\ \/ \E u \in Users : CreateCheck(p, u, "schedule")
       \/ \E r \in Rides : CancelRead(p, r)
       \/ CancelWrite(p)
       \/ handler[p].op \notin SystemOps /\ Emit(p)
       \/ handler[p].op \notin WorkerOps /\ Abort(p)
    /\ UNCHANGED schedVars

SchedInit ==
    /\ Init
    /\ now = 0
    /\ scheduledAt = [r \in Rides |-> None]
    /\ scan = {}
    /\ job = [r \in Rides |-> NoJob]
    /\ requested = [r \in Rides |-> 0]

HandlerStep(p) ==
    \/ UseCase(p)
    \/ CreateScheduledWrite(p)
    \/ RescheduleWrite(p)
    \/ TriggerWrite(p)
    \/ SystemCancel(p)
    \/ SystemEmit(p)
    \/ WorkerAbort(p)

RideStep(r) ==
    \/ \E p \in Handlers : RescheduleRead(p, r) \/ StaleRead(p, r) \/ TriggerRead(p, r)
    \/ \E at \in Times : CronAdd(r, at)
    \/ TriggerSkip(r)
    \/ ForgetJob(r)

SchedNext ==
    \/ \E p \in Handlers : HandlerStep(p)
    \/ \E r \in Rides : RideStep(r)
    \/ CronScan
    \/ CronAbort
    \/ Tick

SchedSpec == SchedInit /\ [][SchedNext]_allVars

\* The clock runs; a handler that started goes on or fails; the hourly cron keeps
\* running, finds the database again and again, and does not fail for ever.
StaleCancel(r) == \E p \in Handlers :
    handler[p].ride = r /\ handler[p].op = "stale" /\ SystemCancel(p)

SchedFairness ==
    /\ WF_allVars(Tick)
    /\ \A p \in Handlers : WF_allVars(HandlerStep(p) /\ handler[p] # Idle)
    /\ \A r \in Rides :
          /\ SF_allVars(\E p \in Handlers : StaleRead(p, r))
          /\ SF_allVars(StaleCancel(r))

FairSchedSpec == SchedSpec /\ SchedFairness

-----------------------------------------------------------------------------
(* Properties *)

Working(r) == {p \in Handlers : handler[p].op \in WorkerOps /\ handler[p].ride = r}

\* Types, and the lock of the queue: a job is active exactly while one handler
\* works on it.
SchedTypeOK ==
    /\ rides \in [Rides -> Row]
    /\ now \in Times
    /\ scheduledAt \in [Rides -> Times \cup {None}]
    /\ scan \subseteq Rides \X Times
    /\ job \in [Rides -> [state : {"none", "delayed", "active", "ended"},
                          due : Times, attempts : 0..MaxAttempts]]
    /\ requested \in [Rides -> Nat]
    /\ \A r \in Rides : job[r].state = "active" <=> Working(r) # {}

\* Rescans, retries after a crash, kept and forgotten jobs, cancellations and new
\* times notwithstanding, the worker publishes RIDE_REQUESTED at most once for a
\* ride ("pas de double declenchement").
RequestedAtMostOnce == \A r \in Rides : requested[r] <= 1

\* Whatever crashes, no ride stays "scheduled" for ever: the worker triggers it,
\* someone cancels it, or the hourly cron (the safety net) does.
ScheduledRideLeaves ==
    \A r \in Rides : rides[r].status = "scheduled" ~> rides[r].status # "scheduled"

\* ScheduledRidesWorker promises a retry when the worker crashes: once its job has
\* ended, a ride that it moved to "searching" has been handed to the dispatcher.
RequestedOnceJobEnds ==
    \A r \in Rides :
        job[r].state = "ended" /\ rides[r].status = "searching" => requested[r] = 1

\* The worker receives the job at scheduledAt - 1 minute: no ride is handed to
\* the dispatcher earlier than that.
NotBeforeDue ==
    [][\A r \in Rides : requested'[r] > requested[r] => now >= scheduledAt[r] - Lead]_allVars
=============================================================================
