------------------------------ MODULE Dispatch ------------------------------
(***************************************************************************)
(* DispatchService: a requested ride is offered to the drivers around it,  *)
(* one after the other, under a lock in Redis that keeps a second dispatch *)
(* of the same ride out.                                                   *)
(*                                                                         *)
(* Keys of Redis expire.  A key that expires is modelled by the time it    *)
(* has left, 0 when it is not there, and Tick lets that time pass for all  *)
(* of them.  A dispatch may be slow: nothing bounds the time between two   *)
(* of its steps, nor how often RIDE_REQUESTED is published for a ride.     *)
(***************************************************************************)
EXTENDS Integers, Sequences

CONSTANTS
    Rides,
    Drivers,
    Tasks,          \* dispatches that can run at the same time, in all processes
    None,
    LockTTL,        \* DISPATCH_LOCK_TTL_S (60 s), in units of time
    OfferTTL,       \* OFFER_TTL_S (15 s)
    MaxAttempts     \* MAX_DRIVER_ATTEMPTS (5)

ASSUME DispatchAssumption ==
    /\ LockTTL \in Nat \ {0} /\ OfferTTL \in Nat \ {0} /\ MaxAttempts \in Nat \ {0}
    /\ None \notin Rides

VARIABLES
    geo,            \* the drivers in the geo index of the city
    meta,           \* the drivers whose driver:meta hash is there
    lock,           \* dispatch:lock:{ride}, the time it has left
    offer,          \* offer:{ride}:{driver}
    task,           \* the dispatches in progress
    disturbed       \* the rides of which a dispatch failed, died or outlived its lock

dispatchVars == <<geo, meta, lock, offer, task, disturbed>>

NoOffer == [status |-> "none", left |-> 0]
Idle == [pc |-> "idle", ride |-> None, cands |-> <<>>, left |-> 0]

\* The dispatch holds the lock of its ride, or believes it does.
Running == {"search", "offer", "poll", "next", "release"}
Dispatching(r) == {w \in Tasks : task[w].ride = r /\ task[w].pc \in Running}

Goto(w, pc) == task' = [task EXCEPT ![w].pc = pc]

-----------------------------------------------------------------------------
(* TrackingGateway and DriversService: what dispatch knows of the drivers. *)

\* handleDriverLocation: geoadd, and in another command the hash, with no expiry.
LocationIndexed(d) ==
    /\ geo' = geo \cup {d}
    /\ UNCHANGED <<meta, lock, offer, task, disturbed>>

\* The hash is written; handleRideRated writes it too, for a driver who may be away.
MetaWritten(d) ==
    /\ meta' = meta \cup {d}
    /\ UNCHANGED <<geo, lock, offer, task, disturbed>>

-----------------------------------------------------------------------------
(* DispatchService *)

\* RIDE_REQUESTED: the listener starts.
Requested(w, r) ==
    /\ task[w] = Idle
    /\ task' = [task EXCEPT ![w].pc = "lock", ![w].ride = r]
    /\ UNCHANGED <<geo, meta, lock, offer, disturbed>>

\* Mutant: SET without NX.
AcquireAlways(w) ==
    /\ task[w].pc = "lock"
    /\ lock' = [lock EXCEPT ![task[w].ride] = LockTTL]
    /\ Goto(w, "search")
    /\ UNCHANGED <<geo, meta, offer, disturbed>>

\* SET lockKey NX EX
Acquire(w) ==
    /\ task[w].pc = "lock"
    /\ lock[task[w].ride] = 0
    /\ lock' = [lock EXCEPT ![task[w].ride] = LockTTL]
    /\ Goto(w, "search")
    /\ UNCHANGED <<geo, meta, offer, disturbed>>

\* The key is there: the dispatch is somebody else's.
Refused(w) ==
    /\ task[w].pc = "lock"
    /\ lock[task[w].ride] > 0
    /\ task' = [task EXCEPT ![w] = Idle]
    /\ UNCHANGED <<geo, meta, lock, offer, disturbed>>

\* The drivers in range and of the right vehicle, best score first: the first MaxAttempts.
Rankings ==
    {s \in UNION {[1..n -> geo \cap meta] : n \in 0..MaxAttempts} :
        \A i, j \in DOMAIN s : s[i] = s[j] => i = j}

\* Mutant: the dispatch waits for a driver to come.
SearchWaits(w) ==
    /\ task[w].pc = "search"
    /\ \E s \in Rankings \ {<<>>} :
          task' = [task EXCEPT ![w].pc = "offer", ![w].cands = s]
    /\ UNCHANGED <<geo, meta, lock, offer, disturbed>>

\* GEORADIUS, then the hashes in one pipeline; entries are only ever added to either,
\* so that both reads are one step.  Nobody is there: NO_DRIVER_FOUND is published.
Search(w) ==
    /\ task[w].pc = "search"
    /\ \E s \in Rankings :
          task' = [task EXCEPT ![w].pc = IF s = <<>> THEN "release" ELSE "offer",
                               ![w].cands = s]
    /\ UNCHANGED <<geo, meta, lock, offer, disturbed>>

\* The offer is stored and announced; the wait for the answer begins.
Offer(w) ==
    /\ task[w].pc = "offer"
    /\ offer' = [offer EXCEPT ![task[w].ride][Head(task[w].cands)] =
                    [status |-> "pending", left |-> OfferTTL]]
    /\ task' = [task EXCEPT ![w].pc = "poll", ![w].left = OfferTTL]
    /\ UNCHANGED <<geo, meta, lock, disturbed>>

Answer(w) == offer[task[w].ride][Head(task[w].cands)].status

\* waitForDriverResponse: the answer is looked at until the deadline, and not after it.
Poll(w) ==
    /\ task[w].pc = "poll"
    /\ \/ task[w].left > 0 /\ Answer(w) = "accepted" /\ Goto(w, "release")
       \/ task[w].left > 0 /\ Answer(w) \in {"rejected", "none"} /\ Goto(w, "next")
       \/ task[w].left = 0 /\ Goto(w, "next")
    /\ UNCHANGED <<geo, meta, lock, offer, disturbed>>

\* Mutant: the end of the list is not noticed.
NextDriverForEver(w) ==
    /\ task[w].pc = "next"
    /\ offer' = [offer EXCEPT ![task[w].ride][Head(task[w].cands)] = NoOffer]
    /\ task' = [task EXCEPT ![w].pc = "offer", ![w].cands = Tail(@), ![w].left = 0]
    /\ UNCHANGED <<geo, meta, lock, disturbed>>

\* The offer is deleted, whatever it says by now, and the next driver is asked; at the
\* end of the list NO_DRIVER_FOUND is published.
NextDriver(w) ==
    /\ task[w].pc = "next"
    /\ offer' = [offer EXCEPT ![task[w].ride][Head(task[w].cands)] = NoOffer]
    /\ task' = [task EXCEPT ![w].pc = IF Len(task[w].cands) = 1 THEN "release" ELSE "offer",
                            ![w].cands = Tail(@), ![w].left = 0]
    /\ UNCHANGED <<geo, meta, lock, disturbed>>

\* finally: DEL lockKey, whoever set it.
Release(w) ==
    /\ task[w].pc = "release"
    /\ lock' = [lock EXCEPT ![task[w].ride] = 0]
    /\ task' = [task EXCEPT ![w] = Idle]
    /\ UNCHANGED <<geo, meta, offer, disturbed>>

\* A command of Redis throws: the lock is released, the offer stays.
Throw(w) ==
    /\ task[w].pc \in Running \ {"release"}
    /\ Goto(w, "release")
    /\ disturbed' = disturbed \cup {task[w].ride}
    /\ UNCHANGED <<geo, meta, lock, offer>>

\* The process dies: the lock and the offer stay until they expire.
Crash(w) ==
    /\ task[w].pc # "idle"
    /\ task' = [task EXCEPT ![w] = Idle]
    /\ disturbed' = disturbed \cup {task[w].ride}
    /\ UNCHANGED <<geo, meta, lock, offer>>

-----------------------------------------------------------------------------
(* The driver's application, and time. *)

DriverAnswers(r, d) ==
    /\ offer[r][d].status = "pending"
    /\ \E s \in {"accepted", "rejected"} : offer' = [offer EXCEPT ![r][d].status = s]
    /\ UNCHANGED <<geo, meta, lock, task, disturbed>>

Less(n) == IF n = 0 THEN 0 ELSE n - 1

Tick ==
    /\ lock' = [r \in Rides |-> Less(lock[r])]
    /\ offer' = [r \in Rides |-> [d \in Drivers |->
            IF offer[r][d].left <= 1 THEN NoOffer ELSE [offer[r][d] EXCEPT !.left = @ - 1]]]
    /\ task' = [w \in Tasks |-> [task[w] EXCEPT !.left = Less(@)]]
    /\ disturbed' = disturbed \cup {r \in Rides : lock[r] = 1 /\ Dispatching(r) # {}}
    /\ UNCHANGED <<geo, meta>>

-----------------------------------------------------------------------------
(* The specification *)

Init ==
    /\ geo = {} /\ meta = {}
    /\ lock = [r \in Rides |-> 0]
    /\ offer = [r \in Rides |-> [d \in Drivers |-> NoOffer]]
    /\ task = [w \in Tasks |-> Idle]
    /\ disturbed = {}

Step(w) ==
    \/ Acquire(w)
    \/ Refused(w)
    \/ Search(w)
    \/ Offer(w)
    \/ Poll(w)
    \/ NextDriver(w)
    \/ Release(w)

Next ==
    \/ \E w \in Tasks :
          \/ \E r \in Rides : Requested(w, r)
          \/ Step(w)
          \/ Throw(w)
          \/ Crash(w)
    \/ \E d \in Drivers : LocationIndexed(d) \/ MetaWritten(d)
    \/ \E r \in Rides, d \in Drivers : DriverAnswers(r, d)
    \/ Tick

Spec == Init /\ [][Next]_dispatchVars

\* Time passes and a dispatch that runs goes on.
FairSpec == Spec /\ WF_dispatchVars(Tick) /\ \A w \in Tasks : WF_dispatchVars(Step(w))

-----------------------------------------------------------------------------
(* Properties *)

Offers == [status : {"none", "pending", "accepted", "rejected"}, left : 0..OfferTTL]

TaskStates == [pc : {"idle", "lock"} \cup Running, ride : Rides \cup {None},
               cands : Seq(Drivers), left : 0..OfferTTL]

AsksSomebody(t) ==
    /\ Len(t.cands) <= MaxAttempts
    /\ t.pc \in {"offer", "poll", "next"} => t.cands # <<>>
    /\ t.pc # "idle" => t.ride \in Rides

\* Types; a dispatch that asks drivers has somebody to ask, and not too many.
TypeOK ==
    /\ geo \subseteq Drivers /\ meta \subseteq Drivers
    /\ lock \in [Rides -> 0..LockTTL]
    /\ offer \in [Rides -> [Drivers -> Offers]]
    /\ task \in [Tasks -> TaskStates]
    /\ \A w \in Tasks : AsksSomebody(task[w])
    /\ disturbed \subseteq Rides

Pending(r) == {d \in Drivers : offer[r][d].status = "pending"}

\* However requests repeat and drivers answer late, a ride is dispatched once at a time
\* and one driver at a time is asked, unless a dispatch of it failed, died or outlived
\* its lock: the lock with its expiry and its unconditional DEL gives that much.
OneOfferAtATime ==
    \A r \in Rides \ disturbed :
        /\ \A w1, w2 \in Dispatching(r) : w1 = w2
        /\ \A d1, d2 \in Pending(r) : d1 = d2

\* A dispatch that started ends, whatever the drivers do: nobody waits for ever for an
\* answer, for a driver to come, or for the lock.
DispatchEnds == \A w \in Tasks : task[w].pc # "idle" ~> task[w].pc = "idle"

\* The lock is documented to keep duplicates out ("anti-doublon multi-instances"): no two
\* dispatches of a ride run at once.
OneDispatchPerRide == \A r \in Rides : \A w1, w2 \in Dispatching(r) : w1 = w2
=============================================================================
