--------------------------- MODULE DispatchProof ----------------------------
(***************************************************************************)
(* Proofs about Dispatch for every set of rides, drivers and dispatches    *)
(* and every choice of the expiry times: typing, and one dispatch and one  *)
(* pending offer of a ride at a time as long as no dispatch of it failed,  *)
(* died or outlived its lock.                                              *)
(***************************************************************************)
EXTENDS Dispatch, TLAPS

\* The dispatch of an undisturbed ride still has its lock, and is the only one.
LockHeld ==
    \A r \in Rides \ disturbed : \A w \in Dispatching(r) :
        lock[r] > 0 /\ \A v \in Dispatching(r) : v = w

\* A pending offer of an undisturbed ride is the one its dispatch is waiting for, and
\* expires no later than the wait.
PendingAsked ==
    \A r \in Rides \ disturbed : \A d \in Pending(r) : \E w \in Dispatching(r) :
        /\ task[w].pc = "poll" /\ d = Head(task[w].cands)
        /\ 0 < offer[r][d].left /\ offer[r][d].left <= task[w].left

IInv == TypeOK /\ LockHeld /\ PendingAsked

-----------------------------------------------------------------------------

\* The times a key or a wait can have left.
LEMMA Times ==
  /\ 0 \in 0..LockTTL /\ LockTTL \in 0..LockTTL
  /\ 0 \in 0..OfferTTL /\ OfferTTL \in 0..OfferTTL
  /\ \A n \in 0..LockTTL : Less(n) \in 0..LockTTL
  /\ \A n \in 0..OfferTTL : Less(n) \in 0..OfferTTL
  <1>1. LockTTL \in Nat /\ OfferTTL \in Nat
    BY DispatchAssumption
  <1>2. ASSUME NEW m \in Nat, NEW n \in 0..m PROVE Less(n) \in 0..m
    BY DEF Less
  <1> QED
    BY <1>1, <1>2

\* A ranking is a list of at most MaxAttempts drivers.
LEMMA RankingTyped ==
  ASSUME TypeOK, NEW s \in Rankings
  PROVE  s \in Seq(Drivers) /\ Len(s) <= MaxAttempts
  <1>1. PICK n \in 0..MaxAttempts : s \in [1..n -> geo \cap meta]
    BY DEF Rankings
  <1>2. n \in Nat /\ s \in [1..n -> Drivers]
    BY <1>1, DispatchAssumption DEF TypeOK
  <1> QED
    BY <1>1, <1>2, DispatchAssumption

\* The driver at the head of a list that is not empty, and the list without it.
LEMMA ListTyped ==
  ASSUME NEW s \in Seq(Drivers), s # <<>>, Len(s) <= MaxAttempts
  PROVE  /\ Head(s) \in Drivers
         /\ Tail(s) \in Seq(Drivers) /\ Len(Tail(s)) <= MaxAttempts
         /\ Len(s) # 1 => Tail(s) # <<>>
  <1>1. Len(s) \in Nat /\ Len(s) > 0 /\ Head(s) \in Drivers
    OBVIOUS
  <1>2. Tail(s) \in Seq(Drivers) /\ Len(Tail(s)) = Len(s) - 1
    BY <1>1
  <1> QED
    BY <1>1, <1>2, DispatchAssumption

\* The initial states satisfy the invariant.
LEMMA InitInv == Init => IInv
  <1> SUFFICES ASSUME Init PROVE IInv
    OBVIOUS
  <1>1. TypeOK
    BY Times, DispatchAssumption DEF Init, TypeOK, AsksSomebody, Offers, NoOffer, Idle, TaskStates, Running
  <1>2. LockHeld /\ PendingAsked
    BY DEF Init, LockHeld, PendingAsked, Dispatching, Pending, NoOffer, Idle, Running
  <1> QED
    BY <1>1, <1>2 DEF IInv

\* A step that rewrites the record of one dispatch keeps the types of all of them.
LEMMA TaskTyped ==
  ASSUME TypeOK, NEW w \in Tasks, NEW t \in TaskStates, AsksSomebody(t),
         task' = [task EXCEPT ![w] = t]
  PROVE  task' \in [Tasks -> TaskStates] /\ \A v \in Tasks : AsksSomebody(task'[v])
  <1>1. \A v \in Tasks : task'[v] = IF v = w THEN t ELSE task[v]
    BY DEF TypeOK
  <1> QED
    BY <1>1 DEF TypeOK

\* A dispatch that only moves on to a place where it asks nobody new.
LEMMA GotoTyped ==
  ASSUME TypeOK, NEW w \in Tasks, NEW pc \in {"lock", "search", "next", "release"},
         task[w].pc # "idle", pc = "next" => task[w].cands # <<>>, Goto(w, pc)
  PROVE  task' \in [Tasks -> TaskStates] /\ \A v \in Tasks : AsksSomebody(task'[v])
  <1> DEFINE t == [task[w] EXCEPT !.pc = pc]
  <1>1. task[w] \in TaskStates /\ AsksSomebody(task[w])
    BY DEF TypeOK
  <1>2. t \in TaskStates /\ AsksSomebody(t)
    BY <1>1 DEF TaskStates, Running, AsksSomebody
  <1>3. task' = [task EXCEPT ![w] = t]
    BY DEF Goto, TypeOK
  <1> QED
    BY <1>2, <1>3, TaskTyped

\* The record of a dispatch that ended.
LEMMA IdleTyped == Idle \in TaskStates /\ AsksSomebody(Idle)
  BY DispatchAssumption DEF Idle, TaskStates, AsksSomebody, Running

\* Every action of a dispatch, and of what surrounds it, keeps the types.
LEMMA TypeInvariant == TypeOK /\ [Next]_dispatchVars => TypeOK'
  <1> SUFFICES ASSUME TypeOK, [Next]_dispatchVars PROVE TypeOK'
    OBVIOUS
  <1>1. ASSUME NEW w \in Tasks, NEW r \in Rides, Requested(w, r) PROVE TypeOK'
    <2> DEFINE t == [Idle EXCEPT !.pc = "lock", !.ride = r]
    <2>1. t \in TaskStates /\ AsksSomebody(t)
      BY IdleTyped DEF TaskStates, AsksSomebody, Idle
    <2>2. task' = [task EXCEPT ![w] = t]
      BY <1>1 DEF Requested, TypeOK
    <2> QED
      BY <1>1, <2>1, <2>2, TaskTyped DEF Requested, TypeOK
  <1>2. ASSUME NEW w \in Tasks, Acquire(w) PROVE TypeOK'
    <2>1. task' \in [Tasks -> TaskStates] /\ \A v \in Tasks : AsksSomebody(task'[v])
      BY <1>2, GotoTyped DEF Acquire
    <2>2. lock' \in [Rides -> 0..LockTTL]
      BY <1>2, Times DEF Acquire, TypeOK
    <2> QED
      BY <1>2, <2>1, <2>2 DEF Acquire, TypeOK
  <1>3. ASSUME NEW w \in Tasks, Refused(w) \/ Crash(w) PROVE TypeOK'
    <2>1. task' = [task EXCEPT ![w] = Idle] /\ disturbed' \subseteq Rides
      BY <1>3 DEF Refused, Crash, TypeOK, AsksSomebody
    <2> QED
      BY <1>3, <2>1, IdleTyped, TaskTyped DEF Refused, Crash, TypeOK
  <1>4. ASSUME NEW w \in Tasks, Search(w) PROVE TypeOK'
    <2>1. PICK s \in Rankings :
            task' = [task EXCEPT ![w].pc = IF s = <<>> THEN "release" ELSE "offer",
                                 ![w].cands = s]
      BY <1>4 DEF Search
    <2> DEFINE t == [task[w] EXCEPT !.pc = IF s = <<>> THEN "release" ELSE "offer",
                                    !.cands = s]
    <2>2. s \in Seq(Drivers) /\ Len(s) <= MaxAttempts
      BY RankingTyped
    <2>3. t \in TaskStates /\ AsksSomebody(t)
      BY <1>4, <2>2 DEF Search, TypeOK, TaskStates, AsksSomebody, Running
    <2>4. task' = [task EXCEPT ![w] = t]
      BY <2>1 DEF TypeOK
    <2> QED
      BY <1>4, <2>3, <2>4, TaskTyped DEF Search, TypeOK
  <1>5. ASSUME NEW w \in Tasks, Offer(w) PROVE TypeOK'
    <2> DEFINE t == [task[w] EXCEPT !.pc = "poll", !.left = OfferTTL]
    <2>1. task[w] \in TaskStates /\ AsksSomebody(task[w]) /\ task[w].cands # <<>>
      BY <1>5 DEF Offer, TypeOK, AsksSomebody
    <2>2. Head(task[w].cands) \in Drivers
      BY <2>1, ListTyped DEF TaskStates, AsksSomebody
    <2>3. t \in TaskStates /\ AsksSomebody(t)
      BY <1>5, <2>1, Times DEF Offer, TaskStates, AsksSomebody, Running
    <2>4. task' = [task EXCEPT ![w] = t]
      BY <1>5 DEF Offer, TypeOK
    <2>5. [status |-> "pending", left |-> OfferTTL] \in Offers
      BY DispatchAssumption DEF Offers
    <2>6. offer' \in [Rides -> [Drivers -> Offers]]
      BY <1>5, <2>2, <2>5 DEF Offer, TypeOK
    <2> QED
      BY <1>5, <2>3, <2>4, <2>6, TaskTyped DEF Offer, TypeOK
  <1>6. ASSUME NEW w \in Tasks, Poll(w) PROVE TypeOK'
    <2>1. PICK pc \in {"release", "next"} : Goto(w, pc)
      BY <1>6 DEF Poll
    <2>2. task[w].cands # <<>>
      BY <1>6 DEF Poll, TypeOK, AsksSomebody
    <2>3. task[w].pc # "idle"
      BY <1>6 DEF Poll
    <2>4. task' \in [Tasks -> TaskStates] /\ \A v \in Tasks : AsksSomebody(task'[v])
      BY <2>1, <2>2, <2>3, GotoTyped
    <2> QED
      BY <1>6, <2>4 DEF Poll, TypeOK
  <1>7. ASSUME NEW w \in Tasks, NextDriver(w) PROVE TypeOK'
    <2> DEFINE c == task[w].cands
               t == [task[w] EXCEPT !.pc = IF Len(c) = 1 THEN "release" ELSE "offer",
                                    !.cands = Tail(c), !.left = 0]
    <2>1. task[w] \in TaskStates /\ AsksSomebody(task[w]) /\ c # <<>>
      BY <1>7 DEF NextDriver, TypeOK, AsksSomebody
    <2>2. /\ Head(c) \in Drivers
          /\ Tail(c) \in Seq(Drivers) /\ Len(Tail(c)) <= MaxAttempts
          /\ Len(c) # 1 => Tail(c) # <<>>
      BY <2>1, ListTyped DEF TaskStates, AsksSomebody
    <2>3. t \in TaskStates /\ AsksSomebody(t)
      BY <1>7, <2>1, <2>2, Times
      DEF NextDriver, TaskStates, AsksSomebody, Running
    <2>4. task' = [task EXCEPT ![w] = t]
      BY <1>7 DEF NextDriver, TypeOK
    <2>5. NoOffer \in Offers
      BY DispatchAssumption DEF Offers, NoOffer
    <2>6. offer' \in [Rides -> [Drivers -> Offers]]
      BY <1>7, <2>2, <2>5 DEF NextDriver, TypeOK
    <2> QED
      BY <1>7, <2>3, <2>4, <2>6, TaskTyped DEF NextDriver, TypeOK
  <1>8. ASSUME NEW w \in Tasks, Release(w) PROVE TypeOK'
    <2>1. lock' \in [Rides -> 0..LockTTL]
      BY <1>8, Times DEF Release, TypeOK
    <2> QED
      BY <1>8, <2>1, IdleTyped, TaskTyped DEF Release, TypeOK
  <1>9. ASSUME NEW w \in Tasks, Throw(w) PROVE TypeOK'
    <2>1. task[w].pc # "idle" /\ task[w].ride \in Rides
      BY <1>9 DEF Throw, Running, TypeOK, AsksSomebody
    <2> QED
      BY <1>9, <2>1, GotoTyped DEF Throw, TypeOK
  <1>10. ASSUME NEW d \in Drivers, LocationIndexed(d) \/ MetaWritten(d) PROVE TypeOK'
    BY <1>10 DEF LocationIndexed, MetaWritten, TypeOK
  <1>11. ASSUME NEW r \in Rides, NEW d \in Drivers, DriverAnswers(r, d) PROVE TypeOK'
    BY <1>11 DEF DriverAnswers, TypeOK, Offers
  <1>12. ASSUME Tick PROVE TypeOK'
    <2>1. lock' \in [Rides -> 0..LockTTL]
      BY <1>12, Times DEF Tick, TypeOK
    <2>2. NoOffer \in Offers
      BY DispatchAssumption DEF Offers, NoOffer
    <2>3. ASSUME NEW o \in Offers, ~(o.left <= 1) PROVE [o EXCEPT !.left = @ - 1] \in Offers
      BY <2>3, DispatchAssumption DEF Offers
    <2>4. offer' \in [Rides -> [Drivers -> Offers]]
      BY <1>12, <2>2, <2>3 DEF Tick, TypeOK
    <2>5. ASSUME NEW t \in TaskStates, AsksSomebody(t)
          PROVE  LET u == [t EXCEPT !.left = Less(@)] IN u \in TaskStates /\ AsksSomebody(u)
      BY <2>5, DispatchAssumption DEF TaskStates, AsksSomebody, Less
    <2>6. task' \in [Tasks -> TaskStates] /\ \A v \in Tasks : AsksSomebody(task'[v])
      BY <1>12, <2>5 DEF Tick, TypeOK
    <2> QED
      BY <1>12, <2>1, <2>4, <2>6 DEF Tick, TypeOK
  <1>13. CASE UNCHANGED dispatchVars
    BY <1>13 DEF dispatchVars, TypeOK
  <1> QED
    BY <1>1, <1>2, <1>3, <1>4, <1>5, <1>6, <1>7, <1>8, <1>9, <1>10, <1>11, <1>12, <1>13
    DEF Next, Step

\* The record of the dispatch that makes a step, and those of the others.
LEMMA Others ==
  ASSUME TypeOK, NEW w \in Tasks, NEW t, task' = [task EXCEPT ![w] = t]
  PROVE  \A v \in Tasks : task'[v] = IF v = w THEN t ELSE task[v]
  BY DEF TypeOK

\* A dispatch that goes on with the ride it has goes on being the one that dispatches it.
LEMMA SameDispatchers ==
  ASSUME NEW w \in Tasks, NEW t,
         \A v \in Tasks : task'[v] = IF v = w THEN t ELSE task[v],
         task[w].pc \in Running, t.pc \in Running, t.ride = task[w].ride
  PROVE  \A r \in Rides : Dispatching(r)' = Dispatching(r)
  BY DEF Dispatching

\* A step of one dispatch that takes no lock, makes no offer and waits for nothing keeps
\* the lock and the offers right, provided that no offer it waits for is still pending.
LEMMA QuietStep ==
  ASSUME IInv, NEW w \in Tasks, NEW t \in TaskStates,
         task' = [task EXCEPT ![w] = t], task[w].pc \in Running, t.ride = task[w].ride,
         t.pc \in Running,
         task[w].pc = "poll" =>
            offer[task[w].ride][Head(task[w].cands)].status # "pending"
            \/ task[w].ride \in disturbed' \/ task[w].left = 0,
         disturbed \subseteq disturbed',
         UNCHANGED lock,
         \A r \in Rides : \A d \in Drivers :
            offer'[r][d] = offer[r][d] \/ offer'[r][d] = NoOffer
  PROVE  LockHeld' /\ PendingAsked'
  <1>1. \A v \in Tasks : task'[v] = IF v = w THEN t ELSE task[v]
    BY Others DEF IInv
  <1>2. \A r \in Rides : Dispatching(r)' = Dispatching(r)
    BY <1>1 DEF Dispatching
  <1>3. LockHeld'
    BY <1>2 DEF IInv, LockHeld
  <1>4. ASSUME NEW r \in Rides \ disturbed', NEW d \in Pending(r)'
        PROVE  \E v \in Dispatching(r)' :
                  /\ task'[v].pc = "poll" /\ d = Head(task'[v].cands)
                  /\ 0 < offer'[r][d].left /\ offer'[r][d].left <= task'[v].left
    <2>1. d \in Pending(r) /\ offer'[r][d] = offer[r][d]
      BY <1>4 DEF Pending, NoOffer
    <2>2. PICK v \in Dispatching(r) :
            /\ task[v].pc = "poll" /\ d = Head(task[v].cands)
            /\ 0 < offer[r][d].left /\ offer[r][d].left <= task[v].left
      BY <2>1 DEF IInv, PendingAsked
    <2>3. offer[r][d].left \in Nat /\ v \in Tasks /\ task[v].ride = r
      BY <2>1, <2>2, DispatchAssumption DEF IInv, TypeOK, Offers, Pending, Dispatching
    <2>4. v # w
      BY <2>1, <2>2, <2>3 DEF Pending
    <2> QED
      BY <1>1, <1>2, <2>1, <2>2, <2>3, <2>4
  <1> QED
    BY <1>3, <1>4 DEF PendingAsked

\* A dispatch that ends, or is about to start, leaves the others as they are.
LEMMA OutsideStep ==
  ASSUME IInv, NEW w \in Tasks, NEW t \in TaskStates,
         task' = [task EXCEPT ![w] = t], t.pc \notin Running,
         task[w].pc \in Running => task[w].ride \in disturbed',
         disturbed \subseteq disturbed',
         UNCHANGED <<lock, offer>>
  PROVE  LockHeld' /\ PendingAsked'
  <1>1. \A v \in Tasks : task'[v] = IF v = w THEN t ELSE task[v]
    BY Others DEF IInv
  <1>2. \A r \in Rides \ disturbed' :
           /\ r \notin disturbed
           /\ Dispatching(r)' = Dispatching(r) /\ w \notin Dispatching(r)
    BY <1>1 DEF Dispatching
  <1>3. LockHeld'
    BY <1>2 DEF IInv, LockHeld
  <1>4. PendingAsked'
    <2>1. \A r \in Rides \ disturbed' : \A v \in Dispatching(r) : task'[v] = task[v]
      BY <1>1, <1>2 DEF Dispatching
    <2> QED
      BY <1>2, <2>1 DEF IInv, PendingAsked, Pending
  <1> QED
    BY <1>3, <1>4

\* The lock is free, so nobody dispatches the ride: the dispatch that takes it is alone.
LEMMA AcquireStep ==
  ASSUME IInv, NEW w \in Tasks, Acquire(w), NEW R \in Rides, R = task[w].ride
  PROVE  LockHeld' /\ PendingAsked'
  <1> DEFINE t == [task[w] EXCEPT !.pc = "search"]
  <1>1. R \in Rides /\ task[w].pc = "lock" /\ lock[R] = 0
    BY DEF Acquire, IInv, TypeOK, AsksSomebody
  <1>2. \A v \in Tasks : task'[v] = IF v = w THEN t ELSE task[v]
    BY DEF Acquire, Goto, IInv, TypeOK
  <1>3. t.pc = "search" /\ t.ride = R
    BY DEF IInv, TypeOK, TaskStates
  <1>4. UNCHANGED <<offer, disturbed>>
    BY DEF Acquire
  <1>5. \A r \in Rides : lock'[r] = IF r = R THEN LockTTL ELSE lock[r]
    BY <1>1 DEF Acquire, IInv, TypeOK
  <1>6. \A r \in Rides \ {R} : Dispatching(r)' = Dispatching(r) /\ w \notin Dispatching(r)
    BY <1>2, <1>3 DEF Dispatching
  <1>7. R \notin disturbed => Dispatching(R) = {}
    BY <1>1 DEF IInv, LockHeld
  <1>8. R \notin disturbed => Dispatching(R)' = {w}
    BY <1>1, <1>2, <1>3, <1>7 DEF Dispatching, Running
  <1>9. LockHeld'
    <2> SUFFICES ASSUME NEW r \in Rides, r \notin disturbed, NEW v \in Dispatching(r)'
                 PROVE  lock'[r] > 0 /\ \A u \in Dispatching(r)' : u = v
      BY <1>4 DEF LockHeld
    <2>1. CASE r = R
      BY <2>1, <1>5, <1>8, DispatchAssumption
    <2>2. CASE r # R
      BY <2>2, <1>5, <1>6 DEF IInv, LockHeld
    <2> QED
      BY <2>1, <2>2
  <1>10. PendingAsked'
    <2>1. R \notin disturbed => Pending(R) = {}
      BY <1>1, <1>7 DEF IInv, PendingAsked
    <2>2. \A r \in Rides \ {R} : \A v \in Dispatching(r) : task'[v] = task[v]
      BY <1>2, <1>6 DEF Dispatching
    <2>3. \A r \in Rides : Pending(r)' = Pending(r)
      BY <1>4 DEF Pending
    <2> QED
      BY <1>4, <1>6, <2>1, <2>2, <2>3 DEF IInv, PendingAsked
  <1> QED
    BY <1>9, <1>10

\* The dispatch waits for nobody yet, so no offer of its ride is pending but the new one.
LEMMA OfferStep ==
  ASSUME IInv, NEW w \in Tasks, Offer(w), NEW R \in Rides, R = task[w].ride
  PROVE  LockHeld' /\ PendingAsked'
  <1> DEFINE D == Head(task[w].cands)
             t == [task[w] EXCEPT !.pc = "poll", !.left = OfferTTL]
  <1>1. R \in Rides /\ task[w].pc = "offer" /\ task[w].cands # <<>>
    BY DEF Offer, IInv, TypeOK, AsksSomebody
  <1>2. \A v \in Tasks : task'[v] = IF v = w THEN t ELSE task[v]
    BY DEF Offer, IInv, TypeOK
  <1>3. t.pc = "poll" /\ t.ride = R /\ t.cands = task[w].cands /\ t.left = OfferTTL
    BY DEF IInv, TypeOK, TaskStates
  <1>4. UNCHANGED <<lock, disturbed>>
    BY DEF Offer
  <1>5. w \in Dispatching(R) /\ \A r \in Rides : Dispatching(r)' = Dispatching(r)
    <2>1. task[w].pc \in Running /\ t.pc \in Running /\ w \in Dispatching(R)
      BY <1>1, <1>3 DEF Dispatching, Running
    <2> QED
      BY <1>2, <1>3, <2>1, SameDispatchers
  <1>6. LockHeld'
    BY <1>4, <1>5 DEF IInv, LockHeld
  <1>7. \A r \in Rides, d \in Drivers :
           offer'[r][d] = IF r = R /\ d = D THEN [status |-> "pending", left |-> OfferTTL]
                          ELSE offer[r][d]
    BY <1>1 DEF Offer, IInv, TypeOK
  <1>8. R \notin disturbed => Pending(R) = {}
    <2>1. R \notin disturbed => \A v \in Dispatching(R) : v = w
      BY <1>1, <1>5 DEF IInv, LockHeld
    <2> QED
      BY <1>1, <2>1 DEF IInv, PendingAsked
  <1>9. ASSUME NEW r \in Rides, r \notin disturbed, NEW d \in Pending(r)'
        PROVE  \E v \in Dispatching(r)' :
                  /\ task'[v].pc = "poll" /\ d = Head(task'[v].cands)
                  /\ 0 < offer'[r][d].left /\ offer'[r][d].left <= task'[v].left
    <2>1. d \in Drivers
      BY DEF Pending
    <2>2. CASE r = R
      <3>1. d = D
        BY <1>7, <1>8, <1>9, <2>1, <2>2 DEF Pending
      <3>2. offer'[r][d].left = OfferTTL
        BY <1>7, <2>1, <2>2, <3>1
      <3>3. task'[w].pc = "poll" /\ task'[w].cands = task[w].cands /\ task'[w].left = OfferTTL
        BY <1>2, <1>3
      <3> QED
        BY <1>5, <2>2, <3>1, <3>2, <3>3, DispatchAssumption
    <2>3. CASE r # R
      <3>1. d \in Pending(r) /\ offer'[r][d] = offer[r][d]
        BY <1>7, <1>9, <2>1, <2>3 DEF Pending
      <3>2. \A v \in Dispatching(r) : task'[v] = task[v]
        BY <1>2, <2>3 DEF Dispatching
      <3> QED
        BY <1>5, <1>9, <3>1, <3>2 DEF IInv, PendingAsked
    <2> QED
      BY <2>2, <2>3
  <1>10. PendingAsked'
    BY <1>4, <1>9 DEF PendingAsked
  <1> QED
    BY <1>6, <1>10

\* The dispatch of an undisturbed ride is alone and waits for nobody any more: after DEL
\* nobody dispatches the ride and none of its offers is pending.
LEMMA ReleaseStep ==
  ASSUME IInv, NEW w \in Tasks, Release(w), NEW R \in Rides, R = task[w].ride
  PROVE  LockHeld' /\ PendingAsked'
  <1>1. R \in Rides /\ task[w].pc = "release" /\ w \in Dispatching(R)
    BY DEF Release, IInv, TypeOK, AsksSomebody, Dispatching, Running
  <1>2. \A v \in Tasks : task'[v] = IF v = w THEN Idle ELSE task[v]
    BY DEF Release, IInv, TypeOK
  <1>3. UNCHANGED <<offer, disturbed>>
    BY DEF Release
  <1>4. \A r \in Rides \ {R} : lock'[r] = lock[r]
    BY DEF Release, IInv, TypeOK
  <1>5. R \notin disturbed => \A v \in Dispatching(R) : v = w
    BY <1>1 DEF IInv, LockHeld
  <1>6. \A r \in Rides \ {R} : Dispatching(r)' = Dispatching(r) /\ w \notin Dispatching(r)
    BY <1>2 DEF Dispatching, Idle, Running
  <1>7. R \notin disturbed => Dispatching(R)' = {}
    BY <1>2, <1>5 DEF Dispatching, Idle, Running
  <1>8. R \notin disturbed => Pending(R) = {}
    BY <1>1, <1>5 DEF IInv, PendingAsked
  <1>9. \A r \in Rides : Pending(r)' = Pending(r)
    BY <1>3 DEF Pending
  <1>10. \A r \in Rides \ {R} : \A v \in Dispatching(r) : task'[v] = task[v]
    BY <1>2, <1>6 DEF Dispatching
  <1>11. LockHeld'
    BY <1>3, <1>4, <1>6, <1>7 DEF IInv, LockHeld
  <1>12. PendingAsked'
    BY <1>3, <1>6, <1>8, <1>9, <1>10 DEF IInv, PendingAsked
  <1> QED
    BY <1>11, <1>12

\* Time passes for the lock and the offers alike: a dispatch that outlives its lock is
\* recorded, and an offer is gone when the wait for it is over.
LEMMA TickStep ==
  ASSUME IInv, Tick PROVE LockHeld' /\ PendingAsked'
  <1>1. \A w \in Tasks : /\ task'[w].pc = task[w].pc /\ task'[w].ride = task[w].ride
                         /\ task'[w].cands = task[w].cands
                         /\ task'[w].left = Less(task[w].left)
    BY DEF Tick, IInv, TypeOK, TaskStates
  <1>2. \A r \in Rides : Dispatching(r)' = Dispatching(r)
    BY <1>1 DEF Dispatching
  <1>3. \A r \in Rides : lock'[r] = Less(lock[r]) /\ lock[r] \in Nat
    BY DispatchAssumption DEF Tick, IInv, TypeOK
  <1>4. \A r \in Rides \ disturbed' : r \notin disturbed /\ (lock[r] = 1 => Dispatching(r) = {})
    BY DEF Tick
  <1>5. LockHeld'
    BY <1>2, <1>3, <1>4 DEF IInv, LockHeld, Less
  <1>6. ASSUME NEW r \in Rides \ disturbed', NEW d \in Pending(r)'
        PROVE  \E v \in Dispatching(r)' :
                  /\ task'[v].pc = "poll" /\ d = Head(task'[v].cands)
                  /\ 0 < offer'[r][d].left /\ offer'[r][d].left <= task'[v].left
    <2>1. d \in Drivers /\ offer'[r][d].status = "pending"
      BY <1>6 DEF Pending
    <2>2. offer[r][d] \in Offers
      BY <2>1 DEF IInv, TypeOK
    <2>3. offer'[r][d] = IF offer[r][d].left <= 1 THEN NoOffer
                         ELSE [offer[r][d] EXCEPT !.left = @ - 1]
      BY <2>1 DEF Tick
    <2>4. /\ offer[r][d].left \in Nat /\ offer[r][d].left > 1
          /\ offer[r][d].status = "pending" /\ offer'[r][d].left = offer[r][d].left - 1
      BY <2>1, <2>2, <2>3, DispatchAssumption DEF Offers, NoOffer
    <2>5. PICK v \in Dispatching(r) :
            /\ task[v].pc = "poll" /\ d = Head(task[v].cands)
            /\ 0 < offer[r][d].left /\ offer[r][d].left <= task[v].left
      BY <1>4, <2>1, <2>4 DEF IInv, PendingAsked, Pending
    <2>6. v \in Tasks /\ task[v].left \in Nat
      BY DispatchAssumption DEF IInv, TypeOK, TaskStates, Dispatching
    <2>7. offer'[r][d].left <= Less(task[v].left) /\ 0 < offer'[r][d].left
      BY <2>4, <2>5, <2>6 DEF Less
    <2> QED
      BY <1>1, <1>2, <2>5, <2>6, <2>7
  <1> QED
    BY <1>5, <1>6 DEF PendingAsked

\* Every step keeps the lock and the offers right.
LEMMA InvStep == IInv /\ [Next]_dispatchVars => IInv'
  <1> SUFFICES ASSUME IInv, [Next]_dispatchVars PROVE LockHeld' /\ PendingAsked'
    BY TypeInvariant DEF IInv
  <1>1. \A w \in Tasks : task[w] \in TaskStates /\ AsksSomebody(task[w])
    BY DEF IInv, TypeOK
  <1>2. ASSUME NEW w \in Tasks, NEW r \in Rides, Requested(w, r) PROVE LockHeld' /\ PendingAsked'
    <2> DEFINE t == [Idle EXCEPT !.pc = "lock", !.ride = r]
    <2>1. t \in TaskStates /\ t.pc \notin Running /\ task[w].pc \notin Running
      BY <1>2, IdleTyped DEF Requested, TaskStates, Idle, Running
    <2>2. task' = [task EXCEPT ![w] = t] /\ UNCHANGED <<lock, offer, disturbed>>
      BY <1>2 DEF Requested, IInv, TypeOK
    <2> QED
      BY <2>1, <2>2, OutsideStep
  <1>3. ASSUME NEW w \in Tasks, Acquire(w) PROVE LockHeld' /\ PendingAsked'
    BY <1>1, <1>3, AcquireStep DEF Acquire, AsksSomebody
  <1>4. ASSUME NEW w \in Tasks, Refused(w) \/ Crash(w) PROVE LockHeld' /\ PendingAsked'
    <2>1. Idle.pc \notin Running
      BY DEF Idle, Running
    <2>2. /\ task' = [task EXCEPT ![w] = Idle] /\ UNCHANGED <<lock, offer>>
          /\ disturbed \subseteq disturbed'
          /\ task[w].pc \in Running => task[w].ride \in disturbed'
      BY <1>4 DEF Refused, Crash, Running
    <2> QED
      BY <2>1, <2>2, IdleTyped, OutsideStep
  <1>5. ASSUME NEW w \in Tasks, Search(w) PROVE LockHeld' /\ PendingAsked'
    <2>1. PICK s \in Rankings :
            task' = [task EXCEPT ![w].pc = IF s = <<>> THEN "release" ELSE "offer",
                                 ![w].cands = s]
      BY <1>5 DEF Search
    <2> DEFINE t == [task[w] EXCEPT !.pc = IF s = <<>> THEN "release" ELSE "offer",
                                    !.cands = s]
    <2>2. s \in Seq(Drivers)
      BY RankingTyped DEF IInv
    <2>3. t \in TaskStates /\ t.pc \in Running /\ t.ride = task[w].ride
      BY <1>1, <2>2 DEF TaskStates, Running
    <2>4. task' = [task EXCEPT ![w] = t]
      BY <2>1 DEF IInv, TypeOK
    <2>5. task[w].pc = "search" /\ UNCHANGED <<lock, offer, disturbed>>
      BY <1>5 DEF Search
    <2>6. task[w].pc \in Running /\ task[w].pc # "poll"
      BY <2>5 DEF Running
    <2> HIDE DEF t
    <2> QED
      BY <2>3, <2>4, <2>5, <2>6, QuietStep
  <1>6. ASSUME NEW w \in Tasks, Offer(w) PROVE LockHeld' /\ PendingAsked'
    BY <1>1, <1>6, OfferStep DEF Offer, AsksSomebody
  <1>7. ASSUME NEW w \in Tasks, Poll(w) PROVE LockHeld' /\ PendingAsked'
    <2>1. PICK pc \in {"release", "next"} : Goto(w, pc)
      BY <1>7 DEF Poll
    <2> DEFINE t == [task[w] EXCEPT !.pc = pc]
    <2>2. t \in TaskStates /\ t.pc \in Running /\ t.ride = task[w].ride
      BY <1>1 DEF TaskStates, Running
    <2>3. task' = [task EXCEPT ![w] = t]
      BY <2>1 DEF Goto, IInv, TypeOK
    <2>4. /\ task[w].pc = "poll" /\ UNCHANGED <<lock, offer, disturbed>>
          /\ offer[task[w].ride][Head(task[w].cands)].status # "pending" \/ task[w].left = 0
      BY <1>7 DEF Poll, Answer
    <2>5. task[w].pc \in Running
      BY <2>4 DEF Running
    <2> HIDE DEF t
    <2> QED
      BY <2>2, <2>3, <2>4, <2>5, QuietStep
  <1>8. ASSUME NEW w \in Tasks, NextDriver(w) PROVE LockHeld' /\ PendingAsked'
    <2> DEFINE c == task[w].cands
               t == [task[w] EXCEPT !.pc = IF Len(c) = 1 THEN "release" ELSE "offer",
                                    !.cands = Tail(c), !.left = 0]
    <2>1. task[w].pc = "next" /\ UNCHANGED <<lock, disturbed>> /\ task[w].ride \in Rides
      BY <1>1, <1>8 DEF NextDriver, AsksSomebody
    <2>2. Tail(c) \in Seq(Drivers)
      BY <1>1, <2>1, ListTyped DEF TaskStates, AsksSomebody
    <2>3. t \in TaskStates /\ t.pc \in Running /\ t.ride = task[w].ride
      BY <1>1, <2>2, Times DEF TaskStates, Running
    <2>4. task' = [task EXCEPT ![w] = t]
      BY <1>8 DEF NextDriver, IInv, TypeOK
    <2>5. \A r \in Rides : \A d \in Drivers :
             offer'[r][d] = offer[r][d] \/ offer'[r][d] = NoOffer
      BY <1>8 DEF NextDriver, IInv, TypeOK
    <2>6. task[w].pc \in Running /\ task[w].pc # "poll"
      BY <2>1 DEF Running
    <2> HIDE DEF t
    <2> QED
      BY <2>1, <2>3, <2>4, <2>5, <2>6, QuietStep
  <1>9. ASSUME NEW w \in Tasks, Release(w) PROVE LockHeld' /\ PendingAsked'
    BY <1>1, <1>9, ReleaseStep DEF Release, AsksSomebody
  <1>10. ASSUME NEW w \in Tasks, Throw(w) PROVE LockHeld' /\ PendingAsked'
    <2> DEFINE t == [task[w] EXCEPT !.pc = "release"]
    <2>1. t \in TaskStates /\ t.pc \in Running /\ t.ride = task[w].ride
      BY <1>1 DEF TaskStates, Running
    <2>2. /\ task' = [task EXCEPT ![w] = t] /\ task[w].pc \in Running
          /\ task[w].ride \in disturbed' /\ disturbed \subseteq disturbed'
          /\ UNCHANGED <<lock, offer>>
      BY <1>10 DEF Throw, Goto, IInv, TypeOK
    <2> HIDE DEF t
    <2> QED
      BY <2>1, <2>2, QuietStep
  <1>11. ASSUME NEW d \in Drivers, LocationIndexed(d) \/ MetaWritten(d)
         PROVE  LockHeld' /\ PendingAsked'
    BY <1>11 DEF LocationIndexed, MetaWritten, IInv, LockHeld, PendingAsked, Dispatching, Pending
  <1>12. ASSUME NEW r \in Rides, NEW d \in Drivers, DriverAnswers(r, d)
         PROVE  LockHeld' /\ PendingAsked'
    <2>1. UNCHANGED <<lock, task, disturbed>>
      BY <1>12 DEF DriverAnswers
    <2>2. \A q \in Rides, e \in Drivers :
             offer'[q][e] = offer[q][e] \/ offer'[q][e].status \in {"accepted", "rejected"}
      BY <1>12 DEF DriverAnswers, IInv, TypeOK, Offers
    <2>3. \A q \in Rides : \A e \in Pending(q)' : e \in Pending(q) /\ offer'[q][e] = offer[q][e]
      BY <2>2 DEF Pending
    <2>4. \A q \in Rides : Dispatching(q)' = Dispatching(q)
      BY <2>1 DEF Dispatching
    <2>5. LockHeld'
      BY <2>1, <2>4 DEF IInv, LockHeld
    <2>6. PendingAsked'
      BY <2>1, <2>3, <2>4 DEF IInv, PendingAsked
    <2> QED
      BY <2>5, <2>6
  <1>13. CASE Tick
    BY <1>13, TickStep
  <1>14. CASE UNCHANGED dispatchVars
    BY <1>14 DEF dispatchVars, IInv, LockHeld, PendingAsked, Dispatching, Pending
  <1> QED
    BY <1>2, <1>3, <1>4, <1>5, <1>6, <1>7, <1>8, <1>9, <1>10, <1>11, <1>12, <1>13, <1>14
    DEF Next, Step

\* At most one dispatch, and the offer it waits for.
LEMMA InvImpliesOne == IInv => OneOfferAtATime
  <1> SUFFICES ASSUME IInv, NEW r \in Rides \ disturbed
               PROVE  /\ \A w1, w2 \in Dispatching(r) : w1 = w2
                      /\ \A d1, d2 \in Pending(r) : d1 = d2
    BY DEF OneOfferAtATime
  <1>1. \A w1, w2 \in Dispatching(r) : w1 = w2
    BY DEF IInv, LockHeld
  <1>2. \A d \in Pending(r) : \E w \in Dispatching(r) : d = Head(task[w].cands)
    BY DEF IInv, PendingAsked
  <1> QED
    BY <1>1, <1>2

-----------------------------------------------------------------------------

\* DispatchService keeps its types: the lists of drivers it goes through are never used
\* when they are empty and never longer than MAX_DRIVER_ATTEMPTS.
THEOREM TypeCorrect == Spec => []TypeOK
  <1>1. Init => TypeOK
    BY InitInv DEF IInv
  <1> QED
    BY <1>1, TypeInvariant, PTL DEF Spec

\* dispatchWithLock and waterfallOffer: a ride is dispatched once at a time and one driver
\* at a time is asked, unless a dispatch of it failed, died or outlived its lock.
THEOREM OneOfferTheorem == Spec => []OneOfferAtATime
  BY InitInv, InvStep, InvImpliesOne, PTL DEF Spec
=============================================================================
