------------------------- MODULE NotificationsProof -------------------------
(***************************************************************************)
(* Proofs about Notifications for every set of users, connections and      *)
(* requests, and any number of rows, attempts and failures: typing, the    *)
(* job of a row that waits, and what delivered means on the socket.        *)
(***************************************************************************)
EXTENDS Notifications, SequenceTheorems, WellFoundedInduction, TLAPS

Waiting == {"queued", "scheduled"}
Sending == {"count", "save", "skip", "queue", "jobId", "bulk", "addBulk"}
Adding == {"queue", "jobId", "addBulk"}
Cancelling == {"remove", "cancel"}

\* What a request knows by the place it is at: the row it works on is there, and has
\* the id of its job only once the job was added.
Knows(w) ==
    /\ w.pc \in Sending => w.todo # <<>>
    /\ w.pc = "bulk" => w.user \in Users /\ Head(w.todo).to = "user"
    /\ w.pc \in Adding \cup Cancelling => w.id \in Ids /\ row[w.id].status # "absent"
    /\ w.pc \in Adding => ~row[w.id].queueJobId
    /\ w.pc \in Cancelling => row[w.id].queueJobId
    /\ w.pc = "cancel" => ~Live(w.id)

KnowsOK == \A h \in Handlers : Knows(work[h])

\* One request adds the job of a row.
AddsFor(w, i) == w.pc \in Adding /\ w.id = i
OneAdds == \A g, h \in Handlers : \A i \in Ids : AddsFor(work[g], i) /\ AddsFor(work[h], i) => g = h

\* A request is about to add the job of i, or to cancel it.
Attends(w, i) == w.id = i /\ w.pc \in {"queue", "addBulk", "cancel"}
Attended(i) == \E h \in Handlers : Attends(work[h], i)

\* The user of i had a connection, or one is counted that is none.
Reached(i) == i \in past.reached \/ row[i].user \in past.leaked

RowOK(i) ==
    /\ row[i].status \in Waiting /\ i \notin past.cut => Live(i) \/ Attended(i)
    /\ row[i].status = "cancelled" => ~Live(i) /\ row[i].queueJobId
    /\ Live(i) => row[i].status # "absent"
    /\ job[i].state = "send" /\ row[i].channel = "in_app" => row[i].status \notin Waiting
    /\ job[i].state = "log" /\ row[i].channel \notin ByProvider => row[i].status \notin Waiting
    /\ job[i].state = "update" /\ row[i].channel = "websocket" /\ job[i].ok => Reached(i)
    /\ row[i].status = "delivered" /\ row[i].channel = "websocket" => Reached(i)

RowsOK == \A i \in Ids : RowOK(i)

\* A connection that is counted is open, or was counted after it closed.
SocketsOK == \A s \in userSockets : socket[s] = "on" \/ Owner[s] \in past.leaked

Typed == TypeOK /\ row \in [Ids -> Row \cup {NoRow}]

IInv == Typed /\ KnowsOK /\ OneAdds /\ RowsOK /\ SocketsOK

-----------------------------------------------------------------------------
(* What is typed *)

\* A request at rest.
LEMMA IdleLocal == Idle \in Local /\ Idle.pc = "idle" /\ Knows(Idle)
  <1>1. <<>> \in Seq(Notice)
    BY EmptySeq
  <1>2. Idle \in Local
    BY <1>1 DEF Idle, Local, Pcs
  <1> QED
    BY <1>2 DEF Idle, Knows, Sending, Adding, Cancelling

\* The notices of the events are sequences of notices, none empty.
LEMMA NoticesTyped == \A todo \in Notices : todo \in Seq(Notice) /\ todo # <<>>
  <1>1. \A c \in NotificationChannel, who \in {"user", "other", "nobody"} :
           To(c, who) \in Notice /\ To(c, who).to = who
    BY DEF To, Notice
  <1>2. push \in Notice /\ inApp \in Notice /\ To("push", "other") \in Notice
        /\ To("push", "nobody") \in Notice /\ To("websocket", "user") \in Notice
        /\ To("sms", "user") \in Notice
    BY <1>1 DEF push, inApp, NotificationChannel
  <1>3. [To("sms", "user") EXCEPT !.addressed = TRUE] \in Notice
    BY <1>2 DEF Notice
  <1> PICK p, a, o, n, s, w : p = push /\ a = inApp /\ o = To("push", "other") /\ n = To("push", "nobody")
        /\ s = To("websocket", "user") /\ w = [To("sms", "user") EXCEPT !.addressed = TRUE]
    OBVIOUS
  <1>4. p \in Notice /\ a \in Notice /\ o \in Notice /\ n \in Notice /\ s \in Notice /\ w \in Notice
    BY <1>2, <1>3
  <1>5. Notices \subseteq { <<p, a>>, <<p>>, <<p, o>>, <<n>>, <<a, s>>, <<w, a>> }
    BY DEF Notices, RideNotices, RepricedNotices, DeliveryNotices, MoneyNotices, AccountNotices,
           WelcomeNotices, KycNotices
  <1>6. /\ <<p, a>> \in Seq(Notice) /\ <<p>> \in Seq(Notice) /\ <<p, o>> \in Seq(Notice)
        /\ <<n>> \in Seq(Notice) /\ <<a, s>> \in Seq(Notice) /\ <<w, a>> \in Seq(Notice)
    BY <1>4
  <1>7. /\ <<p, a>> # <<>> /\ <<p>> # <<>> /\ <<p, o>> # <<>> /\ <<n>> # <<>> /\ <<a, s>> # <<>>
        /\ <<w, a>> # <<>>
    OBVIOUS
  <1> QED
    BY <1>5, <1>6, <1>7

\* The next id is the first that is free.
LEMMA NextIdFree == ASSUME Free # {} PROVE NextId \in Ids /\ row[NextId].status = "absent"
  <1>1. MaxRows \in Nat
    BY NotificationsAssumption DEF NotificationsAssumption
  <1>2. PICK n \in Free : TRUE
    OBVIOUS
  <1>3. Free \subseteq Nat
    BY <1>1 DEF Free, Ids
  <1>4. \E i \in Free : \A j \in Free : i <= j
    <2>1. PICK i \in Free : \A j \in Free : <<j, i>> \notin OpToRel(<, Nat)
      BY <1>2, <1>3, NatLessThanWellFounded, WFMin, Zenon
    <2>2. \A j, k \in Nat : j < k => <<j, k>> \in OpToRel(<, Nat)
      BY Zenon DEF OpToRel
    <2>3. \A j \in Free : ~(j < i)
      BY <1>3, <2>1, <2>2
    <2> QED
      BY <1>3, <2>3
  <1>5. NextId \in Free
    BY <1>4 DEF NextId
  <1> QED
    BY <1>5 DEF Free

\* A row that is there is a row of the table, one that is not has no job's id.
LEMMA RowTyped ==
  ASSUME Typed, NEW i \in Ids
  PROVE  /\ row[i].status # "absent" => row[i] \in Row
         /\ row[i].status = "absent" => row[i] = NoRow /\ ~row[i].queueJobId
         /\ row[i].queueJobId \in BOOLEAN
  <1>1. row[i] \in Row \/ row[i] = NoRow
    BY DEF Typed
  <1>2. CASE row[i] \in Row
    <2>1. row[i].status \in NotificationStatus /\ row[i].queueJobId \in BOOLEAN
      BY <1>2 DEF Row
    <2>2. row[i].status # "absent"
      BY <2>1 DEF NotificationStatus
    <2> QED
      BY <1>2, <2>1, <2>2
  <1>3. CASE row[i] = NoRow
    BY <1>3 DEF NoRow
  <1> QED
    BY <1>1, <1>2, <1>3

\* The notice in hand, and the user it is for.
LEMMA NowTyped ==
  ASSUME Typed, NEW h \in Handlers, work[h].todo # <<>>
  PROVE  Now(h) \in Notice /\ For(h) \in Users \cup {None}
  <1>1. work[h] \in Local
    BY DEF Typed, TypeOK
  <1>2. work[h].todo \in Seq(Notice) /\ work[h].user \in Users \cup {None} /\ work[h].other \in Users \cup {None}
    BY <1>1 DEF Local
  <1>3. Now(h) \in Notice
    BY <1>2, HeadTailProperties DEF Now
  <1> QED
    BY <1>2, <1>3 DEF For

\* The row a notice is given is a row of the table.
LEMMA NewRowTyped ==
  ASSUME Typed, NEW h \in Handlers, work[h].todo # <<>>, For(h) # None, NEW status \in NotificationStatus
  PROVE  /\ NewRow(h, status) \in Row
         /\ NewRow(h, status).status = status /\ ~NewRow(h, status).queueJobId
  <1>1. Now(h) \in Notice /\ For(h) \in Users
    BY NowTyped
  <1>2. Now(h).channel \in NotificationChannel /\ Now(h).addressed \in BOOLEAN
    BY <1>1 DEF Notice
  <1> QED
    BY <1>1, <1>2 DEF NewRow, Row

\* One less than a number above one is not zero.
LEMMA OneLess ==
  ASSUME NEW n \in Nat, ~(n <= 1)
  PROVE  n - 1 # 0
  OBVIOUS

\* What follows the first of two notices or more is not empty.
LEMMA LongerHasTail ==
  ASSUME NEW s \in Seq(Notice), ~(Len(s) <= 1)
  PROVE  Tail(s) # <<>>
  <1>1. Len(s) \in Nat
    BY LenProperties
  <1>2. Len(s) - 1 # 0
    BY <1>1, OneLess
  <1>3. s # <<>>
    BY <1>1, EmptySeq
  <1>4. Len(Tail(s)) = Len(s) - 1
    BY <1>3, HeadTailProperties
  <1> QED
    BY <1>2, <1>4, Len(<<>>) = 0

\* A request that goes on is at rest, or at its next notice.
LEMMA AdvanceTyped ==
  ASSUME Typed, NEW h \in Handlers, Advance(h)
  PROVE  \E w \in Local : /\ work' = [work EXCEPT ![h] = w]
                          /\ w.pc \in {"idle", "count"} /\ (w.pc = "count" => w.todo # <<>>)
  <1>1. CASE Len(work[h].todo) <= 1
    BY <1>1, IdleLocal DEF Advance, End
  <1>2. CASE ~(Len(work[h].todo) <= 1)
    <2> PICK v : v = work[h]
      OBVIOUS
    <2> DEFINE w == [v EXCEPT !.pc = "count", !.todo = Tail(v.todo), !.id = 0]
    <2>1. v \in Local
      BY DEF Typed, TypeOK
    <2>2. v.todo \in Seq(Notice) /\ Len(v.todo) \in Nat
      BY <2>1, LenProperties DEF Local
    <2>3. v.todo # <<>>
      BY <1>2, <2>2, EmptySeq
    <2>4. Tail(v.todo) \in Seq(Notice) /\ Len(Tail(v.todo)) = Len(v.todo) - 1
      BY <2>2, <2>3, HeadTailProperties
    <2>5. Tail(v.todo) # <<>>
      BY <1>2, <2>2, LongerHasTail
    <2>6. w \in Local
      BY <2>1, <2>4 DEF Local, Pcs
    <2>7. w.pc = "count" /\ w.todo = Tail(v.todo)
      BY <2>1 DEF Local
    <2>8. work' = [work EXCEPT ![h] = w]
      BY <1>2 DEF Advance, Typed, TypeOK
    <2> QED
      BY <2>5, <2>6, <2>7, <2>8
  <1> QED
    BY <1>1, <1>2

-----------------------------------------------------------------------------
(* What keeps the invariant *)

\* A request keeps what it knows while rows stay, keep the ids of their jobs, are given
\* one only by the request that adds it, and no job is added for one that has an id.
LEMMA KnowsKept ==
  ASSUME NEW w \in Local, Knows(w),
         \A i \in Ids : row[i].status # "absent" => row'[i].status # "absent",
         \A i \in Ids : row[i].queueJobId => row'[i].queueJobId,
         \A i \in Ids : row'[i].queueJobId /\ ~row[i].queueJobId => ~AddsFor(w, i),
         \A i \in Ids : row[i].queueJobId /\ ~Live(i) => ~Live(i)'
  PROVE  Knows(w)'
  <1>1. w.pc \in Adding \cup Cancelling => w.id \in Ids
    BY DEF Knows
  <1>2. w.pc \in Adding => ~row'[w.id].queueJobId
    BY <1>1 DEF Knows, AddsFor
  <1>3. w.pc \in Cancelling => row'[w.id].queueJobId
    BY <1>1 DEF Knows
  <1>4. w.pc = "cancel" => ~Live(w.id)'
    BY <1>1 DEF Knows, Cancelling
  <1> QED
    BY <1>1, <1>2, <1>3, <1>4 DEF Knows

\* A row whose job is left alone keeps its invariant, while somebody still attends to it
\* or it was cut.
LEMMA RowKept ==
  ASSUME NEW i \in Ids, RowOK(i), row'[i] = row[i], job'[i] = job[i],
         past.cut \subseteq past'.cut, past.reached \subseteq past'.reached,
         past.leaked \subseteq past'.leaked,
         Attended(i) => Attended(i)' \/ i \in past'.cut \/ Live(i) \/ row[i].status \notin Waiting
  PROVE  RowOK(i)'
  <1>1. Live(i)' = Live(i)
    BY DEF Live
  <1>2. Reached(i) => Reached(i)'
    BY DEF Reached
  <1> QED
    BY <1>1, <1>2 DEF RowOK

\* Who attended to a row still does, when the request that moves did not or goes on.
LEMMA AttendedKept ==
  ASSUME Typed, NEW h \in Handlers, NEW w, work' = [work EXCEPT ![h] = w], NEW i \in Ids,
         Attends(work[h], i) => Attends(w, i), Attended(i)
  PROVE  Attended(i)'
  <1>1. PICK g \in Handlers : Attends(work[g], i)
    BY DEF Attended
  <1>2. work'[h] = w /\ (g # h => work'[g] = work[g])
    BY DEF Typed, TypeOK
  <1>3. Attends(work'[g], i)
    BY <1>1, <1>2 DEF Attends
  <1> QED
    BY <1>3 DEF Attended, Attends

\* A step of a request.
LEMMA RequestStep ==
  ASSUME IInv, NEW h \in Handlers, NEW w \in Local, work' = [work EXCEPT ![h] = w],
         row' \in [Ids -> Row \cup {NoRow}], job' \in [Ids -> Job], UNCHANGED gateway,
         requests' \in 0..MaxRequests, faults' \in 0..MaxFaults, past' \in History,
         past.cut \subseteq past'.cut, past'.reached = past.reached, past'.leaked = past.leaked,
         Knows(w)',
         \A i \in Ids : row[i].status # "absent" => row'[i].status # "absent",
         \A i \in Ids : row[i].queueJobId => row'[i].queueJobId,
         \A i \in Ids : row'[i].queueJobId /\ ~row[i].queueJobId => AddsFor(work[h], i),
         \A i \in Ids : row[i].queueJobId /\ ~Live(i) => ~Live(i)',
         \A i \in Ids : AddsFor(w, i) => AddsFor(work[h], i) \/ row[i].status = "absent",
         \A i \in Ids : \/ /\ row'[i] = row[i] /\ job'[i] = job[i]
                           /\ Attends(work[h], i) => Attends(w, i) \/ i \in past'.cut
                        \/ RowOK(i)'
  PROVE  IInv'
  <1> USE DEF IInv
  <1>1. Typed'
    <2>1. work' \in [Handlers -> Local]
      BY DEF Typed, TypeOK
    <2> QED
      BY <2>1 DEF Typed, TypeOK, gateway
  <1>2. \A g \in Handlers : g # h => work'[g] = work[g]
    BY DEF Typed, TypeOK
  <1>3. work'[h] = w
    BY DEF Typed, TypeOK
  <1>4. \A g \in Handlers : work[g] \in Local /\ Knows(work[g])
    BY DEF Typed, TypeOK, KnowsOK
  <1>5. KnowsOK'
    <2> SUFFICES ASSUME NEW g \in Handlers PROVE Knows(work[g])'
      BY DEF KnowsOK
    <2>1. CASE g = h
      BY <1>3, <2>1 DEF Knows, Live
    <2>2. CASE g # h
      <3> PICK v : v = work[g]
        OBVIOUS
      <3>1. v \in Local /\ Knows(v)
        BY <1>4
      <3>2. \A i \in Ids : row'[i].queueJobId /\ ~row[i].queueJobId => ~AddsFor(v, i)
        BY <2>2 DEF OneAdds
      <3>3. Knows(v)'
        BY <3>1, <3>2, KnowsKept
      <3>4. work'[g] = v
        BY <1>2, <2>2
      <3> QED
        BY <3>3, <3>4 DEF Knows, Live
    <2> QED
      BY <2>1, <2>2
  <1>6. OneAdds'
    <2> SUFFICES ASSUME NEW f \in Handlers, NEW g \in Handlers, NEW i \in Ids, f # g,
                        AddsFor(work'[f], i), AddsFor(work'[g], i)
                 PROVE  FALSE
      BY DEF OneAdds, AddsFor
    <2>1. \A k \in Handlers : AddsFor(work[k], i) => row[i].status # "absent"
      BY <1>4 DEF AddsFor, Knows
    <2>2. CASE f # h /\ g # h
      BY <1>2, <2>2 DEF OneAdds
    <2>3. CASE f = h
      <3>1. AddsFor(work[g], i)
        BY <1>2, <2>3
      <3> QED
        BY <1>3, <2>1, <2>3, <3>1 DEF OneAdds
    <2>4. CASE g = h
      <3>1. AddsFor(work[f], i)
        BY <1>2, <2>4
      <3> QED
        BY <1>3, <2>1, <2>4, <3>1 DEF OneAdds
    <2> QED
      BY <2>2, <2>3, <2>4
  <1>7. RowsOK'
    <2> SUFFICES ASSUME NEW i \in Ids PROVE RowOK(i)'
      BY DEF RowsOK
    <2>1. CASE /\ row'[i] = row[i] /\ job'[i] = job[i]
               /\ Attends(work[h], i) => Attends(w, i) \/ i \in past'.cut
      <3>1. RowOK(i)
        BY DEF RowsOK
      <3>2. Attended(i) => Attended(i)' \/ i \in past'.cut
        BY <2>1, AttendedKept
      <3> QED
        BY <2>1, <3>1, <3>2, RowKept
    <2> QED
      BY <2>1
  <1>8. SocketsOK'
    BY DEF SocketsOK, gateway
  <1> QED
    BY <1>1, <1>5, <1>6, <1>7, <1>8

\* A step of a request that writes no row and no job.
LEMMA RequestMoves ==
  ASSUME IInv, NEW h \in Handlers, NEW w \in Local, work' = [work EXCEPT ![h] = w],
         UNCHANGED <<row, job, gateway>>,
         requests' \in 0..MaxRequests, faults' \in 0..MaxFaults, past' \in History,
         past.cut \subseteq past'.cut, past'.reached = past.reached, past'.leaked = past.leaked,
         Knows(w), w.pc \notin Adding,
         \A i \in Ids : Attends(work[h], i) => i \in past'.cut
  PROVE  IInv'
  <1>1. row' \in [Ids -> Row \cup {NoRow}] /\ job' \in [Ids -> Job]
    BY DEF IInv, Typed, TypeOK
  <1>2. Knows(w)'
    BY DEF Knows, Live
  <1>3. \A i \in Ids : ~AddsFor(w, i)
    BY DEF AddsFor
  <1>4. \A i \in Ids : Live(i)' = Live(i)
    BY DEF Live
  <1>5. UNCHANGED gateway
    OBVIOUS
  <1> QED
    BY <1>1, <1>2, <1>3, <1>4, <1>5, RequestStep

\* A step of a worker, or of the user: the requests stand still.
LEMMA SystemStep ==
  ASSUME IInv, UNCHANGED <<work, requests>>,
         row' \in [Ids -> Row \cup {NoRow}], job' \in [Ids -> Job],
         faults' \in 0..MaxFaults, past' \in History, UNCHANGED gateway,
         past.cut \subseteq past'.cut, past.reached \subseteq past'.reached, past'.leaked = past.leaked,
         \A i \in Ids : row[i].status # "absent" => row'[i].status # "absent",
         \A i \in Ids : row'[i].queueJobId = row[i].queueJobId,
         \A i \in Ids : ~Live(i) => ~Live(i)',
         \A i \in Ids : (row'[i] = row[i] /\ job'[i] = job[i]) \/ RowOK(i)'
  PROVE  IInv'
  <1> USE DEF IInv
  <1>1. Typed'
    BY DEF Typed, TypeOK, gateway
  <1>2. KnowsOK'
    <2> SUFFICES ASSUME NEW g \in Handlers PROVE Knows(work[g])'
      BY DEF KnowsOK
    <2> PICK v : v = work[g]
      OBVIOUS
    <2>1. v \in Local /\ Knows(v)
      BY DEF Typed, TypeOK, KnowsOK
    <2>2. Knows(v)'
      BY <2>1, KnowsKept
    <2>3. work'[g] = v
      OBVIOUS
    <2> QED
      BY <2>2, <2>3 DEF Knows, Live
  <1>3. OneAdds'
    BY DEF OneAdds, AddsFor
  <1>4. RowsOK'
    <2> SUFFICES ASSUME NEW i \in Ids PROVE RowOK(i)'
      BY DEF RowsOK
    <2>1. CASE row'[i] = row[i] /\ job'[i] = job[i]
      <3>1. RowOK(i)
        BY DEF RowsOK
      <3>2. Attended(i) => Attended(i)'
        BY DEF Attended, Attends
      <3> QED
        BY <2>1, <3>1, <3>2, RowKept
    <2> QED
      BY <2>1
  <1>5. SocketsOK'
    BY DEF SocketsOK, gateway
  <1> QED
    BY <1>1, <1>2, <1>3, <1>4, <1>5

-----------------------------------------------------------------------------
(* The requests *)

\* A local state put together.
LEMMA LocalTyped ==
  ASSUME NEW pc \in Pcs, NEW todo \in Seq(Notice), NEW u \in Users \cup {None}, NEW o \in Users \cup {None},
         NEW sch \in BOOLEAN, NEW id \in Ids \cup {0}
  PROVE  [pc |-> pc, todo |-> todo, user |-> u, other |-> o, scheduled |-> sch, id |-> id] \in Local
  BY Zenon DEF Local

\* A request that comes in.
LEMMA ReceiveInv ==
  ASSUME IInv, NEW h \in Handlers, NEW w \in Local, Receive(h, w), Knows(w), w.pc \notin Adding
  PROVE  IInv'
  <1>1. requests' \in 0..MaxRequests /\ faults' \in 0..MaxFaults /\ past' \in History
    <2>1. MaxRequests \in Nat
      BY NotificationsAssumption DEF NotificationsAssumption
    <2> QED
      BY <2>1 DEF Receive, IInv, Typed, TypeOK
  <1>2. work' = [work EXCEPT ![h] = w] /\ UNCHANGED <<row, job, gateway>> /\ past' = past
    BY DEF Receive
  <1>3. \A i \in Ids : ~Attends(work[h], i)
    BY DEF Receive, At, Attends
  <1> QED
    BY <1>1, <1>2, <1>3, RequestMoves

\* An event.
LEMMA onEventInv == ASSUME IInv, NEW h \in Handlers, onEvent(h) PROVE IInv'
  <1> PICK todo \in Notices, u \in Users, v \in Users :
          Receive(h, [Idle EXCEPT !.pc = "count", !.todo = todo, !.user = u, !.other = v])
    BY DEF onEvent
  <1> PICK w : w = [Idle EXCEPT !.pc = "count", !.todo = todo, !.user = u, !.other = v]
    OBVIOUS
  <1>1. todo \in Seq(Notice) /\ todo # <<>>
    BY NoticesTyped
  <1>2. w = [pc |-> "count", todo |-> todo, user |-> u, other |-> v, scheduled |-> FALSE, id |-> 0]
    BY DEF Idle
  <1>3. w \in Local
    <2>1. "count" \in Pcs /\ u \in Users \cup {None} /\ v \in Users \cup {None} /\ FALSE \in BOOLEAN
          /\ 0 \in Ids \cup {0}
      BY DEF Pcs
    <2>2. [pc |-> "count", todo |-> todo, user |-> u, other |-> v, scheduled |-> FALSE, id |-> 0] \in Local
      BY <1>1, <1>2, <2>1, LocalTyped
    <2> QED
      BY <1>2, <2>2
  <1>4. Knows(w) /\ w.pc \notin Adding
    BY <1>1, <1>2 DEF Knows, Sending, Adding, Cancelling
  <1> QED
    BY <1>3, <1>4, ReceiveInv

\* A notification of an administrator.
LEMMA sendDirectInv == ASSUME IInv, NEW h \in Handlers, sendDirect(h) PROVE IInv'
  <1> PICK dto \in SendNotificationDto :
          Receive(h, [Idle EXCEPT !.pc = "count", !.user = dto.userId, !.scheduled = dto.scheduled,
                                  !.todo = <<[To(dto.channel, "user") EXCEPT !.addressed = dto.addressed]>>])
    BY DEF sendDirect
  <1> PICK n : n = [To(dto.channel, "user") EXCEPT !.addressed = dto.addressed]
    OBVIOUS
  <1> PICK w : w = [Idle EXCEPT !.pc = "count", !.user = dto.userId, !.scheduled = dto.scheduled, !.todo = <<n>>]
    OBVIOUS
  <1>1. dto.channel \in NotificationChannel /\ dto.addressed \in BOOLEAN /\ dto.userId \in Users
        /\ dto.scheduled \in BOOLEAN
    BY NotificationsAssumption DEF NotificationsAssumption, SendNotificationDto
  <1>2. n \in Notice
    BY <1>1 DEF To, Notice
  <1>3. <<n>> \in Seq(Notice) /\ <<n>> # <<>>
    BY <1>2
  <1>4. w = [pc |-> "count", todo |-> <<n>>, user |-> dto.userId, other |-> None,
             scheduled |-> dto.scheduled, id |-> 0]
    BY DEF Idle
  <1>5. w \in Local
    <2>1. "count" \in Pcs /\ dto.userId \in Users \cup {None} /\ None \in Users \cup {None}
          /\ 0 \in Ids \cup {0}
      BY <1>1 DEF Pcs
    <2>2. [pc |-> "count", todo |-> <<n>>, user |-> dto.userId, other |-> None,
           scheduled |-> dto.scheduled, id |-> 0] \in Local
      BY <1>1, <1>3, <1>4, <2>1, LocalTyped
    <2> QED
      BY <1>4, <2>2
  <1>6. Knows(w) /\ w.pc \notin Adding
    BY <1>3, <1>4 DEF Knows, Sending, Adding, Cancelling
  <1> QED
    BY <1>5, <1>6, ReceiveInv

\* A batch of a broadcast.
LEMMA sendBatchInv == ASSUME IInv, NEW h \in Handlers, sendBatch(h) PROVE IInv'
  <1> PICK c \in Channels, u \in Users :
          Receive(h, [Idle EXCEPT !.pc = "bulk", !.user = u, !.todo = <<To(c, "user")>>])
    BY DEF sendBatch
  <1> PICK n : n = To(c, "user")
    OBVIOUS
  <1> PICK w : w = [Idle EXCEPT !.pc = "bulk", !.user = u, !.todo = <<n>>]
    OBVIOUS
  <1>1. n \in Notice /\ n.to = "user"
    BY NotificationsAssumption DEF NotificationsAssumption, To, Notice
  <1>2. <<n>> \in Seq(Notice) /\ <<n>> # <<>> /\ Head(<<n>>) = n
    BY <1>1
  <1>3. w = [pc |-> "bulk", todo |-> <<n>>, user |-> u, other |-> None, scheduled |-> FALSE, id |-> 0]
    BY DEF Idle
  <1>4. w \in Local
    <2>1. "bulk" \in Pcs /\ u \in Users \cup {None} /\ None \in Users \cup {None} /\ FALSE \in BOOLEAN
          /\ 0 \in Ids \cup {0}
      BY DEF Pcs
    <2>2. [pc |-> "bulk", todo |-> <<n>>, user |-> u, other |-> None, scheduled |-> FALSE, id |-> 0] \in Local
      BY <1>2, <1>3, <2>1, LocalTyped
    <2> QED
      BY <1>3, <2>2
  <1>5. Knows(w) /\ w.pc \notin Adding
    BY <1>1, <1>2, <1>3 DEF Knows, Sending, Adding, Cancelling
  <1> QED
    BY <1>4, <1>5, ReceiveInv

\* A cancellation reads the row.
LEMMA cancelScheduledInv == ASSUME IInv, NEW h \in Handlers, cancelScheduled(h) PROVE IInv'
  <1> PICK i \in Ids : row[i].queueJobId /\ Receive(h, [Idle EXCEPT !.pc = "remove", !.id = i])
    BY DEF cancelScheduled
  <1> PICK w : w = [Idle EXCEPT !.pc = "remove", !.id = i]
    OBVIOUS
  <1>1. row[i].status # "absent"
    BY RowTyped DEF IInv
  <1>2. <<>> \in Seq(Notice)
    BY EmptySeq
  <1>3. w = [pc |-> "remove", todo |-> <<>>, user |-> None, other |-> None, scheduled |-> FALSE, id |-> i]
    BY DEF Idle
  <1>4. w \in Local
    <2>1. "remove" \in Pcs /\ None \in Users \cup {None} /\ FALSE \in BOOLEAN /\ i \in Ids \cup {0}
      BY DEF Pcs
    <2>2. [pc |-> "remove", todo |-> <<>>, user |-> None, other |-> None, scheduled |-> FALSE, id |-> i] \in Local
      BY <1>2, <1>3, <2>1, LocalTyped
    <2> QED
      BY <1>3, <2>2
  <1>5. Knows(w) /\ w.pc \notin Adding
    BY <1>1, <1>3 DEF Knows, Sending, Adding, Cancelling
  <1> QED
    BY <1>4, <1>5, ReceiveInv

\* The rate limit, full or not.
LEMMA consumeInv == ASSUME IInv, NEW h \in Handlers, consume(h) PROVE IInv'
  <1> PICK v : v = work[h]
    OBVIOUS
  <1> PICK pc \in {"save", "skip"} : Goto(h, pc)
    BY DEF consume
  <1> PICK w : w = [v EXCEPT !.pc = pc]
    OBVIOUS
  <1>1. v \in Local /\ Knows(v) /\ v.pc = "count"
    BY DEF IInv, Typed, TypeOK, KnowsOK, consume, At
  <1>2. w \in Local
    BY <1>1 DEF Local, Pcs
  <1>3. w.pc = pc /\ w.todo = v.todo
    BY <1>1 DEF Local
  <1>4. Knows(w) /\ w.pc \notin Adding
    BY <1>1, <1>3 DEF Knows, Sending, Adding, Cancelling
  <1>5. work' = [work EXCEPT ![h] = w]
    BY DEF Goto, IInv, Typed, TypeOK
  <1>6. \A i \in Ids : ~Attends(work[h], i)
    BY <1>1 DEF Attends
  <1>7. requests' \in 0..MaxRequests /\ faults' \in 0..MaxFaults /\ past' \in History
        /\ past' = past /\ UNCHANGED <<row, job, gateway>>
    BY DEF consume, IInv, Typed, TypeOK
  <1> QED
    BY <1>2, <1>4, <1>5, <1>6, <1>7, RequestMoves

\* A row is inserted: at an id that is free, by a request that then attends to it
\* unless the row does not wait.
LEMMA Inserted ==
  ASSUME IInv, NEW h \in Handlers, NEW w \in Local, work' = [work EXCEPT ![h] = w], Free # {},
         NEW r \in Row, row' = [row EXCEPT ![NextId] = r], ~r.queueJobId,
         r.status \in {"queued", "scheduled", "failed"},
         UNCHANGED <<job, gateway, requests, faults, past>>,
         \A i \in Ids : ~Attends(work[h], i),
         \/ w.pc \in {"idle", "count"} /\ r.status = "failed"
         \/ w.pc \in {"queue", "addBulk"} /\ w.id = NextId,
         w.pc \in Sending => w.todo # <<>>
  PROVE  IInv'
  <1> PICK n : n = NextId
    OBVIOUS
  <1>1. n \in Ids /\ row[n].status = "absent" /\ ~row[n].queueJobId
    BY NextIdFree, RowTyped DEF IInv
  <1>2. row' \in [Ids -> Row \cup {NoRow}] /\ job' \in [Ids -> Job] /\ requests' \in 0..MaxRequests
        /\ faults' \in 0..MaxFaults /\ past' \in History
    BY <1>1 DEF IInv, Typed, TypeOK
  <1>3. row'[n] = r /\ \A i \in Ids : i # n => row'[i] = row[i]
    BY <1>1 DEF IInv, Typed
  <1>4. \A i \in Ids : Live(i)' = Live(i)
    BY DEF Live
  <1>5. Knows(w)'
    BY <1>1, <1>3 DEF Knows, Sending, Adding, Cancelling
  <1>6. RowOK(n) /\ ~Live(n)
    BY <1>1 DEF IInv, RowsOK, RowOK
  <1>7. job'[n].state = "none"
    BY <1>6 DEF Live
  <1>8. r.status \in Waiting => Attended(n)'
    <2>1. work'[h] = w
      BY DEF IInv, Typed, TypeOK
    <2> QED
      BY <2>1 DEF Attended, Attends, Waiting
  <1>9. RowOK(n)'
    BY <1>3, <1>7, <1>8 DEF RowOK, Live
  <1>10. \A i \in Ids : \/ /\ row'[i] = row[i] /\ job'[i] = job[i]
                           /\ Attends(work[h], i) => Attends(w, i) \/ i \in past'.cut
                        \/ RowOK(i)'
    BY <1>3, <1>9
  <1>11. \A i \in Ids : AddsFor(w, i) => AddsFor(work[h], i) \/ row[i].status = "absent"
    BY <1>1 DEF AddsFor, Adding
  <1>12. /\ \A i \in Ids : row[i].status # "absent" => row'[i].status # "absent"
         /\ \A i \in Ids : row[i].queueJobId => row'[i].queueJobId
         /\ \A i \in Ids : row'[i].queueJobId /\ ~row[i].queueJobId => AddsFor(work[h], i)
         /\ \A i \in Ids : row[i].queueJobId /\ ~Live(i) => ~Live(i)'
    BY <1>1, <1>3, <1>4
  <1>13. UNCHANGED gateway /\ past' = past
    OBVIOUS
  <1> QED
    BY <1>2, <1>5, <1>10, <1>11, <1>12, <1>13, RequestStep

\* What a request that goes on without writing leads to.
LEMMA GoesOn ==
  ASSUME IInv, NEW h \in Handlers, Advance(h), UNCHANGED <<row, job, gateway>>,
         requests' \in 0..MaxRequests, faults' \in 0..MaxFaults, past' \in History,
         past.cut \subseteq past'.cut, past'.reached = past.reached, past'.leaked = past.leaked,
         \A i \in Ids : Attends(work[h], i) => i \in past'.cut
  PROVE  IInv'
  <1>1. PICK w \in Local : /\ work' = [work EXCEPT ![h] = w]
                           /\ w.pc \in {"idle", "count"} /\ (w.pc = "count" => w.todo # <<>>)
    BY AdvanceTyped DEF IInv
  <1>2. Knows(w) /\ w.pc \notin Adding
    BY <1>1 DEF Knows, Sending, Adding, Cancelling
  <1> QED
    BY <1>1, <1>2, RequestMoves

\* The row of a notification.
LEMMA saveInv == ASSUME IInv, NEW h \in Handlers, save(h) PROVE IInv'
  <1> PICK v : v = work[h]
    OBVIOUS
  <1>1. v \in Local /\ Knows(v) /\ v.pc = "save"
    BY DEF IInv, Typed, TypeOK, KnowsOK, save, At
  <1>2. v.todo # <<>>
    BY <1>1 DEF Knows, Sending
  <1>3. \A i \in Ids : ~Attends(work[h], i)
    BY <1>1 DEF Attends
  <1>4. UNCHANGED <<job, gateway, requests, faults, past>>
    BY DEF save
  <1>5. requests' \in 0..MaxRequests /\ faults' \in 0..MaxFaults /\ past' \in History
    BY <1>4 DEF IInv, Typed, TypeOK
  <1>6. CASE For(h) = None
    <2>1. Advance(h) /\ UNCHANGED <<row, job, gateway>>
      BY <1>4, <1>6 DEF save
    <2> QED
      BY <1>3, <1>4, <1>5, <2>1, GoesOn
  <1>7. CASE For(h) # None
    <2> PICK status : status = IF work[h].scheduled THEN "scheduled" ELSE "queued"
      OBVIOUS
    <2> PICK n : n = NextId
      OBVIOUS
    <2> PICK r : r = NewRow(h, status)
      OBVIOUS
    <2> PICK w : w = [v EXCEPT !.pc = "queue", !.id = n]
      OBVIOUS
    <2>1. Free # {} /\ row' = [row EXCEPT ![n] = r]
          /\ work' = [work EXCEPT ![h].pc = "queue", ![h].id = n]
      BY <1>7 DEF save
    <2>2. status \in {"queued", "scheduled"} /\ status \in NotificationStatus
      BY DEF NotificationStatus
    <2>3. r \in Row /\ ~r.queueJobId /\ r.status = status
      BY <1>2, <1>7, <2>2, NewRowTyped DEF IInv
    <2>4. n \in Ids
      BY <2>1, NextIdFree
    <2>5. w \in Local
      BY <1>1, <2>4 DEF Local, Pcs
    <2>6. w.pc = "queue" /\ w.id = n /\ w.todo = v.todo
      BY <1>1 DEF Local
    <2>7. work' = [work EXCEPT ![h] = w]
      BY <2>1 DEF IInv, Typed, TypeOK
    <2> QED
      BY <1>2, <1>3, <1>4, <2>1, <2>2, <2>3, <2>5, <2>6, <2>7, Inserted
  <1> QED
    BY <1>6, <1>7

\* The row of a notification the limit stopped.
LEMMA saveSkippedInv == ASSUME IInv, NEW h \in Handlers, saveSkipped(h) PROVE IInv'
  <1> PICK v : v = work[h]
    OBVIOUS
  <1>1. v \in Local /\ Knows(v) /\ v.pc = "skip"
    BY DEF IInv, Typed, TypeOK, KnowsOK, saveSkipped, At
  <1>2. v.todo # <<>>
    BY <1>1 DEF Knows, Sending
  <1>3. \A i \in Ids : ~Attends(work[h], i)
    BY <1>1 DEF Attends
  <1>4. UNCHANGED <<job, gateway, requests, faults, past>> /\ Advance(h)
    BY DEF saveSkipped
  <1>5. requests' \in 0..MaxRequests /\ faults' \in 0..MaxFaults /\ past' \in History
    BY <1>4 DEF IInv, Typed, TypeOK
  <1>6. CASE For(h) = None
    <2>1. UNCHANGED <<row, job, gateway>>
      BY <1>4, <1>6 DEF saveSkipped
    <2> QED
      BY <1>3, <1>4, <1>5, <2>1, GoesOn
  <1>7. CASE For(h) # None
    <2> PICK r : r = NewRow(h, "failed")
      OBVIOUS
    <2>1. Free # {} /\ row' = [row EXCEPT ![NextId] = r]
      BY <1>7 DEF saveSkipped
    <2>2. "failed" \in NotificationStatus
      BY DEF NotificationStatus
    <2>3. r \in Row /\ ~r.queueJobId /\ r.status = "failed"
      BY <1>2, <1>7, <2>2, NewRowTyped DEF IInv
    <2>4. PICK w \in Local : /\ work' = [work EXCEPT ![h] = w]
                             /\ w.pc \in {"idle", "count"} /\ (w.pc = "count" => w.todo # <<>>)
      BY <1>4, AdvanceTyped DEF IInv
    <2>5. w.pc \in Sending => w.todo # <<>>
      BY <2>4 DEF Sending
    <2> QED
      BY <1>3, <1>4, <2>1, <2>3, <2>4, <2>5, Inserted
  <1> QED
    BY <1>6, <1>7

\* The row of a notice of a batch.
LEMMA enqueueBulkInv == ASSUME IInv, NEW h \in Handlers, enqueueBulk(h) PROVE IInv'
  <1> PICK v : v = work[h]
    OBVIOUS
  <1>1. v \in Local /\ Knows(v) /\ v.pc = "bulk"
    BY DEF IInv, Typed, TypeOK, KnowsOK, enqueueBulk, At
  <1>2. v.todo # <<>> /\ v.user \in Users /\ Head(v.todo).to = "user"
    BY <1>1 DEF Knows, Sending
  <1>3. For(h) \in Users /\ For(h) # None
    BY <1>2, NotificationsAssumption DEF For, Now, NotificationsAssumption
  <1>4. \A i \in Ids : ~Attends(work[h], i)
    BY <1>1 DEF Attends
  <1> PICK n : n = NextId
    OBVIOUS
  <1> PICK r : r = NewRow(h, "queued")
    OBVIOUS
  <1> PICK w : w = [v EXCEPT !.pc = "addBulk", !.id = n]
    OBVIOUS
  <1>5. Free # {} /\ row' = [row EXCEPT ![n] = r]
        /\ work' = [work EXCEPT ![h].pc = "addBulk", ![h].id = n]
        /\ UNCHANGED <<job, gateway, requests, faults, past>>
    BY DEF enqueueBulk
  <1>6. "queued" \in NotificationStatus
    BY DEF NotificationStatus
  <1>7. r \in Row /\ ~r.queueJobId /\ r.status = "queued"
    BY <1>2, <1>3, <1>6, NewRowTyped DEF IInv
  <1>8. n \in Ids
    BY <1>5, NextIdFree
  <1>9. w \in Local
    BY <1>1, <1>8 DEF Local, Pcs
  <1>10. w.pc = "addBulk" /\ w.id = n /\ w.todo = v.todo
    BY <1>1 DEF Local
  <1>11. work' = [work EXCEPT ![h] = w]
    BY <1>5 DEF IInv, Typed, TypeOK
  <1> QED
    BY <1>2, <1>4, <1>5, <1>7, <1>9, <1>10, <1>11, Inserted

\* A job put together.
LEMMA JobTyped ==
  ASSUME NEW st \in {"none", "delayed", "waiting", "send", "log", "update"}, NEW n \in 1..Attempts,
         NEW ok \in BOOLEAN
  PROVE  [state |-> st, attempt |-> n, ok |-> ok] \in Job
  BY Zenon DEF Job

\* A request adds the job of its row.
LEMMA JobAdded ==
  ASSUME IInv, NEW h \in Handlers, NEW w \in Local, work' = [work EXCEPT ![h] = w],
         work[h].pc \in {"queue", "addBulk"}, NEW state \in {"delayed", "waiting"}, add(work[h].id, state),
         UNCHANGED <<row, gateway, requests, faults, past>>,
         \/ w.pc = "idle"
         \/ w.pc = "jobId" /\ w.id = work[h].id /\ w.todo = work[h].todo
  PROVE  IInv'
  <1> PICK v : v = work[h]
    OBVIOUS
  <1> PICK i : i = v.id
    OBVIOUS
  <1>1. v \in Local /\ Knows(v)
    BY DEF IInv, Typed, TypeOK, KnowsOK
  <1>2. i \in Ids /\ row[i].status # "absent" /\ ~row[i].queueJobId /\ v.todo # <<>>
    BY <1>1 DEF Knows, Adding, Sending
  <1> PICK j : j = [NoJob EXCEPT !.state = state]
    OBVIOUS
  <1>3. j \in Job /\ j.state = state
    <2>1. Attempts \in Nat \ {0}
      BY NotificationsAssumption DEF NotificationsAssumption
    <2>2. 1 \in 1..Attempts
      BY <2>1
    <2>3. j = [state |-> state, attempt |-> 1, ok |-> FALSE]
      BY DEF NoJob
    <2>4. state \in {"none", "delayed", "waiting", "send", "log", "update"}
      OBVIOUS
    <2>5. j \in Job
      BY <2>2, <2>3, <2>4, JobTyped
    <2> QED
      BY <2>3, <2>5
  <1>4. job' = [job EXCEPT ![i] = j]
    BY DEF add
  <1>5. job'[i] = j /\ \A k \in Ids : k # i => job'[k] = job[k]
    BY <1>2, <1>4 DEF IInv, Typed, TypeOK
  <1>6. row' \in [Ids -> Row \cup {NoRow}] /\ job' \in [Ids -> Job] /\ requests' \in 0..MaxRequests
        /\ faults' \in 0..MaxFaults /\ past' \in History
    BY <1>3, <1>4 DEF IInv, Typed, TypeOK
  <1>7. Knows(w)'
    BY <1>2 DEF Knows, Sending, Adding, Cancelling
  <1>8. RowOK(i)
    BY <1>2 DEF IInv, RowsOK
  <1>9. RowOK(i)'
    <2>1. Live(i)' /\ row'[i] = row[i]
      BY <1>3, <1>5 DEF Live
    <2>2. Reached(i)' = Reached(i)
      BY DEF Reached
    <2> QED
      BY <1>2, <1>3, <1>5, <1>8, <2>1, <2>2 DEF RowOK
  <1>10. \A k \in Ids : k # i => ~Attends(work[h], k)
    BY DEF Attends
  <1>11. \A k \in Ids : \/ /\ row'[k] = row[k] /\ job'[k] = job[k]
                           /\ Attends(work[h], k) => Attends(w, k) \/ k \in past'.cut
                        \/ RowOK(k)'
    BY <1>5, <1>9, <1>10
  <1>12. \A k \in Ids : AddsFor(w, k) => AddsFor(work[h], k) \/ row[k].status = "absent"
    BY DEF AddsFor, Adding
  <1>13. \A k \in Ids : row[k].queueJobId /\ ~Live(k) => ~Live(k)'
    BY <1>2, <1>5 DEF Live
  <1>14. UNCHANGED gateway /\ past' = past /\ row' = row
    OBVIOUS
  <1> QED
    BY <1>6, <1>7, <1>11, <1>12, <1>13, <1>14, RequestStep

\* The job of a notification.
LEMMA addJobInv == ASSUME IInv, NEW h \in Handlers, addJob(h) PROVE IInv'
  <1> PICK v : v = work[h]
    OBVIOUS
  <1> PICK w : w = [v EXCEPT !.pc = "jobId"]
    OBVIOUS
  <1>1. v \in Local /\ v.pc = "queue"
    BY DEF IInv, Typed, TypeOK, addJob, At
  <1>2. w \in Local
    BY <1>1 DEF Local, Pcs
  <1>3. w.pc = "jobId" /\ w.id = v.id /\ w.todo = v.todo
    BY <1>1 DEF Local
  <1>4. work' = [work EXCEPT ![h] = w]
    BY DEF addJob, Goto, IInv, Typed, TypeOK
  <1> PICK state : state = IF work[h].scheduled THEN "delayed" ELSE "waiting"
    OBVIOUS
  <1>5. state \in {"delayed", "waiting"} /\ add(work[h].id, state)
        /\ UNCHANGED <<row, gateway, requests, faults, past>>
    BY DEF addJob
  <1> QED
    BY <1>1, <1>2, <1>3, <1>4, <1>5, JobAdded

\* The job of a notice of a batch.
LEMMA addBulkInv == ASSUME IInv, NEW h \in Handlers, addBulk(h) PROVE IInv'
  <1>1. work' = [work EXCEPT ![h] = Idle] /\ work[h].pc = "addBulk" /\ add(work[h].id, "waiting")
        /\ UNCHANGED <<row, gateway, requests, faults, past>>
    BY DEF addBulk, End, At
  <1> QED
    BY <1>1, IdleLocal, JobAdded

\* The id of the job.
LEMMA storeJobIdInv == ASSUME IInv, NEW h \in Handlers, storeJobId(h) PROVE IInv'
  <1> PICK v : v = work[h]
    OBVIOUS
  <1> PICK i : i = v.id
    OBVIOUS
  <1>1. v \in Local /\ Knows(v) /\ v.pc = "jobId"
    BY DEF IInv, Typed, TypeOK, KnowsOK, storeJobId, At
  <1>2. i \in Ids /\ row[i].status # "absent" /\ AddsFor(work[h], i)
    BY <1>1 DEF Knows, Adding, AddsFor
  <1>3. PICK w \in Local : /\ work' = [work EXCEPT ![h] = w]
                           /\ w.pc \in {"idle", "count"} /\ (w.pc = "count" => w.todo # <<>>)
    BY AdvanceTyped DEF IInv, storeJobId
  <1>4. row' = [row EXCEPT ![i].queueJobId = TRUE] /\ UNCHANGED <<job, gateway, requests, faults, past>>
    BY DEF storeJobId
  <1> PICK r : r = row[i]
    OBVIOUS
  <1>5. r \in Row
    BY <1>2, RowTyped DEF IInv
  <1>6. row' = [row EXCEPT ![i] = [r EXCEPT !.queueJobId = TRUE]]
    BY <1>4
  <1>7. [r EXCEPT !.queueJobId = TRUE] \in Row
    BY <1>5 DEF Row
  <1>8. /\ row'[i] = [r EXCEPT !.queueJobId = TRUE]
        /\ \A k \in Ids : k # i => row'[k] = row[k]
    BY <1>2, <1>6 DEF IInv, Typed
  <1>9. row'[i].status = row[i].status /\ row'[i].channel = row[i].channel /\ row'[i].user = row[i].user
        /\ row'[i].queueJobId
    BY <1>5, <1>8 DEF Row
  <1>10. row' \in [Ids -> Row \cup {NoRow}] /\ job' \in [Ids -> Job] /\ requests' \in 0..MaxRequests
         /\ faults' \in 0..MaxFaults /\ past' \in History
    BY <1>2, <1>4, <1>6, <1>7 DEF IInv, Typed, TypeOK
  <1>11. Knows(w)'
    BY <1>3 DEF Knows, Sending, Adding, Cancelling
  <1>12. RowOK(i)'
    <2>1. RowOK(i)
      BY <1>2 DEF IInv, RowsOK
    <2>2. Live(i)' = Live(i) /\ job'[i] = job[i]
      BY <1>4 DEF Live
    <2>3. Reached(i)' = Reached(i)
      BY <1>4, <1>9 DEF Reached
    <2>4. ~Attends(work[h], i)
      BY <1>1 DEF Attends
    <2>5. Attended(i) => Attended(i)'
      BY <1>2, <1>3, <2>4, AttendedKept DEF IInv
    <2>6. past' = past
      BY <1>4
    <2> QED
      BY <1>9, <2>1, <2>2, <2>3, <2>5, <2>6 DEF RowOK
  <1>13. \A k \in Ids : ~Attends(work[h], k) /\ ~AddsFor(w, k)
    BY <1>1, <1>3 DEF Attends, AddsFor, Adding
  <1>14. \A k \in Ids : \/ /\ row'[k] = row[k] /\ job'[k] = job[k]
                           /\ Attends(work[h], k) => Attends(w, k) \/ k \in past'.cut
                        \/ RowOK(k)'
    BY <1>4, <1>8, <1>12, <1>13
  <1>15. /\ \A k \in Ids : row[k].status # "absent" => row'[k].status # "absent"
         /\ \A k \in Ids : row[k].queueJobId => row'[k].queueJobId
         /\ \A k \in Ids : row'[k].queueJobId /\ ~row[k].queueJobId => AddsFor(work[h], k)
         /\ \A k \in Ids : row[k].queueJobId /\ ~Live(k) => ~Live(k)'
    BY <1>2, <1>4, <1>8, <1>9 DEF Live
  <1>16. UNCHANGED gateway /\ past' = past
    BY <1>4
  <1> QED
    BY <1>3, <1>10, <1>11, <1>13, <1>14, <1>15, <1>16, RequestStep

\* The job is removed, unless it is running.
LEMMA removeJobInv == ASSUME IInv, NEW h \in Handlers, removeJob(h) PROVE IInv'
  <1> PICK v : v = work[h]
    OBVIOUS
  <1> PICK i : i = v.id
    OBVIOUS
  <1>1. v \in Local /\ Knows(v) /\ v.pc = "remove"
    BY DEF IInv, Typed, TypeOK, KnowsOK, removeJob, At
  <1>2. i \in Ids /\ row[i].status # "absent" /\ row[i].queueJobId
    BY <1>1 DEF Knows, Cancelling
  <1>3. \A k \in Ids : ~Attends(work[h], k)
    BY <1>1 DEF Attends
  <1>4. UNCHANGED <<row, gateway, requests, faults, past>>
    BY DEF removeJob
  <1>5. requests' \in 0..MaxRequests /\ faults' \in 0..MaxFaults /\ past' \in History /\ past' = past
        /\ row' \in [Ids -> Row \cup {NoRow}] /\ UNCHANGED gateway
    BY <1>4 DEF IInv, Typed, TypeOK
  <1>6. CASE Active(i)
    <2>1. work' = [work EXCEPT ![h] = Idle] /\ UNCHANGED <<row, job, gateway>>
      BY <1>4, <1>6 DEF removeJob, End
    <2>2. Idle.pc \notin Adding
      BY IdleLocal DEF Adding
    <2> QED
      BY <1>3, <1>5, <2>1, <2>2, IdleLocal, RequestMoves
  <1>7. CASE ~Active(i)
    <2> PICK w : w = [v EXCEPT !.pc = "cancel"]
      OBVIOUS
    <2>1. w \in Local
      BY <1>1 DEF Local, Pcs
    <2>2. w.pc = "cancel" /\ w.id = i
      BY <1>1 DEF Local
    <2>3. work' = [work EXCEPT ![h] = w] /\ job' = [job EXCEPT ![i] = NoJob]
      BY <1>7 DEF removeJob, Goto, IInv, Typed, TypeOK
    <2>4. NoJob \in Job /\ NoJob.state = "none"
      <3>1. Attempts \in Nat \ {0}
        BY NotificationsAssumption DEF NotificationsAssumption
      <3> QED
        BY <3>1 DEF NoJob, Job
    <2>5. job' \in [Ids -> Job] /\ job'[i] = NoJob /\ \A k \in Ids : k # i => job'[k] = job[k]
      BY <1>2, <2>3, <2>4 DEF IInv, Typed, TypeOK
    <2>6. ~Live(i)' /\ \A k \in Ids : Live(k)' => Live(k)
      BY <2>4, <2>5 DEF Live
    <2>7. Knows(w)'
      BY <1>2, <1>4, <2>2, <2>6 DEF Knows, Sending, Adding, Cancelling
    <2>8. RowOK(i)'
      <3>1. RowOK(i)
        BY <1>2 DEF IInv, RowsOK
      <3>2. work'[h] = w
        BY <2>3 DEF IInv, Typed, TypeOK
      <3>3. Attended(i)'
        BY <2>2, <3>2 DEF Attended, Attends
      <3>4. Reached(i)' = Reached(i) /\ row'[i] = row[i]
        BY <1>4 DEF Reached
      <3> QED
        BY <2>4, <2>5, <2>6, <3>1, <3>3, <3>4 DEF RowOK
    <2>9. \A k \in Ids : \/ /\ row'[k] = row[k] /\ job'[k] = job[k]
                            /\ Attends(work[h], k) => Attends(w, k) \/ k \in past'.cut
                         \/ RowOK(k)'
      BY <1>3, <1>4, <2>5, <2>8
    <2>10. \A k \in Ids : ~AddsFor(w, k)
      BY <2>2 DEF AddsFor, Adding
    <2>11. row' = row
      BY <1>4
    <2> QED
      BY <1>5, <2>1, <2>3, <2>5, <2>6, <2>7, <2>9, <2>10, <2>11, RequestStep
  <1> QED
    BY <1>6, <1>7

\* The row is cancelled.
LEMMA cancelInv == ASSUME IInv, NEW h \in Handlers, cancel(h) PROVE IInv'
  <1> PICK v : v = work[h]
    OBVIOUS
  <1> PICK i : i = v.id
    OBVIOUS
  <1>1. v \in Local /\ Knows(v) /\ v.pc = "cancel"
    BY DEF IInv, Typed, TypeOK, KnowsOK, cancel, At
  <1>2. i \in Ids /\ row[i].status # "absent" /\ row[i].queueJobId /\ ~Live(i)
    BY <1>1 DEF Knows, Cancelling
  <1> PICK r : r = row[i]
    OBVIOUS
  <1>3. r \in Row
    BY <1>2, RowTyped DEF IInv
  <1>4. row' = [row EXCEPT ![i] = [r EXCEPT !.status = "cancelled"]]
        /\ UNCHANGED <<job, gateway, requests, faults, past>> /\ work' = [work EXCEPT ![h] = Idle]
    BY DEF cancel, End
  <1>5. [r EXCEPT !.status = "cancelled"] \in Row
    BY <1>3 DEF Row, NotificationStatus
  <1>6. row'[i] = [r EXCEPT !.status = "cancelled"] /\ \A k \in Ids : k # i => row'[k] = row[k]
    BY <1>2, <1>4 DEF IInv, Typed
  <1>7. row'[i].status = "cancelled" /\ row'[i].queueJobId = row[i].queueJobId
        /\ row'[i].channel = row[i].channel
    BY <1>3, <1>6 DEF Row
  <1>8. row' \in [Ids -> Row \cup {NoRow}] /\ job' \in [Ids -> Job] /\ requests' \in 0..MaxRequests
        /\ faults' \in 0..MaxFaults /\ past' \in History
    BY <1>2, <1>4, <1>5 DEF IInv, Typed, TypeOK
  <1>9. \A k \in Ids : Live(k)' = Live(k)
    BY <1>4 DEF Live
  <1>10. Knows(Idle)'
    BY IdleLocal DEF Knows, Sending, Adding, Cancelling
  <1>11. RowOK(i)'
    <2>1. job'[i].state = "none"
      BY <1>2, <1>4 DEF Live
    <2> QED
      BY <1>2, <1>7, <2>1 DEF RowOK, Live, Waiting
  <1>12. \A k \in Ids : k # i => ~Attends(work[h], k)
    BY DEF Attends
  <1>13. \A k \in Ids : \/ /\ row'[k] = row[k] /\ job'[k] = job[k]
                           /\ Attends(work[h], k) => Attends(Idle, k) \/ k \in past'.cut
                        \/ RowOK(k)'
    BY <1>4, <1>6, <1>11, <1>12
  <1>14. \A k \in Ids : ~AddsFor(Idle, k)
    BY IdleLocal DEF AddsFor, Adding
  <1>15. /\ \A k \in Ids : row[k].status # "absent" => row'[k].status # "absent"
         /\ \A k \in Ids : row'[k].queueJobId = row[k].queueJobId
    BY <1>6, <1>7
  <1>16. /\ \A k \in Ids : row[k].queueJobId => row'[k].queueJobId
         /\ \A k \in Ids : row'[k].queueJobId /\ ~row[k].queueJobId => AddsFor(work[h], k)
         /\ \A k \in Ids : row[k].queueJobId /\ ~Live(k) => ~Live(k)'
         /\ \A k \in Ids : AddsFor(Idle, k) => AddsFor(work[h], k) \/ row[k].status = "absent"
    BY <1>9, <1>14, <1>15
  <1>17. UNCHANGED gateway /\ past' = past
    BY <1>4
  <1> PICK w : w = Idle
    OBVIOUS
  <1>18. w \in Local /\ work' = [work EXCEPT ![h] = w] /\ Knows(w)'
    BY <1>4, <1>10, IdleLocal DEF Knows, Live
  <1> QED
    BY <1>8, <1>13, <1>15, <1>16, <1>17, <1>18, RequestStep

\* The history when rows are cut.
LEMMA CutTyped ==
  ASSUME Typed, NEW S \in SUBSET Ids
  PROVE  /\ [past EXCEPT !.cut = @ \cup S] \in History
         /\ [past EXCEPT !.cut = @ \cup S].cut = past.cut \cup S
         /\ [past EXCEPT !.cut = @ \cup S].reached = past.reached
         /\ [past EXCEPT !.cut = @ \cup S].leaked = past.leaked
  BY DEF Typed, TypeOK, History

\* One more failure is within the bound.
LEMMA FaultTyped ==
  ASSUME Typed, faults < MaxFaults, faults' = faults + 1
  PROVE  faults' \in 0..MaxFaults
  <1>1. MaxFaults \in Nat
    BY NotificationsAssumption DEF NotificationsAssumption
  <1> QED
    BY <1>1 DEF Typed, TypeOK

\* A request fails.
LEMMA RequestFailsInv == ASSUME IInv, NEW h \in Handlers, RequestFails(h) PROVE IInv'
  <1> PICK v : v = work[h]
    OBVIOUS
  <1>1. v \in Local /\ Knows(v)
    BY DEF IInv, Typed, TypeOK, KnowsOK
  <1>2. faults' \in 0..MaxFaults
    BY FaultTyped DEF RequestFails, IInv
  <1> PICK S : S = IF v.pc \in {"queue", "addBulk", "cancel"} THEN {v.id} ELSE {}
    OBVIOUS
  <1>3. S \in SUBSET Ids
    BY <1>1 DEF Knows, Adding, Cancelling
  <1>4. past.cut \in SUBSET Ids
    BY DEF IInv, Typed, TypeOK, History
  <1>5. past' = [past EXCEPT !.cut = @ \cup S]
    <2>1. past' = [past EXCEPT !.cut = IF v.pc \in {"queue", "addBulk", "cancel"} THEN @ \cup {v.id} ELSE @]
      BY DEF RequestFails
    <2>2. CASE v.pc \in {"queue", "addBulk", "cancel"}
      BY <2>1, <2>2
    <2>3. CASE v.pc \notin {"queue", "addBulk", "cancel"}
      <3>1. past.cut = past.cut \cup S
        BY <2>3
      <3> QED
        BY <2>1, <2>3, <3>1
    <2> QED
      BY <2>2, <2>3
  <1>6. past' \in History /\ past'.cut = past.cut \cup S /\ past'.reached = past.reached
        /\ past'.leaked = past.leaked
    BY <1>3, <1>5, CutTyped DEF IInv
  <1>7. requests' \in 0..MaxRequests /\ UNCHANGED <<row, job, gateway>>
    BY DEF RequestFails, IInv, Typed, TypeOK
  <1>8. \A i \in Ids : Attends(work[h], i) => i \in past'.cut
    BY <1>6 DEF Attends
  <1>9. CASE v.pc = "count"
    <2> PICK w : w = [v EXCEPT !.pc = "save"]
      OBVIOUS
    <2>1. w \in Local
      BY <1>1 DEF Local, Pcs
    <2>2. w.pc = "save" /\ w.todo = v.todo
      BY <1>1 DEF Local
    <2>3. Knows(w) /\ w.pc \notin Adding
      BY <1>1, <1>9, <2>2 DEF Knows, Sending, Adding, Cancelling
    <2>4. work' = [work EXCEPT ![h] = w]
      BY <1>9 DEF RequestFails, At, Goto, IInv, Typed, TypeOK
    <2> QED
      BY <1>2, <1>6, <1>7, <1>8, <2>1, <2>3, <2>4, RequestMoves
  <1>10. CASE v.pc # "count"
    <2>1. Advance(h)
      BY <1>10 DEF RequestFails, At
    <2> QED
      BY <1>2, <1>6, <1>7, <1>8, <2>1, GoesOn
  <1> QED
    BY <1>9, <1>10

-----------------------------------------------------------------------------
(* The workers *)

\* A row with a job is there, and is not cancelled.
LEMMA LiveRow ==
  ASSUME IInv, NEW i \in Ids, job[i].state # "none"
  PROVE  row[i] \in Row /\ row[i].status # "absent" /\ row[i].status # "cancelled"
  <1>1. RowOK(i) /\ Live(i)
    BY DEF IInv, RowsOK, Live
  <1>2. row[i].status # "absent" /\ row[i].status # "cancelled"
    BY <1>1 DEF RowOK
  <1> QED
    BY <1>2, RowTyped DEF IInv

\* The fields of a job.
LEMMA JobFields ==
  ASSUME Typed, NEW i \in Ids
  PROVE  job[i] \in Job /\ job[i].attempt \in 1..Attempts /\ job[i].ok \in BOOLEAN
  <1>1. job[i] \in Job
    BY DEF Typed, TypeOK
  <1> QED
    BY <1>1 DEF Job

\* No job.
LEMMA NoJobTyped == NoJob \in Job /\ NoJob.state = "none"
  <1>1. 1 \in 1..Attempts
    BY NotificationsAssumption DEF NotificationsAssumption
  <1>2. NoJob \in Job
    BY <1>1, JobTyped DEF NoJob
  <1> QED
    BY <1>2 DEF NoJob

\* A step of a job.
LEMMA StepTyped ==
  ASSUME Typed, NEW i \in Ids, NEW st \in {"none", "delayed", "waiting", "send", "log", "update"}, Step(i, st)
  PROVE  \E j \in Job : job' = [job EXCEPT ![i] = j] /\ j.state = st /\ j.ok = job[i].ok
  <1> PICK o : o = job[i]
    OBVIOUS
  <1> PICK j : j = [o EXCEPT !.state = st]
    OBVIOUS
  <1>1. o \in Job
    BY JobFields
  <1>2. j \in Job
    BY <1>1 DEF Job
  <1>3. j.state = st /\ j.ok = o.ok
    BY <1>1 DEF Job
  <1>4. job' = [job EXCEPT ![i] = j]
    BY DEF Step, Typed, TypeOK
  <1> QED
    BY <1>2, <1>3, <1>4

\* Another attempt, or none after the last.
LEMMA AgainTyped ==
  ASSUME Typed, NEW i \in Ids, Again(i)
  PROVE  \E j \in Job : /\ job' = [job EXCEPT ![i] = j]
                        /\ job[i].attempt = Attempts => j.state = "none"
                        /\ job[i].attempt # Attempts => j.state = "waiting"
  <1> PICK n : n = job[i].attempt
    OBVIOUS
  <1>1. n \in 1..Attempts /\ Attempts \in Nat
    BY JobFields, NotificationsAssumption DEF NotificationsAssumption
  <1>2. CASE n = Attempts
    BY <1>2, NoJobTyped DEF Again, Done
  <1>3. CASE n # Attempts
    <2> PICK j : j = [NoJob EXCEPT !.state = "waiting", !.attempt = n + 1]
      OBVIOUS
    <2>1. n + 1 \in 1..Attempts
      BY <1>1, <1>3
    <2>2. j \in Job
      BY <2>1, NoJobTyped DEF Job
    <2>3. j.state = "waiting"
      BY NoJobTyped DEF Job
    <2>4. job' = [job EXCEPT ![i] = j]
      BY <1>3 DEF Again
    <2> QED
      BY <1>3, <2>2, <2>3, <2>4
  <1> QED
    BY <1>2, <1>3

\* A step of a job that writes its row: what must hold of the row and the job.
LEMMA WorkerStep ==
  ASSUME IInv, NEW i \in Ids, job[i].state # "none", NEW j \in Job, job' = [job EXCEPT ![i] = j],
         NEW r \in Row, row' = [row EXCEPT ![i] = r], r.queueJobId = row[i].queueJobId,
         UNCHANGED <<work, requests>>, UNCHANGED gateway,
         faults' \in 0..MaxFaults, past' \in History,
         past.cut \subseteq past'.cut, past.reached \subseteq past'.reached, past'.leaked = past.leaked,
         r.status # "cancelled",
         r.status \in Waiting /\ i \notin past'.cut => j.state # "none",
         j.state = "send" /\ r.channel = "in_app" => r.status \notin Waiting,
         j.state = "log" /\ r.channel \notin ByProvider => r.status \notin Waiting,
         j.state = "update" /\ r.channel = "websocket" /\ j.ok => Reached(i)',
         r.status = "delivered" /\ r.channel = "websocket" => Reached(i)'
  PROVE  IInv'
  <1>1. row' \in [Ids -> Row \cup {NoRow}] /\ job' \in [Ids -> Job]
    BY DEF IInv, Typed, TypeOK
  <1>2. /\ row'[i] = r /\ job'[i] = j
        /\ \A k \in Ids : k # i => row'[k] = row[k] /\ job'[k] = job[k]
    BY DEF IInv, Typed, TypeOK
  <1>3. r.status # "absent" /\ row[i].status # "absent"
    BY LiveRow DEF Row, NotificationStatus
  <1>4. Live(i)' = (j.state # "none")
    BY <1>2 DEF Live
  <1>5. RowOK(i)'
    BY <1>2, <1>3, <1>4 DEF RowOK
  <1>6. \A k \in Ids : ~Live(k) => ~Live(k)'
    BY <1>2 DEF Live
  <1>7. \A k \in Ids : (row'[k] = row[k] /\ job'[k] = job[k]) \/ RowOK(k)'
    BY <1>2, <1>5
  <1>8. /\ \A k \in Ids : row[k].status # "absent" => row'[k].status # "absent"
        /\ \A k \in Ids : row'[k].queueJobId = row[k].queueJobId
    BY <1>2, <1>3
  <1> QED
    BY <1>1, <1>6, <1>7, <1>8, SystemStep

\* A step of a job that does not write its row.
LEMMA WorkerMoves ==
  ASSUME IInv, NEW i \in Ids, job[i].state # "none", NEW j \in Job, job' = [job EXCEPT ![i] = j],
         UNCHANGED <<row, work, requests>>, UNCHANGED gateway,
         faults' \in 0..MaxFaults, past' \in History,
         past.cut \subseteq past'.cut, past.reached \subseteq past'.reached, past'.leaked = past.leaked,
         row[i].status \in Waiting /\ i \notin past'.cut => j.state # "none",
         j.state = "send" /\ row[i].channel = "in_app" => row[i].status \notin Waiting,
         j.state = "log" /\ row[i].channel \notin ByProvider => row[i].status \notin Waiting,
         j.state = "update" /\ row[i].channel = "websocket" /\ j.ok => Reached(i)'
  PROVE  IInv'
  <1> PICK r : r = row[i]
    OBVIOUS
  <1>1. r \in Row /\ r.status # "cancelled"
    BY LiveRow
  <1>2. row' = [row EXCEPT ![i] = r]
    BY DEF IInv, Typed
  <1>3. RowOK(i)
    BY DEF IInv, RowsOK
  <1>4. r.status = "delivered" /\ r.channel = "websocket" => Reached(i)'
    BY <1>3 DEF RowOK, Reached
  <1>5. UNCHANGED <<work, requests>>
    OBVIOUS
  <1> QED
    BY <1>1, <1>2, <1>4, <1>5, WorkerStep

\* The history and the counters when they stay.
LEMMA Stays ==
  ASSUME Typed, UNCHANGED <<requests, faults, past>>
  PROVE  requests' \in 0..MaxRequests /\ faults' \in 0..MaxFaults /\ past' \in History /\ past' = past
  BY DEF Typed, TypeOK

\* A delayed job is due.
LEMMA DueInv == ASSUME IInv, NEW i \in Ids, Due(i) PROVE IInv'
  <1>1. job[i].state = "delayed" /\ UNCHANGED <<row, work, requests>> /\ UNCHANGED gateway
        /\ UNCHANGED <<requests, faults, past>>
    BY DEF Due
  <1>2. PICK j \in Job : job' = [job EXCEPT ![i] = j] /\ j.state = "waiting" /\ j.ok = job[i].ok
    BY StepTyped DEF Due, IInv
  <1>3. faults' \in 0..MaxFaults /\ past' \in History /\ past' = past
    BY <1>1, Stays DEF IInv
  <1> QED
    BY <1>1, <1>2, <1>3, WorkerMoves

\* A worker takes a job.
LEMMA processInv == ASSUME IInv, NEW i \in Ids, process(i) PROVE IInv'
  <1> PICK st : st = IF row[i].channel = "in_app" THEN "update" ELSE "send"
    OBVIOUS
  <1>1. job[i].state = "waiting" /\ UNCHANGED <<row, work, requests>> /\ UNCHANGED gateway
        /\ UNCHANGED <<requests, faults, past>> /\ Step(i, st)
    BY DEF process
  <1>2. st \in {"none", "delayed", "waiting", "send", "log", "update"}
    OBVIOUS
  <1>3. PICK j \in Job : job' = [job EXCEPT ![i] = j] /\ j.state = st /\ j.ok = job[i].ok
    BY <1>1, <1>2, StepTyped DEF IInv
  <1>4. faults' \in 0..MaxFaults /\ past' \in History /\ past' = past
    BY <1>1, Stays DEF IInv
  <1>5. /\ j.state # "none"
        /\ ~(j.state = "send" /\ row[i].channel = "in_app")
        /\ j.state # "log"
        /\ ~(j.state = "update" /\ row[i].channel = "websocket")
    BY <1>3
  <1> QED
    BY <1>1, <1>3, <1>4, <1>5, WorkerMoves

\* A provider answers.
LEMMA callProviderInv == ASSUME IInv, NEW i \in Ids, callProvider(i) PROVE IInv'
  <1>1. job[i].state = "send" /\ UNCHANGED <<row, work, requests>> /\ UNCHANGED gateway
        /\ UNCHANGED <<requests, faults, past>> /\ row[i].channel \in ByProvider
    BY DEF callProvider
  <1> PICK ok \in BOOLEAN : job' = [job EXCEPT ![i].state = "log", ![i].ok = ok]
    BY DEF callProvider
  <1> PICK o : o = job[i]
    OBVIOUS
  <1> PICK j : j = [o EXCEPT !.state = "log", !.ok = ok]
    OBVIOUS
  <1>2. j \in Job /\ j.state = "log"
    <2>1. o \in Job
      BY JobFields DEF IInv
    <2> QED
      BY <2>1 DEF Job
  <1>3. job' = [job EXCEPT ![i] = j]
    BY DEF IInv, Typed, TypeOK
  <1>4. faults' \in 0..MaxFaults /\ past' \in History /\ past' = past
    BY <1>1, Stays DEF IInv
  <1> QED
    BY <1>1, <1>2, <1>3, <1>4, WorkerMoves

\* The gateway sends to the room of the user: whoever it counts is in the room, unless
\* one was counted after it closed.
LEMMA sendToUserInv == ASSUME IInv, NEW i \in Ids, sendToUser(i) PROVE IInv'
  <1>1. job[i].state = "send" /\ UNCHANGED <<row, work, requests>> /\ UNCHANGED gateway
        /\ faults' = faults /\ row[i].channel \notin ByProvider
    BY DEF sendToUser
  <1>2. faults' \in 0..MaxFaults
    BY <1>1 DEF IInv, Typed, TypeOK
  <1> PICK S : S = IF row[i].channel = "websocket" /\ InRoom(row[i].user) # {}
                   THEN past.reached \cup {i} ELSE past.reached
    OBVIOUS
  <1>3. past' = [past EXCEPT !.reached = S]
    BY DEF sendToUser
  <1>4. past \in History /\ S \in SUBSET Ids
    BY DEF IInv, Typed, TypeOK, History
  <1>5. past' \in History /\ past'.reached = S /\ past'.cut = past.cut /\ past'.leaked = past.leaked
    BY <1>3, <1>4 DEF History
  <1>6. past.reached \subseteq past'.reached
    BY <1>5
  <1>7. CASE row[i].channel = "in_app"
    <2>1. job' = [job EXCEPT ![i] = NoJob]
      BY <1>7 DEF sendToUser, Done
    <2>2. row[i].status \notin Waiting
      BY <1>1, <1>7 DEF IInv, RowsOK, RowOK
    <2> PICK j : j = NoJob
      OBVIOUS
    <2>3. j \in Job /\ j.state = "none"
      BY NoJobTyped
    <2> QED
      BY <1>1, <1>2, <1>5, <1>6, <2>1, <2>2, <2>3, WorkerMoves
  <1>8. CASE row[i].channel # "in_app"
    <2> PICK o : o = job[i]
      OBVIOUS
    <2> PICK ok : ok = isConnected(row[i].user)
      OBVIOUS
    <2> PICK j : j = [o EXCEPT !.state = "update", !.ok = ok]
      OBVIOUS
    <2>1. ok \in BOOLEAN
      BY DEF isConnected
    <2>2. j \in Job /\ j.state = "update" /\ j.ok = ok
      <3>1. o \in Job
        BY JobFields DEF IInv
      <3> QED
        BY <2>1, <3>1 DEF Job
    <2>3. job' = [job EXCEPT ![i] = j]
      BY <1>8 DEF sendToUser, IInv, Typed, TypeOK
    <2>4. row[i].channel = "websocket" /\ ok => Reached(i)'
      <3> SUFFICES ASSUME row[i].channel = "websocket", ok PROVE Reached(i)'
        OBVIOUS
      <3>1. PICK s \in userSockets : Owner[s] = row[i].user
        BY DEF isConnected
      <3>2. s \in Sockets /\ (socket[s] = "on" \/ Owner[s] \in past.leaked)
        BY DEF IInv, Typed, TypeOK, SocketsOK
      <3>3. CASE socket[s] = "on"
        <4>1. InRoom(row[i].user) # {}
          BY <3>1, <3>2, <3>3 DEF InRoom
        <4>2. i \in past'.reached
          BY <1>5, <4>1
        <4> QED
          BY <4>2 DEF Reached
      <3>4. CASE Owner[s] \in past.leaked
        BY <1>1, <1>5, <3>1, <3>4 DEF Reached
      <3> QED
        BY <3>2, <3>3, <3>4
    <2> QED
      BY <1>1, <1>2, <1>5, <1>6, <2>2, <2>3, <2>4, WorkerMoves
  <1> QED
    BY <1>7, <1>8

\* The log of an attempt.
LEMMA saveLogInv == ASSUME IInv, NEW i \in Ids, saveLog(i) PROVE IInv'
  <1>1. job[i].state = "log" /\ UNCHANGED <<row, work, requests>> /\ UNCHANGED gateway
        /\ UNCHANGED <<requests, faults, past>>
    BY DEF saveLog
  <1>2. faults' \in 0..MaxFaults /\ past' \in History /\ past' = past
    BY <1>1, Stays DEF IInv
  <1>3. row[i].channel \notin ByProvider => row[i].status \notin Waiting
    BY <1>1 DEF IInv, RowsOK, RowOK
  <1>4. CASE row[i].channel \in ByProvider
    <2>1. Step(i, "update")
      BY <1>4 DEF saveLog, ByProvider
    <2>2. PICK j \in Job : job' = [job EXCEPT ![i] = j] /\ j.state = "update" /\ j.ok = job[i].ok
      BY <2>1, StepTyped DEF IInv
    <2>3. row[i].channel # "websocket"
      BY <1>4 DEF ByProvider
    <2> QED
      BY <1>1, <1>2, <2>2, <2>3, WorkerMoves
  <1>5. CASE row[i].channel \notin ByProvider /\ row[i].channel = "in_app"
    <2>1. Step(i, "send")
      BY <1>5 DEF saveLog, ByProvider
    <2>2. PICK j \in Job : job' = [job EXCEPT ![i] = j] /\ j.state = "send" /\ j.ok = job[i].ok
      BY <2>1, StepTyped DEF IInv
    <2> QED
      BY <1>1, <1>2, <1>3, <1>5, <2>2, WorkerMoves
  <1>6. CASE row[i].channel \notin ByProvider /\ row[i].channel # "in_app"
    <2>1. job' = [job EXCEPT ![i] = NoJob]
      BY <1>6 DEF saveLog, Done
    <2> PICK j : j = NoJob
      OBVIOUS
    <2>2. j \in Job /\ j.state = "none"
      BY NoJobTyped
    <2> QED
      BY <1>1, <1>2, <1>3, <1>6, <2>1, <2>2, WorkerMoves
  <1> QED
    BY <1>4, <1>5, <1>6

\* The status after an attempt: queued again only with another attempt to come.
LEMMA updateRowInv == ASSUME IInv, NEW i \in Ids, updateRow(i) PROVE IInv'
  <1>1. job[i].state = "update" /\ UNCHANGED <<work, requests>> /\ UNCHANGED gateway
        /\ UNCHANGED <<requests, faults, past>>
    BY DEF updateRow
  <1>2. faults' \in 0..MaxFaults /\ past' \in History /\ past' = past
    BY <1>1, Stays DEF IInv
  <1> PICK o : o = row[i]
    OBVIOUS
  <1> PICK st : st = IF row[i].channel = "in_app" \/ job[i].ok THEN "delivered"
                     ELSE IF Final(i) THEN "failed" ELSE "queued"
    OBVIOUS
  <1> PICK r : r = [o EXCEPT !.status = st]
    OBVIOUS
  <1>3. o \in Row
    BY <1>1, LiveRow
  <1>4. st \in {"delivered", "failed", "queued"} /\ st \in NotificationStatus
    BY DEF NotificationStatus
  <1>5. r \in Row
    BY <1>3, <1>4 DEF Row
  <1>6. r.status = st /\ r.channel = o.channel /\ r.queueJobId = o.queueJobId /\ r.user = o.user
    BY <1>3 DEF Row
  <1>7. row' = [row EXCEPT ![i] = r]
    BY DEF updateRow, IInv, Typed
  <1>8. row'[i] = r
    BY <1>7 DEF IInv, Typed
  <1>9. r.status = "delivered" /\ r.channel = "websocket" => Reached(i)'
    <2>1. job[i].ok /\ o.channel = "websocket" => Reached(i)
      BY <1>1 DEF IInv, RowsOK, RowOK
    <2>2. Reached(i)' = Reached(i)
      BY <1>2, <1>6, <1>8 DEF Reached
    <2>3. st = "delivered" /\ o.channel = "websocket" => job[i].ok
      BY <1>4
    <2> QED
      BY <1>6, <2>1, <2>2, <2>3
  <1>10. r.status # "cancelled" /\ (r.status \in Waiting => st = "queued")
    BY <1>4, <1>6 DEF Waiting
  <1>11. st = "queued" => o.channel # "in_app" /\ ~job[i].ok /\ o.channel # "websocket"
                          /\ job[i].attempt # Attempts
    BY DEF Final
  <1>12. o.channel \in NotificationChannel
    BY <1>3 DEF Row
  <1>13. st = "queued" => o.channel \in ByProvider
    BY <1>11, <1>12 DEF NotificationChannel, ByProvider
  <1>14. CASE o.channel \notin ByProvider
    <2>1. Step(i, "log")
      BY <1>14 DEF updateRow
    <2>2. PICK j \in Job : job' = [job EXCEPT ![i] = j] /\ j.state = "log" /\ j.ok = job[i].ok
      BY <2>1, StepTyped DEF IInv
    <2> QED
      BY <1>1, <1>2, <1>5, <1>6, <1>7, <1>9, <1>10, <1>13, <1>14, <2>2, WorkerStep
  <1>15. CASE o.channel \in ByProvider /\ job[i].ok
    <2>1. job' = [job EXCEPT ![i] = NoJob]
      BY <1>15 DEF updateRow, Done
    <2> PICK j : j = NoJob
      OBVIOUS
    <2>2. j \in Job /\ j.state = "none"
      BY NoJobTyped
    <2>3. st # "queued" /\ r.status \notin Waiting /\ r.status # "cancelled"
      BY <1>10, <1>15
    <2>4. /\ job[i].state # "none" /\ job' = [job EXCEPT ![i] = j]
          /\ r.queueJobId = row[i].queueJobId /\ r.status # "cancelled"
          /\ r.status \in Waiting /\ i \notin past'.cut => j.state # "none"
          /\ j.state # "send" /\ j.state # "log" /\ j.state # "update"
      BY <1>1, <1>6, <2>1, <2>2, <2>3
    <2> QED
      BY <1>1, <1>2, <1>5, <1>7, <1>9, <2>2, <2>4, WorkerStep
  <1>16. CASE o.channel \in ByProvider /\ ~job[i].ok
    <2>1. Again(i)
      BY <1>16 DEF updateRow
    <2>2. PICK j \in Job : /\ job' = [job EXCEPT ![i] = j]
                           /\ job[i].attempt = Attempts => j.state = "none"
                           /\ job[i].attempt # Attempts => j.state = "waiting"
      BY <2>1, AgainTyped DEF IInv
    <2>3. j.state \in {"none", "waiting"} /\ (st = "queued" => j.state # "none")
      BY <1>11, <2>2
    <2>4. /\ job[i].state # "none" /\ job' = [job EXCEPT ![i] = j]
          /\ r.queueJobId = row[i].queueJobId /\ r.status # "cancelled"
          /\ r.status \in Waiting /\ i \notin past'.cut => j.state # "none"
          /\ j.state # "send" /\ j.state # "log" /\ j.state # "update"
      BY <1>1, <1>6, <1>10, <2>2, <2>3
    <2> QED
      BY <1>1, <1>2, <1>5, <1>7, <1>9, <2>4, WorkerStep
  <1> QED
    BY <1>14, <1>15, <1>16

\* An attempt fails.
LEMMA JobFailsInv == ASSUME IInv, NEW i \in Ids, JobFails(i) PROVE IInv'
  <1>1. job[i].state # "none" /\ UNCHANGED <<row, work, requests>> /\ UNCHANGED gateway
    BY DEF JobFails, Active
  <1>2. faults' \in 0..MaxFaults
    BY FaultTyped DEF JobFails, IInv
  <1>3. PICK j \in Job : /\ job' = [job EXCEPT ![i] = j]
                         /\ job[i].attempt = Attempts => j.state = "none"
                         /\ job[i].attempt # Attempts => j.state = "waiting"
    BY AgainTyped DEF JobFails, IInv
  <1> PICK S : S = IF job[i].attempt = Attempts THEN {i} ELSE {}
    OBVIOUS
  <1>4. past.cut \in SUBSET Ids
    BY DEF IInv, Typed, TypeOK, History
  <1>5. past' = [past EXCEPT !.cut = @ \cup S]
    <2>1. past' = [past EXCEPT !.cut = IF job[i].attempt = Attempts THEN @ \cup {i} ELSE @]
      BY DEF JobFails
    <2>2. CASE job[i].attempt = Attempts
      BY <2>1, <2>2
    <2>3. CASE job[i].attempt # Attempts
      <3>1. past.cut = past.cut \cup S
        BY <2>3
      <3> QED
        BY <2>1, <2>3, <3>1
    <2> QED
      BY <2>2, <2>3
  <1>6. past' \in History /\ past'.cut = past.cut \cup S /\ past'.reached = past.reached
        /\ past'.leaked = past.leaked
    BY <1>5, CutTyped DEF IInv
  <1>7. i \notin past'.cut => j.state # "none"
    BY <1>3, <1>6
  <1>8. j.state \in {"none", "waiting"}
    BY <1>3
  <1> QED
    BY <1>1, <1>2, <1>3, <1>6, <1>7, <1>8, WorkerMoves

-----------------------------------------------------------------------------
(* The user: what is read, and the connections *)

\* Rows that are read: their jobs stay, and none waits or is delivered for it.
LEMMA ReadInv ==
  ASSUME IInv, UNCHANGED <<job, gateway, work, requests, faults, past>>,
         row' \in [Ids -> Row \cup {NoRow}],
         \A i \in Ids : \/ row'[i] = row[i]
                        \/ /\ row[i].status # "absent" /\ row'[i].status = "read"
                           /\ row'[i].channel = row[i].channel /\ row'[i].user = row[i].user
                           /\ row'[i].queueJobId = row[i].queueJobId
  PROVE  IInv'
  <1>1. job' \in [Ids -> Job] /\ faults' \in 0..MaxFaults /\ past' \in History /\ past' = past
        /\ job' = job
    BY DEF IInv, Typed, TypeOK
  <1>2. \A i \in Ids : RowOK(i)'
    <2> SUFFICES ASSUME NEW i \in Ids PROVE RowOK(i)'
      OBVIOUS
    <2>1. RowOK(i)
      BY DEF IInv, RowsOK
    <2>2. CASE row'[i] = row[i]
      <3>1. Attended(i) => Attended(i)'
        BY DEF Attended, Attends
      <3> QED
        BY <1>1, <2>1, <2>2, <3>1, RowKept
    <2>3. CASE /\ row[i].status # "absent" /\ row'[i].status = "read"
               /\ row'[i].channel = row[i].channel /\ row'[i].user = row[i].user
               /\ row'[i].queueJobId = row[i].queueJobId
      BY <1>1, <2>1, <2>3 DEF RowOK, Live, Waiting, Reached
    <2> QED
      BY <2>2, <2>3
  <1>3. \A i \in Ids : Live(i)' = Live(i)
    BY DEF Live
  <1>4. /\ \A i \in Ids : row[i].status # "absent" => row'[i].status # "absent"
        /\ \A i \in Ids : row'[i].queueJobId = row[i].queueJobId
    OBVIOUS
  <1>5. UNCHANGED <<work, requests>> /\ UNCHANGED gateway
    OBVIOUS
  <1> QED
    BY <1>1, <1>2, <1>3, <1>4, <1>5, SystemStep

\* A row called read.
LEMMA ReadTyped ==
  ASSUME NEW r \in Row
  PROVE  /\ [r EXCEPT !.status = "read"] \in Row
         /\ [r EXCEPT !.status = "read"].status = "read"
         /\ [r EXCEPT !.status = "read"].channel = r.channel
         /\ [r EXCEPT !.status = "read"].user = r.user
         /\ [r EXCEPT !.status = "read"].queueJobId = r.queueJobId
  <1>1. [r EXCEPT !.status = "read"] \in Row
    BY DEF Row, NotificationStatus
  <1> QED
    BY <1>1 DEF Row

\* One notification is read.
LEMMA markAsReadInv == ASSUME IInv, markAsRead PROVE IInv'
  <1> PICK i \in Ids : row[i].status # "absent" /\ row' = [row EXCEPT ![i].status = "read"]
    BY DEF markAsRead
  <1> PICK o : o = row[i]
    OBVIOUS
  <1> PICK r : r = [o EXCEPT !.status = "read"]
    OBVIOUS
  <1>1. o \in Row
    BY RowTyped DEF IInv
  <1>2. r \in Row /\ r.status = "read" /\ r.channel = o.channel /\ r.user = o.user
        /\ r.queueJobId = o.queueJobId
    BY <1>1, ReadTyped
  <1>3. row' = [row EXCEPT ![i] = r]
    BY DEF IInv, Typed
  <1>4. row' \in [Ids -> Row \cup {NoRow}]
    BY <1>2, <1>3 DEF IInv, Typed
  <1>5. row'[i] = r /\ \A k \in Ids : k # i => row'[k] = row[k]
    BY <1>3 DEF IInv, Typed
  <1>6. UNCHANGED <<job, gateway, work, requests, faults, past>>
    BY DEF markAsRead
  <1> QED
    BY <1>2, <1>4, <1>5, <1>6, ReadInv

\* All those of a user are read.
LEMMA markAllAsReadInv == ASSUME IInv, markAllAsRead PROVE IInv'
  <1> PICK u \in Users :
          row' = [i \in Ids |-> IF row[i].user = u /\ row[i].status \in {"delivered", "sent"}
                                THEN [row[i] EXCEPT !.status = "read"] ELSE row[i]]
    BY DEF markAllAsRead
  <1>1. \A i \in Ids : \/ row'[i] = row[i]
                       \/ row[i].status \in {"delivered", "sent"} /\ row'[i] = [row[i] EXCEPT !.status = "read"]
    OBVIOUS
  <1>2. \A i \in Ids : \/ row'[i] = row[i]
                       \/ /\ row[i].status # "absent" /\ row'[i].status = "read" /\ row'[i] \in Row
                          /\ row'[i].channel = row[i].channel /\ row'[i].user = row[i].user
                          /\ row'[i].queueJobId = row[i].queueJobId
    <2> SUFFICES ASSUME NEW i \in Ids, row'[i] # row[i]
                 PROVE  /\ row[i].status # "absent" /\ row'[i].status = "read" /\ row'[i] \in Row
                        /\ row'[i].channel = row[i].channel /\ row'[i].user = row[i].user
                        /\ row'[i].queueJobId = row[i].queueJobId
      OBVIOUS
    <2> PICK o : o = row[i]
      OBVIOUS
    <2>1. o.status \in {"delivered", "sent"} /\ row'[i] = [o EXCEPT !.status = "read"]
      BY <1>1
    <2>2. o \in Row
      BY <2>1, RowTyped DEF IInv
    <2> QED
      BY <2>1, <2>2, ReadTyped
  <1>3. row' \in [Ids -> Row \cup {NoRow}]
    <2>1. \A i \in Ids : row'[i] \in Row \cup {NoRow}
      BY <1>2 DEF IInv, Typed
    <2> QED
      BY <2>1
  <1>4. UNCHANGED <<job, gateway, work, requests, faults, past>>
    BY DEF markAllAsRead
  <1> QED
    BY <1>2, <1>3, <1>4, ReadInv

\* A step of a connection: those counted are open, or were counted after they closed.
LEMMA ConnectionStep ==
  ASSUME IInv, UNCHANGED <<row, job, work, requests, faults>>,
         socket' \in [Sockets -> {"off", "joined", "on", "left"}], userSockets' \subseteq Sockets,
         past' \in History, past'.cut = past.cut, past'.reached = past.reached,
         past.leaked \subseteq past'.leaked, SocketsOK'
  PROVE  IInv'
  <1> USE DEF IInv
  <1>1. Typed'
    BY DEF Typed, TypeOK
  <1>2. KnowsOK'
    BY DEF KnowsOK, Knows, Live
  <1>3. OneAdds'
    BY DEF OneAdds, AddsFor
  <1>4. RowsOK'
    <2> SUFFICES ASSUME NEW i \in Ids PROVE RowOK(i)'
      BY DEF RowsOK
    <2>1. RowOK(i) /\ (Attended(i) => Attended(i)')
      BY DEF RowsOK, Attended, Attends
    <2> QED
      BY <2>1, RowKept
  <1> QED
    BY <1>1, <1>2, <1>3, <1>4

\* A connection opens.
LEMMA handleConnectionInv == ASSUME IInv, NEW s \in Sockets, handleConnection(s) PROVE IInv'
  <1>1. socket' = [socket EXCEPT ![s] = "joined"] /\ s \notin userSockets
        /\ UNCHANGED <<row, job, work, requests, faults>> /\ userSockets' = userSockets /\ past' = past
    BY DEF handleConnection
  <1>2. socket' \in [Sockets -> {"off", "joined", "on", "left"}] /\ userSockets' \subseteq Sockets
        /\ past' \in History
    BY <1>1 DEF IInv, Typed, TypeOK
  <1>3. SocketsOK'
    BY <1>1 DEF SocketsOK, IInv, Typed, TypeOK
  <1> QED
    BY <1>1, <1>2, <1>3, ConnectionStep

\* A connection is counted, maybe after it closed.
LEMMA countInv == ASSUME IInv, NEW s \in Sockets, count(s) PROVE IInv'
  <1> PICK S : S = IF socket[s] = "left" THEN past.leaked \cup {Owner[s]} ELSE past.leaked
    OBVIOUS
  <1>1. socket' = [socket EXCEPT ![s] = IF socket[s] = "left" THEN "off" ELSE "on"]
        /\ userSockets' = userSockets \cup {s} /\ past' = [past EXCEPT !.leaked = S]
        /\ UNCHANGED <<row, job, work, requests, faults>>
    BY DEF count
  <1>2. past \in History /\ S \in SUBSET Users /\ past.leaked \subseteq S
    BY NotificationsAssumption DEF NotificationsAssumption, IInv, Typed, TypeOK, History
  <1>3. past' \in History /\ past'.leaked = S /\ past'.cut = past.cut /\ past'.reached = past.reached
    BY <1>1, <1>2 DEF History
  <1>4. socket' \in [Sockets -> {"off", "joined", "on", "left"}] /\ userSockets' \subseteq Sockets
    BY <1>1 DEF IInv, Typed, TypeOK
  <1>5. SocketsOK'
    <2> SUFFICES ASSUME NEW k \in userSockets' PROVE socket'[k] = "on" \/ Owner[k] \in past'.leaked
      BY DEF SocketsOK
    <2>1. CASE k = s
      BY <1>1, <1>3, <2>1 DEF IInv, Typed, TypeOK
    <2>2. CASE k # s
      <3>1. k \in userSockets /\ k \in Sockets /\ socket'[k] = socket[k]
        BY <1>1, <1>4, <2>2 DEF IInv, Typed, TypeOK
      <3> QED
        BY <1>2, <1>3, <3>1 DEF IInv, SocketsOK
    <2> QED
      BY <2>1, <2>2
  <1> QED
    BY <1>1, <1>2, <1>3, <1>4, <1>5, ConnectionStep

\* A connection closes.
LEMMA handleDisconnectInv == ASSUME IInv, NEW s \in Sockets, handleDisconnect(s) PROVE IInv'
  <1>1. socket' = [socket EXCEPT ![s] = IF socket[s] = "on" THEN "off" ELSE "left"]
        /\ userSockets' = userSockets \ {s} /\ past' = past
        /\ UNCHANGED <<row, job, work, requests, faults>>
    BY DEF handleDisconnect
  <1>2. socket' \in [Sockets -> {"off", "joined", "on", "left"}] /\ userSockets' \subseteq Sockets
        /\ past' \in History
    BY <1>1 DEF IInv, Typed, TypeOK
  <1>3. SocketsOK'
    BY <1>1 DEF SocketsOK, IInv, Typed, TypeOK
  <1> QED
    BY <1>1, <1>2, <1>3, ConnectionStep

-----------------------------------------------------------------------------
(* The theorems *)

\* The invariant holds at the start.
LEMMA InitInv == Init => IInv
  <1> SUFFICES ASSUME Init PROVE IInv
    OBVIOUS
  <1> USE DEF Init
  <1>1. requests \in 0..MaxRequests /\ faults \in 0..MaxFaults
    <2>1. MaxRequests \in Nat /\ MaxFaults \in Nat
      BY NotificationsAssumption DEF NotificationsAssumption
    <2> QED
      BY <2>1
  <1>2. past \in History
    BY DEF History
  <1>3. work \in [Handlers -> Local] /\ job \in [Ids -> Job] /\ row \in [Ids -> Row \cup {NoRow}]
    BY IdleLocal, NoJobTyped
  <1>4. Typed
    BY <1>1, <1>2, <1>3 DEF Typed, TypeOK
  <1>5. KnowsOK
    BY IdleLocal DEF KnowsOK
  <1>6. OneAdds
    BY IdleLocal DEF OneAdds, AddsFor, Adding
  <1>7. RowsOK
    <2> SUFFICES ASSUME NEW i \in Ids PROVE RowOK(i)
      BY DEF RowsOK
    <2>1. row[i].status = "absent" /\ job[i].state = "none"
      BY NoJobTyped DEF NoRow
    <2> QED
      BY <2>1 DEF RowOK, Waiting, Live
  <1>8. SocketsOK
    BY DEF SocketsOK
  <1> QED
    BY <1>4, <1>5, <1>6, <1>7, <1>8 DEF IInv

\* Every step keeps it.
LEMMA NextInv == IInv /\ [Next]_vars => IInv'
  <1> SUFFICES ASSUME IInv, [Next]_vars PROVE IInv'
    OBVIOUS
  <1>1. CASE UNCHANGED vars
    BY <1>1 DEF vars, gateway, IInv, Typed, TypeOK, KnowsOK, Knows, OneAdds, AddsFor, RowsOK, RowOK, Live, Attended,
                Attends, Reached, SocketsOK
  <1>2. ASSUME NEW h \in Handlers, Request(h) PROVE IInv'
    BY <1>2, onEventInv, sendDirectInv, sendBatchInv, cancelScheduledInv, consumeInv, saveInv, saveSkippedInv,
       addJobInv, storeJobIdInv, enqueueBulkInv, addBulkInv, removeJobInv, cancelInv, RequestFailsInv
       DEF Request
  <1>3. ASSUME NEW i \in Ids, Worker(i) PROVE IInv'
    BY <1>3, DueInv, processInv, callProviderInv, sendToUserInv, saveLogInv, updateRowInv, JobFailsInv DEF Worker
  <1>4. ASSUME NEW s \in Sockets, Connection(s) PROVE IInv'
    BY <1>4, handleConnectionInv, countInv, handleDisconnectInv DEF Connection
  <1> QED
    BY <1>1, <1>2, <1>3, <1>4, markAsReadInv, markAllAsReadInv DEF Next

\* The inductive invariant of the notifications.
THEOREM Invariance == Spec => []IInv
  BY InitInv, NextInv, PTL DEF Spec

\* The variables keep their types.
THEOREM TypeCorrect == Spec => []TypeOK
  <1>1. IInv => TypeOK
    BY DEF IInv, Typed
  <1> QED
    BY <1>1, Invariance, PTL

\* A notification that waits has a job that will deliver it, or a request about to add or
\* to cancel it, unless a failure stopped one; a cancelled one has no job left.
THEOREM WaitingHasJobTheorem == Spec => []WaitingHasJob
  <1>1. IInv => WaitingHasJob
    BY DEF IInv, RowsOK, RowOK, Waiting, Attended, Attends, WaitingHasJob
  <1> QED
    BY <1>1, Invariance, PTL

\* What the socket calls delivered met a connection of the user, unless one was counted
\* after it closed.
THEOREM DeliveredTheorem == Spec => []DeliveredWasReached
  <1>1. IInv => DeliveredWasReached
    BY DEF IInv, RowsOK, RowOK, Reached, DeliveredWasReached
  <1> QED
    BY <1>1, Invariance, PTL
=============================================================================
