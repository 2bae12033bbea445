--------------------------- MODULE Notifications ---------------------------
(***************************************************************************)
(* What a user is told: the handlers of the domain events, the rows and    *)
(* jobs of the notifications they send, the workers of each channel, the   *)
(* gateway that knows who is connected, and what the user and the          *)
(* administrators do with the rows.                                        *)
(*                                                                         *)
(* A row and its job are in two stores, written one after the other.  The  *)
(* texts, the categories and the priorities are left out; push, SMS and    *)
(* e-mail have the same worker.  Redis is configured, and a provider       *)
(* answers what it likes.                                                  *)
(***************************************************************************)
EXTENDS Integers, Sequences, FiniteSets

CONSTANTS
    Users,
    Sockets,        \* the connections that can be open
    Owner,          \* the user of each
    Handlers,       \* requests and event handlers at the same time
    Channels,       \* the channels the administrators use
    Attempts,       \* RETRY_CONFIG.maxAttempts
    MaxRows, MaxRequests, MaxFaults,    \* bounds
    None

VARIABLES
    row,            \* the table notifications
    job,            \* the jobs of the queues, by the row they deliver
    socket,         \* the connections
    userSockets,    \* those the gateway counts as connected
    work,           \* the local state of each request
    requests, faults,
    past            \* history: see History

vars == <<row, job, socket, userSockets, work, requests, faults, past>>
gateway == <<socket, userSockets>>

NotificationChannel == {"push", "sms", "email", "in_app", "websocket"}
ByProvider == {"push", "sms", "email"}
NotificationStatus == {"pending", "queued", "sent", "delivered", "failed", "read",
                       "scheduled", "cancelled"}

ASSUME NotificationsAssumption ==
    /\ Owner \in [Sockets -> Users] /\ None \notin Users
    /\ Channels \subseteq NotificationChannel
    /\ Attempts \in Nat \ {0}
    /\ \A n \in {MaxRows, MaxRequests, MaxFaults} : n \in Nat

Ids == 1..MaxRows

\* addressed: the token, number or address the provider of the channel needs.
Row == [status : NotificationStatus, channel : NotificationChannel, user : Users,
        addressed : BOOLEAN, queueJobId : BOOLEAN]
NoRow == [status |-> "absent", channel |-> "push", user |-> None, addressed |-> FALSE, queueJobId |-> FALSE]

Job == [state : {"none", "delayed", "waiting", "send", "log", "update"},
        attempt : 1..Attempts, ok : BOOLEAN]
NoJob == [state |-> "none", attempt |-> 1, ok |-> FALSE]

\* A call of send: a channel and the user it is for, "other" the second party.
To(c, who) == [channel |-> c, to |-> who, addressed |-> FALSE]
push == To("push", "user")
inApp == To("in_app", "user")

\* What each handler sends, in its order.
RideNotices ==
    { <<push, inApp>>,                          \* onRideAccepted, onRideCompleted
      <<push>>,                                 \* onRideStarted, onRideCancelled, onRideScheduled
      <<push>>, <<push, To("push", "other")>> } \* onRideModified, without and with a driver

\* onRideModified for the price of the worker: the payload has no user.
RepricedNotices == { <<To("push", "nobody")>> }

\* onDeliveryPickedUp, onDeliveryCompleted, onFoodOrderConfirmed, onFoodOrderReady,
\* onFoodOrderDelivered
DeliveryNotices == { <<push>> }

\* onPaymentSuccess, onPaymentFailed; onWalletCredited
MoneyNotices == { <<push>>, <<inApp, To("websocket", "user")>> }

\* onUserRegistered, the one handler that knows an address; onReferralRewardGranted
AccountNotices ==
    { <<[To("sms", "user") EXCEPT !.addressed = TRUE], inApp>>, <<push, To("push", "other")>> }

\* onUserPhoneVerified; onUserKycSubmitted, onUserKycApproved, onUserKycRejected
WelcomeNotices == { <<push, inApp>> }
KycNotices == { <<push, inApp>> }

Notices == RideNotices \cup RepricedNotices \cup DeliveryNotices \cup MoneyNotices
           \cup AccountNotices \cup WelcomeNotices \cup KycNotices

Notice == [channel : NotificationChannel, to : {"user", "other", "nobody"}, addressed : BOOLEAN]

Pcs == {"idle", "count", "save", "skip", "queue", "jobId", "bulk", "addBulk", "remove", "cancel"}
Local == [pc : Pcs, todo : Seq(Notice), user : Users \cup {None}, other : Users \cup {None},
          scheduled : BOOLEAN, id : Ids \cup {0}]
Idle == [pc |-> "idle", todo |-> <<>>, user |-> None, other |-> None, scheduled |-> FALSE, id |-> 0]

\* cut: the rows a failure stopped halfway, or whose last attempt failed;
\* reached: the rows that met an open connection; leaked: a connection closed
\* while it was being counted.
History == [cut : SUBSET Ids, reached : SUBSET Ids, leaked : SUBSET Users]

-----------------------------------------------------------------------------

At(h, pc) == work[h].pc = pc
Goto(h, pc) == work' = [work EXCEPT ![h].pc = pc]
End(h) == work' = [work EXCEPT ![h] = Idle]

\* The notice in hand, and the user it is for.
Now(h) == Head(work[h].todo)
For(h) == CASE Now(h).to = "user" -> work[h].user
            [] Now(h).to = "other" -> work[h].other
            [] OTHER -> None

\* send never throws: the handler goes on with its next notice.
Advance(h) ==
    IF Len(work[h].todo) <= 1 THEN End(h)
    ELSE work' = [work EXCEPT ![h].pc = "count", ![h].todo = Tail(@), ![h].id = 0]

Free == {i \in Ids : row[i].status = "absent"}
NextId == CHOOSE i \in Free : \A j \in Free : i <= j

NewRow(h, status) ==
    [status |-> status, channel |-> Now(h).channel, user |-> For(h),
     addressed |-> Now(h).addressed, queueJobId |-> FALSE]

Live(i) == job[i].state # "none"
Active(i) == job[i].state \in {"send", "log", "update"}

Receive(h, w) ==
    /\ At(h, "idle") /\ requests < MaxRequests
    /\ requests' = requests + 1
    /\ work' = [work EXCEPT ![h] = w]
    /\ UNCHANGED <<row, job, gateway, faults, past>>

-----------------------------------------------------------------------------
(* The handlers of the events, and the administrators' endpoints.           *)

onEvent(h) ==
    \E todo \in Notices, u, v \in Users :
        Receive(h, [Idle EXCEPT !.pc = "count", !.todo = todo, !.user = u, !.other = v])

SendNotificationDto == [userId : Users, channel : Channels, addressed : BOOLEAN, scheduled : BOOLEAN]

sendDirect(h) ==
    \E dto \in SendNotificationDto :
        /\ dto.addressed => dto.channel \in ByProvider
        /\ Receive(h, [Idle EXCEPT !.pc = "count", !.user = dto.userId, !.scheduled = dto.scheduled,
                                   !.todo = <<[To(dto.channel, "user") EXCEPT !.addressed = dto.addressed]>>])

\* A batch of a broadcast, of one notice.
sendBatch(h) ==
    \E c \in Channels, u \in Users :
        Receive(h, [Idle EXCEPT !.pc = "bulk", !.user = u, !.todo = <<To(c, "user")>>])

-----------------------------------------------------------------------------
(* NotificationRateLimiterService.consume: how many entries a window holds  *)
(* is left out, it may be full or not.                                      *)

consume(h) ==
    /\ At(h, "count")
    /\ Goto(h, "save") \/ Goto(h, "skip")
    /\ UNCHANGED <<row, job, gateway, requests, faults, past>>

-----------------------------------------------------------------------------
(* NotificationQueueService.enqueue: the row, the job, then the id of the   *)
(* job in the row.                                                          *)

\* A notification without a user has no row: the column is not null.
save(h) ==
    /\ At(h, "save")
    /\ IF For(h) = None THEN Advance(h) /\ UNCHANGED row
       ELSE /\ Free # {}
            /\ row' = [row EXCEPT ![NextId] = NewRow(h, IF work[h].scheduled THEN "scheduled" ELSE "queued")]
            /\ work' = [work EXCEPT ![h].pc = "queue", ![h].id = NextId]
    /\ UNCHANGED <<job, gateway, requests, faults, past>>

saveSkipped(h) ==
    /\ At(h, "skip")
    /\ IF For(h) = None THEN UNCHANGED row
       ELSE Free # {} /\ row' = [row EXCEPT ![NextId] = NewRow(h, "failed")]
    /\ Advance(h)
    /\ UNCHANGED <<job, gateway, requests, faults, past>>

add(i, state) == job' = [job EXCEPT ![i] = [NoJob EXCEPT !.state = state]]

addJob(h) ==
    /\ At(h, "queue")
    /\ add(work[h].id, IF work[h].scheduled THEN "delayed" ELSE "waiting")
    /\ Goto(h, "jobId")
    /\ UNCHANGED <<row, gateway, requests, faults, past>>

storeJobId(h) ==
    /\ At(h, "jobId")
    /\ row' = [row EXCEPT ![work[h].id].queueJobId = TRUE]
    /\ Advance(h)
    /\ UNCHANGED <<job, gateway, requests, faults, past>>

\* enqueueBulk: no limit, no schedule and no id of the job.
enqueueBulk(h) ==
    /\ At(h, "bulk") /\ Free # {}
    /\ row' = [row EXCEPT ![NextId] = NewRow(h, "queued")]
    /\ work' = [work EXCEPT ![h].pc = "addBulk", ![h].id = NextId]
    /\ UNCHANGED <<job, gateway, requests, faults, past>>

addBulk(h) ==
    /\ At(h, "addBulk")
    /\ add(work[h].id, "waiting")
    /\ End(h)
    /\ UNCHANGED <<row, gateway, requests, faults, past>>

\* cancel: the row is read, its job removed, and the row written whatever it
\* says by then.  A job that is running cannot be removed: the answer is no.
cancelScheduled(h) ==
    \E i \in Ids :
        /\ row[i].queueJobId
        /\ Receive(h, [Idle EXCEPT !.pc = "remove", !.id = i])

\* Mutant: a running job does not stop the cancellation.
removeJobAnyway(h) ==
    LET i == work[h].id IN
    /\ At(h, "remove")
    /\ IF Active(i) THEN UNCHANGED job ELSE job' = [job EXCEPT ![i] = NoJob]
    /\ Goto(h, "cancel")
    /\ UNCHANGED <<row, gateway, requests, faults, past>>

removeJob(h) ==
    LET i == work[h].id IN
    /\ At(h, "remove")
    /\ IF Active(i) THEN End(h) /\ UNCHANGED job
       ELSE job' = [job EXCEPT ![i] = NoJob] /\ Goto(h, "cancel")
    /\ UNCHANGED <<row, gateway, requests, faults, past>>

cancel(h) ==
    /\ At(h, "cancel")
    /\ row' = [row EXCEPT ![work[h].id].status = "cancelled"]
    /\ End(h)
    /\ UNCHANGED <<job, gateway, requests, faults, past>>

markAsRead ==
    /\ \E i \in Ids : row[i].status # "absent" /\ row' = [row EXCEPT ![i].status = "read"]
    /\ UNCHANGED <<job, gateway, work, requests, faults, past>>

markAllAsRead ==
    /\ \E u \in Users :
           row' = [i \in Ids |-> IF row[i].user = u /\ row[i].status \in {"delivered", "sent"}
                                 THEN [row[i] EXCEPT !.status = "read"] ELSE row[i]]
    /\ UNCHANGED <<job, gateway, work, requests, faults, past>>

-----------------------------------------------------------------------------
(* The workers.  A provider is called, then the log and the row written; in *)
(* the application the row comes first and the connections last; on the     *)
(* socket the connections come first.  The logs are not kept.               *)

Step(i, state) == job' = [job EXCEPT ![i].state = state]
Done(i) == job' = [job EXCEPT ![i] = NoJob]

\* Mutant: a job is never given up.
AgainAlways(i) ==
    job' = [job EXCEPT ![i] = [NoJob EXCEPT !.state = "waiting", !.attempt = job[i].attempt + 1]]

\* A job whose attempt failed waits for the next, or is given up.
Again(i) ==
    IF job[i].attempt = Attempts THEN Done(i)
    ELSE job' = [job EXCEPT ![i] = [NoJob EXCEPT !.state = "waiting", !.attempt = job[i].attempt + 1]]

Due(i) ==
    /\ job[i].state = "delayed"
    /\ Step(i, "waiting")
    /\ UNCHANGED <<row, gateway, work, requests, faults, past>>

process(i) ==
    /\ job[i].state = "waiting"
    /\ Step(i, IF row[i].channel = "in_app" THEN "update" ELSE "send")
    /\ UNCHANGED <<row, gateway, work, requests, faults, past>>

\* PushAdapter, SmsAdapter, EmailAdapter.
callProvider(i) ==
    /\ job[i].state = "send" /\ row[i].channel \in ByProvider
    /\ \E ok \in BOOLEAN :
           /\ ok => row[i].addressed
           /\ job' = [job EXCEPT ![i].state = "log", ![i].ok = ok]
    /\ UNCHANGED <<row, gateway, work, requests, faults, past>>

\* sendToUser: the room is sent the message, and the gateway says whether it
\* counts a connection of the user.
InRoom(u) == {s \in Sockets : Owner[s] = u /\ socket[s] \in {"joined", "on"}}
isConnected(u) == \E s \in userSockets : Owner[s] = u

sendToUser(i) ==
    /\ job[i].state = "send" /\ row[i].channel \notin ByProvider
    /\ past' = [past EXCEPT !.reached = IF row[i].channel = "websocket" /\ InRoom(row[i].user) # {}
                                        THEN @ \cup {i} ELSE @]
    /\ IF row[i].channel = "in_app" THEN Done(i)
       ELSE job' = [job EXCEPT ![i].state = "update", ![i].ok = isConnected(row[i].user)]
    /\ UNCHANGED <<row, gateway, work, requests, faults>>

saveLog(i) ==
    /\ job[i].state = "log"
    /\ CASE row[i].channel \in ByProvider -> Step(i, "update")
         [] row[i].channel = "in_app" -> Step(i, "send")
         [] OTHER -> Done(i)
    /\ UNCHANGED <<row, gateway, work, requests, faults, past>>

Final(i) == row[i].channel = "websocket" \/ job[i].attempt = Attempts

\* The status after an attempt; then, with a provider, another attempt.
updateRow(i) ==
    /\ job[i].state = "update"
    /\ row' = [row EXCEPT ![i].status =
                  IF row[i].channel = "in_app" \/ job[i].ok THEN "delivered"
                  ELSE IF Final(i) THEN "failed" ELSE "queued"]
    /\ IF row[i].channel \notin ByProvider THEN Step(i, "log")
       ELSE IF job[i].ok THEN Done(i) ELSE Again(i)
    /\ UNCHANGED <<gateway, work, requests, faults, past>>

-----------------------------------------------------------------------------
(* NotificationGateway: a client joins its rooms, then is counted.  It can  *)
(* leave at any time; one that leaves in between is counted after it left.  *)

handleConnection(s) ==
    /\ socket[s] = "off" /\ s \notin userSockets
    /\ socket' = [socket EXCEPT ![s] = "joined"]
    /\ UNCHANGED <<row, job, userSockets, work, requests, faults, past>>

count(s) ==
    /\ socket[s] \in {"joined", "left"}
    /\ socket' = [socket EXCEPT ![s] = IF @ = "left" THEN "off" ELSE "on"]
    /\ userSockets' = userSockets \cup {s}
    /\ past' = [past EXCEPT !.leaked = IF socket[s] = "left" THEN @ \cup {Owner[s]} ELSE @]
    /\ UNCHANGED <<row, job, work, requests, faults>>

\* Mutant: the connection that closed stays counted.
handleDisconnectOnly(s) ==
    /\ socket[s] \in {"joined", "on"}
    /\ socket' = [socket EXCEPT ![s] = IF @ = "on" THEN "off" ELSE "left"]
    /\ UNCHANGED <<row, job, userSockets, work, requests, faults, past>>

handleDisconnect(s) ==
    /\ socket[s] \in {"joined", "on"}
    /\ socket' = [socket EXCEPT ![s] = IF @ = "on" THEN "off" ELSE "left"]
    /\ userSockets' = userSockets \ {s}
    /\ UNCHANGED <<row, job, work, requests, faults, past>>

-----------------------------------------------------------------------------
(* Failures. *)

\* A command or a query of a request fails.  What consume meets it lets through.
RequestFails(h) ==
    /\ ~At(h, "idle") /\ faults < MaxFaults
    /\ faults' = faults + 1
    /\ IF At(h, "count") THEN Goto(h, "save") ELSE Advance(h)
    /\ past' = [past EXCEPT !.cut = IF work[h].pc \in {"queue", "addBulk", "cancel"}
                                    THEN @ \cup {work[h].id} ELSE @]
    /\ UNCHANGED <<row, job, gateway, requests>>

\* A step of a job fails, or its worker dies.
JobFails(i) ==
    /\ Active(i) /\ faults < MaxFaults
    /\ faults' = faults + 1
    /\ Again(i)
    /\ past' = [past EXCEPT !.cut = IF job[i].attempt = Attempts THEN @ \cup {i} ELSE @]
    /\ UNCHANGED <<row, gateway, work, requests>>

-----------------------------------------------------------------------------

Init ==
    /\ row = [i \in Ids |-> NoRow] /\ job = [i \in Ids |-> NoJob]
    /\ socket = [s \in Sockets |-> "off"] /\ userSockets = {}
    /\ work = [h \in Handlers |-> Idle]
    /\ requests = 0 /\ faults = 0
    /\ past = [cut |-> {}, reached |-> {}, leaked |-> {}]

Request(h) == onEvent(h) \/ sendDirect(h) \/ sendBatch(h) \/ cancelScheduled(h)
              \/ consume(h) \/ save(h) \/ saveSkipped(h) \/ addJob(h) \/ storeJobId(h)
              \/ enqueueBulk(h) \/ addBulk(h) \/ removeJob(h) \/ cancel(h) \/ RequestFails(h)

Worker(i) == Due(i) \/ process(i) \/ callProvider(i) \/ sendToUser(i) \/ saveLog(i) \/ updateRow(i) \/ JobFails(i)

Connection(s) == handleConnection(s) \/ count(s) \/ handleDisconnect(s)

Next == \/ \E h \in Handlers : Request(h)
        \/ \E i \in Ids : Worker(i)
        \/ \E s \in Sockets : Connection(s)
        \/ markAsRead \/ markAllAsRead

Spec == Init /\ [][Next]_vars

-----------------------------------------------------------------------------

\* The variables keep their types.
TypeOK ==
    /\ \A i \in Ids : row[i] \in Row \cup {NoRow}
    /\ job \in [Ids -> Job]
    /\ socket \in [Sockets -> {"off", "joined", "on", "left"}]
    /\ userSockets \subseteq Sockets
    /\ work \in [Handlers -> Local]
    /\ requests \in 0..MaxRequests /\ faults \in 0..MaxFaults
    /\ past \in History

\* A row that waits has a job that will deliver it, or a request about to add or
\* to cancel it, unless a failure stopped one; a cancelled one has no job left.
WaitingHasJob ==
    \A i \in Ids :
        /\ row[i].status \in {"queued", "scheduled"} /\ i \notin past.cut =>
              Live(i) \/ \E h \in Handlers : work[h].id = i /\ work[h].pc \in {"queue", "addBulk", "cancel"}
        /\ row[i].status = "cancelled" => ~Live(i)

\* A notification of the socket is called delivered only when a connection of the
\* user was there to receive it, unless one was counted after it closed.
DeliveredWasReached ==
    \A i \in Ids :
        row[i].channel = "websocket" /\ row[i].status = "delivered" =>
            i \in past.reached \/ row[i].user \in past.leaked
=============================================================================
