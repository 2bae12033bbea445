# A verification of the SupperApp backend

SupperApp is the backend of a mobility application (rides, scheduled rides, food,
deliveries, a wallet fed by mobile money, a referral programme).  It is one NestJS
process, or several behind a balancer, over PostgreSQL (TypeORM), Redis and BullMQ.
This directory holds TLA+ models of its core, the TLC configurations that check them
on small instances, and TLAPS proofs of the properties that matter most.

Paths below are relative to `src/src/modules/` unless they begin with `src/`.

## 1. Inventory

### How the parts interact

- **HTTP handlers** are `async` functions. Two requests interleave at every `await`,
  in one process as much as in several. No handler of a ride or of a payment uses a
  transaction or a conditional update: a row is read, checked, and later rewritten by
  id.
- **The event bus** (`src/src/shared/events/event-bus.service.ts`) is an in-process
  EventEmitter. `emit` returns before the listeners have done anything; a listener that
  fails, or a process that dies, loses the event.
- **Queues** (BullMQ on Redis) are durable: delayed jobs, attempts with back-off,
  deduplication by job id.
- **Crons** run in every process and read the tables they sweep.
- **Redis** holds what expires: OTP codes, refresh tokens, driver positions, dispatch
  locks, caches of permissions, cities and prices.

| Event | Published by | Heard by |
|---|---|---|
| `RIDE_REQUESTED` | ride creation, scheduled worker, modification worker | dispatch |
| `RIDE_COMPLETED` | ride completion | wallet, referral, notifications, analytics |
| `PAYMENT_SUCCESS` | payment confirmation | wallet, notifications |
| `WALLET_CREDITED` | wallet, inside its transaction | notifications |
| `USER_REGISTERED` | registration | referral |
| `RIDE_RATED` | rating | drivers |
| `DRIVER_LOCATION_UPDATED` | driver location | tracking gateway, drivers |

Nothing publishes `RIDE_STARTED`, `DELIVERY_COMPLETED` or `FOOD_ORDER_DELIVERED`.
Nothing in the repository opens, freezes or debits a wallet, and nothing moves a ride
from `pending` to `searching` or between `accepted` and `in_progress`: the models
give those steps to the environment.

### The components

| Component | State | Operations | What is hard | What makes it correct |
|---|---|---|---|---|
| Ride use cases | table `rides` | create, accept, cancel, complete, rate | unconditional writes after a stale read; an event after the write | the table of transitions; a trip under way has a driver; events tell the truth |
| Ride modification | `rides`, modification logs, queue, a conflict key in Redis | modify before departure or en route, price, conflict | a key and a job of 120 s each, on two clocks started at different awaits; a worker that resets a ride unconditionally; a row and its log in two writes | a driver is taken off no more often than he was asked; the row agrees with its logs |
| Scheduled rides | `rides.scheduled_at`, BullMQ queue | two crons, one worker | rescans, retries, crash between write and event, moved rides | handed over at most once; never stuck |
| Dispatch | lock per ride, offers | dispatch with lock, waterfall, wait for an answer | lock shorter than the waterfall, deletion of another's lock, answers that come late or never | one dispatch of a ride and one offer at a time; every dispatch ends |
| Drivers and location | geo index, hashes of the drivers | move, rate | the hash that should expire does not: the service that sets the expiry has no caller | - |
| Wallet | `wallets`, `wallet_transactions` | credit, debit, listeners | concurrent credits, a freeze during a credit | balance = sum of lines; a credit is atomic |
| Payments | `payments` | initiate, confirm | webhook before the provider's answer; repeated confirmations | only paid top-ups are credited |
| Referral | `referral_usages`, `referral_reward_logs` | register, count trips, grant | lost counts, trips announced twice, overlapping grants, crash after the logs | no early reward, no unlogged bonus, no bonus twice for one announcement |
| Authentication | Redis: codes, counters, tokens; `users` | register, OTP, login, refresh, logout, reset of a password | read-modify-write of a code; two-command rotation; a sweep that races an issue | a code and a token are used once; a reset ends the sessions; a counter ends |
| Users and KYC | `users`, KYC documents | submit, review, invite | submission during a review; two writes without a transaction; notifications that are late, out of order or lost in silence | the two tables and the files agree; an approval that is told stands; a campaign calls each user once |
| Administration, RBAC | roles, assignments, permission cache | assign, revoke, roles and their permissions, the guards | a cache filled by a read that an invalidation overtook; a grant looked for and then inserted | what a guard decides by is what the tables say; one active grant |
| Announcements | `system_announcements` | draft, schedule, publish, archive, crons, broadcast | broadcast before the status is saved; whole-row saves; a loop in the background over pages without an order | what is shown has its broadcast; a due announcement leaves; the counters bound who got a job |
| Notifications | notifications, delivery logs, queues, sockets | handlers of the events, queue, deliver, limit, cancel, read | a row and its job in two stores; retries; a socket that closes while it joins | what waits has a job; delivered means that somebody was there |
| Pricing | rules | pipeline | bounds and rounding | the breakdown sums to the price |
| Cities | table and cache | read, update | stale cache | - |
| Food, delivery, analytics | tables | create, list, report | - | - |
| Guards, filters, Redis and database wrappers | counters in Redis | per request | INCR and EXPIRE in two commands | windows end |

## 2. Modules

```
RideStatus <- Rides <- ScheduledRides
     ^                      ^
 RideModification <--- RidesProof        (of Rides, ScheduledRides and RideModification)

Ledger <~~ Wallet                       (Wallet implements Ledger)
   ^          ^
Referral <- WalletProof                 (of Wallet, and of Referral, which credits the wallets)

Dispatch <- DispatchProof               Auth <- AuthProof
Announcements <- AnnouncementsProof     Kyc <- KycProof
Notifications <- NotificationsProof     Rbac <- RbacProof
```

**RideStatus** - `enum RideStatus`, `VALID_TRANSITIONS`, and the groups of statuses the
queries select. `"absent"` is an id without a row.

**Rides** - one record per ride (status, user, driver: the columns the use cases read),
one record per running handler, and the event published last.

| Action | Code |
|---|---|
| `CreateCheck`, `CreateWrite` | `create-ride.usecase.ts`: active ride of the passenger, then the insert |
| `AcceptRead`, `AcceptCount`, `AcceptWrite` | `accept-ride.usecase.ts`: row and status, count of active rides, update |
| `CancelRead`, `CancelWrite` | `cancel-ride.usecase.ts` |
| `CompleteRead`, `CompleteWrite` | `complete-ride.usecase.ts` |
| `ModifyRead` | a passenger's change that asks the driver of an accepted ride, as far as Rides sees it: the job of the worker is queued |
| `ReleaseRead`, `ReleaseWrite`, `ReleaseRetry` | `resolveConflict` of `ride-modification.worker.ts`: the row only has to be there; driver and status are reset whatever it says; an attempt that fails runs again |
| `Emit` | the `eventBus.emit` that ends each of them, with the fields of the row that was *read* |
| `Abort` | an `await` that throws, or the process dying: what was written stays |
| `ExternalProgress` | the transitions of the table that no code performs |

A handler remembers the row it read (`seen`). The writes do not look at it, as in the
code. Fees, addresses and timestamps are left out, and so are the five minutes in which an
accepted ride can be changed and the key that settles a conflict: a release may come at any
time after its question, or (`Abort`) never.

**ScheduledRides** - adds a clock, `scheduledAt`, the list a cron has read and not yet
worked off (`scan`), the BullMQ job of each ride and a counter of hand-overs. `CronScan`
and `CronAdd` are `processPendingScheduledRides` (one query, then one `queue.add` per
ride, which does nothing while a job of the same id is known). `StaleRead` and
`SystemCancel` are `cancelStaleScheduledRides`; `TriggerSkip`, `TriggerRead`,
`TriggerWrite`, `SystemCancel` and `SystemEmit` the worker; `WorkerAbort` a failed or
stalled attempt; `ForgetJob` the queue's own removal of ended jobs; `RescheduleRead`
and `RescheduleWrite` the modification that moves a ride and leaves its job alone.

**Ledger** - what the wallet promises: a credit is one atomic step on an active
account; nothing else moves a balance.

**Wallet** - `wallets` and `wallet_transactions` as committed, `payments`, the payment
requests and the calls of `credit()`. `CreditLock` is `SELECT FOR UPDATE` and the check
of the status, `CreditAnnounce` the event published inside the transaction,
`CreditCommit` makes the balance (computed from the row that was read) and the line
visible, `CreditRefused` and `CreditRollback` leave nothing. `InitiateSave`,
`InitiateUpdate`, `ConfirmRead`, `ConfirmWrite` and `ConfirmEmit` are `PaymentsService`
cut at its awaits. `RideCompleted` is the event of Rides and the listener that credits
80 % of the price. Amounts keep the factors of the code (80 and 100).

**Referral** - `EXTENDS Ledger`, whose `Credit` is the call of `WalletService.credit`:
what Wallet guarantees is what Referral uses. Registration of a referee, one task per
completed trip cut at its awaits (`TripRead` ... `TripComplete`), then `grant()`: the
transaction that inserts both logs, or finds the unique key taken, and the two credits
that follow it, each marking its log. A task is an *announcement* of a trip (`TripOf` names
the trip): `RIDE_COMPLETED` can be published twice, and the listener counts it twice.

**Dispatch** - `DispatchService` over Redis. A key with an expiry is the time it has
left; `Tick` lets the same time pass for the locks, the offers and the waits.

| Action | Code |
|---|---|
| `Requested` | a `RIDE_REQUESTED`, first or repeated, starts the listener |
| `Acquire`, `Refused` | `SET dispatch:lock:{ride} NX EX` of `dispatchWithLock` |
| `Search` | GEORADIUS and the hashes; any order of at most `MaxAttempts` of the drivers found is a ranking, none ends the dispatch |
| `Offer` | the offer with its expiry, then the event to the driver |
| `Poll` | `waitForDriverResponse`: accepted, refused or expired, or the deadline |
| `NextDriver` | DEL of the offer, the next driver or the end of the list |
| `Release` | the `finally`: DEL of the lock, whoever set it |
| `Throw`, `Crash` | a command that fails inside the `try`; the process dies |
| `LocationIndexed`, `MetaWritten` | what the tracking gateway and a rating write about a driver |
| `DriverAnswers`, `Tick` | outside the repository: the driver's application, and time |

Nothing in the repository writes the answer of a driver, so it is free. The history
variable `disturbed` holds the rides of which a dispatch failed, died or outlived its
lock: it is how `OneOfferAtATime` says when it holds.

**RideModification** - one ride under the changes of its passenger, from the moment a
driver is sought. The rest of its life are the transitions of RideStatus, a step each.
A destination is a point of a line; a price names the destination it is for, and whether it
was scaled from another price (the estimate of a change en route) or computed by the worker.
The grace period, the key and the delay of a job are three clocks, each of which ends when
it does: nothing in the code orders them.

| Action | Code |
|---|---|
| `modify`, `modifyEnRoute` | `modify-ride-before-departure.usecase.ts`, `modify-ride-enroute.usecase.ts`: the row, its checks, the fee |
| `write`, `saveModificationLog`, `LogFails` | the update of the ride from the row read, then the log; a DTO without an address or a time has no new value, and its insert fails after the ride was updated |
| `enqueuePrice`, `recordConflict`, `enqueueNotice`, `enqueueResolve` | the jobs, and `SET modification:conflict:{id} EX 120`, in the order of each use case |
| `process`, `recalculatePrice`, `priceLog`, `notifyDriver` | the worker, a job at a time |
| `resolveConflict`, `releaseDriver`, `deleteKey` | the delayed job: the key, the unconditional reset of the ride, DEL |
| `respondToModification` | `PATCH .../modification/respond`: it writes nothing |
| `RequestFails`, `JobFails` | a failing step, the attempts of a job |
| `GraceEnds`, `KeyExpires`, `DelayEnds`, `RideMoves` | the clocks of the service, of Redis and of the queue; the other use cases |

**Auth** - the rows of the users, and each kind of key of Redis as a variable. A key may
expire at any time (`KeyExpires`); `Write(lost)` is a command through the wrapper, whose
errors are swallowed, and `Fail` a failing query or raw command.

| Action | Code |
|---|---|
| `canActivate`, `increment`, `expire` | `BruteForceGuard` and the limit of the codes sent: INCR, then EXPIRE for the first of a window |
| `registerCheck`, `register` | `AuthService.register` under the unique phone |
| `sendOtp`, `deliverOtp`, `verifyOtp`, `exhausted`, `wrongCode`, `rightCode` | `OtpService`: the block, the code, and the verification cut between its read and its write |
| `findUser`, `verifyPhone` | the activation of an account |
| `login`, `issueTokenPair`, `addToIndex` | credentials, `SET rt:{token}`, then `SADD rt:user:{id}` |
| `readToken`, `deleteToken`, `refresh` | the rotation, and the logout of a device |
| `revokeAll`, `purge` | SMEMBERS, then one pipeline: the tokens listed and the whole set |
| `forgotPassword`, `readLink`, `resetPassword`, `spendLink` | the link of an administrator; the row that was read before the hash is saved whole |

**Kyc** - `user_kyc`, the flag of `users`, the files and what the client was told.
`submit`, `saveFiles`, `submitKyc` are a submission, `review`, `reviewKyc`, `flag` a
decision, `save` the write of the entity both read, `emit` the event: its listener runs on
its own, and `notify` shows one of the notifications under way, in any order, or loses it,
for `NotificationsService.notify` logs every error and a rate limit skips it.
`sendKycInvitation`, `notifyUser`, `continueInvitation`, `answerInvitation` are the campaign
of `AdminService`: the users of a slice are called side by side and in any order, no call is
ever rejected, and the answer is the number of users chosen.

**Rbac** - roles, their permissions, grants, and the cached permissions of each user.
`request`, `getEffectivePermissions`, `load`, `fill`, `canActivate` are a guard (the
permission guard asks twice, to decide and to name the roles it logs); `assign`,
`assignRole`, `findExisting`, `insertGrant`, `revoke`, `revokeRole`,
`bootstrapSuperAdmin`, `adminAssignRole` the grants; `createRole`, `updateRole`,
`deleteRole`, `changePermissions`, `changePair` the roles; `invalidateCacheForRole`,
`invalidateCache` what follows some of them. A grant whose date passes
(`GrantExpires`) is written by nobody.

**Announcements** - each operation of `AnnouncementsService` is a read with its checks
(`create`, `update`, `schedule`, `publish`, `archive`, `republish`, `duplicate`,
`remove`) and a later save of the *whole* row (`Save`), because `save()` rewrites every
column that differs from what it finds. `Send` is `doBroadcastAndPublish`, which creates
the broadcast first. `executeBroadcast`, `Batch`, `Record`, `Complete`, `BroadcastFails` are
the loop of `BroadcastService`, which runs in the background. `fetchUsersBatch` is *any* set
of users of the size that OFFSET leaves, because the query has no order; a batch that throws
may have queued some of its channels. `BroadcastFaults` are its failures; the first update
and the one of the `catch` are outside the `try` of the code, and a rejection there ends the
process (`Crash`). `publishScheduled`, `PublishNext` and `expireOutdated` are the crons. A
broadcast with a date is created and never run: `send` leaves it to a scheduler that does
not exist.

**Notifications** - the handlers of the domain events (`Notices` lists what each one
sends, in its order), `consume`, `save`, `addJob`, `storeJobId` for one notification,
`enqueueBulk`, `addBulk` for a batch; `process`, `callProvider`, `sendToUser`,
`saveLog`, `updateRow` for the five processors, which write the log, the row and the
socket in different orders; `cancelScheduled`, `removeJob`, `cancel`, `markAsRead`,
`markAllAsRead`; `handleConnection`, `count`, `handleDisconnect` for the gateway.

Several of these modules have history variables (`past`, `excused`, `overlapped`,
`disturbed`) that no action reads. They name the exact events - two requests that held the
same row, a lost write, a cut sequence - after which a property is not claimed. Such a
property says that *nothing else* breaks the promise; it does not catch the race it names.
Where the repository promises more, the promise itself is a property too, with a
configuration of its own that TLC refutes (section 3).

**MC\*** - the instances for TLC. **RidesProof, WalletProof, DispatchProof, AuthProof,
AnnouncementsProof, NotificationsProof, KycProof, RbacProof** - the proofs.

## 3. Runs

| Run | Instance | Checks |
|---|---|---|
| `rides` | 2 rides, 1 passenger, 2 drivers, 2 handlers, symmetry; 874,546 states | types; `TripHasDriver`; `EventHasCause`; `TableObeyedUnlessStale` |
| `scheduled_rides` | 1 ride, 2 handlers, clock to 4; 393,519 states | queue lock; `RequestedAtMostOnce`; `TableObeyedUnlessStale`; `ScheduledRideLeaves` |
| `wallet` | 2 users, 1 payment, 1 ride, 2 payment requests, 2 credits; 186,934 states | types; `BalanceIsSumOfLines`; `TopupIsPaid`; `ImplementsLedger`; `CreditEnds` |
| `topup_face_value` | 1 of each | *violated:* `TopupAtFaceValue` |
| `referral` | 3 accounts, 2 trips of which one is announced twice, threshold 2, cap 1; 1,385,136 states | types; `RewardTrail` (no early reward, every credit has a log, what was granted was credited, one credit per announcement) |
| `dispatch` | 1 ride, 2 drivers, 2 dispatches, lock 3, offer 2, 2 attempts; 117,242 states | types; `OneOfferAtATime`; `DispatchEnds` |
| `ride_modification` | 1 ride, 1 driver, 2 destinations 3 km apart, 2 requests, 2 changes, 2 attempts, 1 failure, symmetry; 1,877,928 states | types; `RowAgreesWithLogs`; `ReleasedIfAsked` |
| `auth` | 1 user, an administrator; 2 handlers, 3 requests, 3 tokens, 2 codes, 1 failure, symmetry; 1,117,036 states | types; `RefreshOnce`; `SessionsEndAtReset`; `CodeKeptUnlessMixed`; `CounterExpires` |
| `kyc` | 3 users, slices of 2, 2 administrators (one of a city), 2 handlers, 3 requests, 1 failure, symmetry; 146,544 states | types; `KycAgrees`; `EachCalledOnce` |
| `rbac` | 2 users, 2 roles, 1 permission, 2 grants, 2 handlers, 3 requests, 1 failure, symmetry; 1,358,068 states | types; `CacheAgrees`; `GrantedOnce` |
| `announcements` | 2 announcements (one a draft), 2 administrators, 1 user, pages of 1, a handler and a cron, 3 broadcasts, 2 requests, 1 failure; 334,655 states | types; `LifeCycleObeyedUnlessStale`; `VisibleWasBroadcast`; `BroadcastAccounted`; `DueLeaves` |
| `notifications` | 1 user, 1 socket, 2 rows, push and websocket, 2 attempts, 2 requests, 1 failure; 3,256,000 states | types; `WaitingHasJob`; `DeliveredWasReached` |

Beside the runs stand configurations of the same modules for what the repository says and
the code does not keep. TLC refutes each property below, on the smallest instance that
breaks it. Only the first is a run (its finding is in `PROJECT.json`); the others are kept
to be run by hand, and `MC*Promises.cfg` list properties each of which is refuted
when it is checked alone.

| Configuration | Property | What the repository says | The trace |
|---|---|---|---|
| `MCWalletFaceValue` | `TopupAtFaceValue` | an amount is in centimes (`payments/presentation/dto/payment.dto.ts:23`) | it is multiplied by a hundred (`wallet.service.ts:146`) |
| `MCRidesOneDriver` | `OneActiveRidePerDriver` | "Driver already has an active ride" (`accept-ride.usecase.ts:27`) | a driver in status `arrived` is not counted as busy |
| `MCScheduledRidesCrash` | `RequestedOnceJobEnds` | "Retry automatique si le worker crash" (`scheduled-rides.worker.ts:15`) | a worker dies between `update` and `emit`; the retry skips a ride already `searching` |
| `MCScheduledRidesMoved` | `NotBeforeDue` | "Ce worker reçoit le job à l'heure scheduledAt - 1min" (`scheduled-rides.worker.ts:24`) | a ride that was moved is triggered at its old time |
| `MCReferralPromises` | `RewardedOnce` | "La méthode grant() est idempotente" (`referral-reward.service.ts:28,34`) | two trips meet at the threshold; the `return` inside the transaction does not leave `grant()` |
| `MCReferralPromises` | `MinimumOfTrips` | "Nombre minimum de trips pour déclencher le reward" (`referral-program.entity.ts:85`) | one trip is announced twice |
| `MCDispatchTwice` | `OneDispatchPerRide` | "anti-doublon multi-instances" (`dispatch.service.ts:40`) | the lock (60 s) expires within a waterfall (up to 5 offers of 15 s) |
| `MCRideModificationPromises` | `DriverKept` | "sinon modification acceptée implicitement" (`modify-ride-before-departure.usecase.ts:241`) | the job of a silent driver finds the key and takes him off |
| `MCRideModificationPromises` | `OnlyWaitingReleased` | "Course en attente → re-dispatch" (`ride-modification.worker.ts:202`) | the ride has started when its driver is taken off |
| `MCRideModificationPromises` | `LogsImmutable` | "jamais d'UPDATE ni de DELETE" (`ride-modification-log.entity.ts:27`) | the worker updates the last log |
| `MCRideModificationPromises` | `EveryChangeLogged` | "Audit trail immuable de toutes les modifications" (`ride-modification-log.entity.ts:26`) | coordinates without an address change the ride, and the log is refused |
| `MCKycPromises` | `ApprovedIsVerified` | an approval sets `kycVerified` (`users.controller.ts:316`) | two reviews meet: one writes the row last, the other the flag |
| `MCKycPromises` | `InvitationHonest` | "@returns Nombre d'utilisateurs notifiés" (`admin.service.ts:67`) | a user is counted whose notification was never queued |
| `MCAnnouncementsPromises` | `DocumentedLifeCycle` | "PUBLISHED → ARCHIVED" (`announcement.entity.ts:37-40`), "Irréversible via API" (`announcements.controller.ts:329`) | a draft is archived; `republish` makes an archived announcement a draft |
| `MCAnnouncementsPromises` | `ArchivedStaysHidden` | "Masque l'annonce du fil utilisateur" (`announcements.controller.ts:329`) | the cron saves a row it read before the archive |
| `MCAnnouncementsTwice` | `BroadcastOnce` | "exécuter deux fois = même résultat" (`announcements-cron.service.ts:18`) | a run stops between the broadcast and the save |
| `MCBroadcastsMissed` | `RecipientsIdentified` | "Nombre total de destinataires identifiés" (`broadcast-notification.entity.ts:65`) | two pages repeat a user and miss another |
| `MCAuthOnce` | `OneTimeUse` | "one-time use" (`token.service.ts:67`) | two refreshes read it before either deletes it |
| `MCRbacInvalidated` | `InvalidatedOnChange` | "La clé Redis est invalidée lors d'un changement" (`rbac.service.ts:57`) | `AdminService.assignRole`, which does not |

`MCBroadcasts.cfg` is a second instance of `BroadcastAccounted`, which holds: 3 users in pages
of 2 that repeat and miss, two failures, 32,061 states.

What they show:

- However create, accept, cancel, complete and the worker's release interleave, a ride that
  is under way names a driver, and `RIDE_COMPLETED`, from which the wallet credits
  `ride.driverId!`, always carries one. The row itself may have lost it: a completion that
  meets the release leaves a *completed* ride without a driver. The table of transitions is
  *not* an invariant: two overlapping handlers can complete a cancelled ride or accept a ride
  twice, and the worker resets a ride from any status. `TableObeyedUnlessStale` says that it
  needs one of the two.
- A scheduled ride is handed to the dispatcher at most once, and does not stay scheduled
  for ever. (A stalled worker is modelled as one that was killed.)
- The locked transaction implements the ledger, and every call of `credit()` ends.
  A top-up credits a hundred times what was paid.
- By the counter of a usage no reward is early, and every bonus can be traced to a log. The
  counter itself is right only if every trip is announced once.
- While its lock lasts a dispatch is alone and asks one driver at a time, and every
  dispatch ends.
- A passenger's change costs a driver his ride at most once per question and failure: a
  change en route never does, nor a job that has done its work. Whether a silent driver
  loses the ride is a race: the key and the job last 120 s each, the key is set two commands
  earlier, so it has usually expired when the job reads it, and when it has not (a clock that
  is late, a second change that set it again) the release is unconditional and hits a ride
  that has started. The comment of the worker (a release) and that of the use case (implicit
  acceptance) describe different outcomes, and the code has both.
- A ride is never charged more than its changes cost, and at rest its count and fees are
  those of its logs unless two changes read the same row or a log was not written. The price
  is the one of the destination unless a change meets the pricing of another.
- A refresh token is exchanged once and a reset of a password ends the sessions opened
  under the old one, except in the races the two properties name: a token read twice
  before it is deleted, and a session being issued while the set is listed. The hash is
  saved with the whole row read before it was computed: a suspension in between is undone.
- A code that was accepted is gone and its attempts are those made, unless two requests
  held it at once. A counter without an expiry is only ever one INCR old.
- What a guard decides by is what the tables say, unless an invalidation is on its way or
  one of the writers that do not invalidate came by: `updateRole`,
  `AdminService.assignRole`, a date that passes, a lost command, or a reader that fills the
  cache with what it read before.
- A verified user always has a file with its documents. The flag follows the status of the
  file whenever no request holds the row, unless two once held it together; outside the same
  meetings a client who is told of an approval has it, in whatever order the notifications
  come. A campaign calls each user it counts once. Whether the call left a notification
  behind it does not know.
- What is shown names a broadcast that was made for that announcement before it became
  visible. The broadcast may have failed or lost its process, and `update` may have moved a
  published announcement to another city since: the property does not compare cities. A due
  announcement always leaves its schedule. It may be broadcast twice: a crash
  after `send` leaves it scheduled. Only saves of old rows leave the life cycle, and they
  can bring a deleted announcement back. That life cycle is the one the guards allow: the
  three transitions that the entity does not document (`Undocumented`) refute
  `DocumentedLifeCycle`.
- The counters of a broadcast bound the users that got jobs: nobody has all jobs who is not
  counted as sent, nobody any who is not in the total, but for the page in hand. A
  completed broadcast has counted as many users as its audience has, unless some came or
  left, but not each of them once. One that lost its process stays `PROCESSING`; nothing
  takes it up, nor one that is scheduled.
- A notification that waits has a job, or a failure stopped the request or the job between
  its writes; a cancelled one has none. A websocket message is called delivered only if a
  connection received it, unless one was counted after it had closed. (Handlers give no
  device token, so a push of an event always fails after its attempts.)

**Bounds.** The hazards are pairwise: a stale read and the write that overtakes it, two
transactions on one row, two trips at one threshold. Two handlers, two credits and two
overlapping tasks are therefore the interesting case, and the third trip or account is
the bystander that must not be affected. `Handlers` and `Credits` bound how many
requests run and how many credits are made. `MaxTime`, `Window`, `Lead`, `Grace`,
`Advance` and `MaxAttempts` scale the 16, 1, 30 and 10 minutes and the 3 attempts of
the code down to small numbers that keep the order of the thresholds that the code
compares with each other; times beyond `Bookable` are not booked so that the clock can
outrun every ride. In `dispatch` the lock (3) lasts longer than an offer (2) and shorter
than the two offers of a waterfall (4), as 60 s stand to 15 s and 75 s. `CHECK_DEADLOCK`
is off where the model really stops (ids, credits, requests or the clock run out), and
on for `dispatch`, which never does.

The runs of RideModification, Auth, Kyc and Rbac have two handlers where two requests race for
the same row or key. `announcements` and `notifications` have one handler beside a cron
or the workers: there the race is between a request and what runs in the background, and
the second announcement is the one that a request can create or clone; a second cron is not
explored. `MaxRequests` is
what a trace needs: three for a grant, a revocation and a guard that reads between them,
or for a login, a reset and a refresh, or a submission that meets two reviews. One
failure is enough to cut any sequence at any place; `MaxFaults = 0` behaviours are
included. `kyc` has three users in slices of two: a full slice, a short one, and users side
by side within a slice. In `announcements` a page is one user, and a broadcast reads a full
page and then an empty one; pages that repeat and miss users are what `MCBroadcasts.cfg` adds, and
the theorem covers every size.
Symmetry permutes handlers (and users, in `rbac`) only, and only where no liveness is
checked.

**Fairness.** `wallet` assumes that a transaction that can go on does (weak fairness of
each credit): the database serves its lock queue. `scheduled_rides` assumes that the
clock runs, that a handler which started goes on or fails, and strong fairness of the
hourly cron for each ride: it runs again and again, and neither finds no free handler
nor fails for ever. The worker and the enqueueing cron get no fairness: they may be
down for good, and the safety net alone must free the ride. `dispatch` assumes that time
passes and that a dispatch which can go on does: its waits are polls with a deadline and
its commands return or throw. `announcements` assumes that the cron runs for ever and
that its calls return or throw (weak fairness of a cron that has something to do): Nest
starts it every minute, and a failing publication is caught, so that the next run finds
the row again. Requests, broadcasts and the clock get no fairness.

## 4. Proofs

For every number of rides, users, drivers, handlers, payments, credits, trips, dispatches,
requests, tokens, codes, announcements, broadcasts, notices, sockets, documents, campaigns,
roles and grants, and for all fees, delays, expiry times, attempts, thresholds and page sizes, from the assumptions the modules state about their constants
and nothing else:

- `RidesProof`, of Rides: `TypeCorrect`, `TripHasDriverTheorem`, `EventHasCauseTheorem`,
  `TableObeyed`. `TripHasDriver` is not inductive: an acceptance writes the driver its
  local state names, a completion writes over whatever is there. `IInv` adds `LocalsOK`: a
  handler about to accept names a driver, one about to complete has read a row with one, and
  the row each of them writes is still there. It does not say that a row keeps its driver, for the
  worker's release takes him away: that the event of a completion carries one rests on the
  row that was read, and that no trip is without one on the release resetting the status
  together with the driver.
- `RidesProof`, of ScheduledRides: `SchedTypeCorrect` (with the lock of the queue: a job is
  active exactly while one handler works on it), `RequestedAtMostOnceTheorem`,
  `SchedTableObeyed`. That a ride is
  handed over once does not follow from the lock, for a job runs again after a crash. It
  follows from the order of the two writes: a handler that is about to publish has moved the
  row out of "scheduled" (`HandlersOK`), a row that was handed over has left it and nothing
  brings it back (`HandedOverLeft`), and the handler that starts again reads it
  (`OneWorker`: no second one is between the read and the write).
- `RidesProof`, of RideModification: `ModificationTypeCorrect`, `RowAgreesTheorem`,
  `ReleasedTheorem`. The row is written before its log and priced long after, so what the run
  checks of a ride at rest says nothing of the steps between. `ModInv` does. `BoundsOK`: the
  logs written and those still to come are no more than the changes begun, and no change
  costs more than the dearest fee. `BooksOK`: the count and the fees of the row, and of the row
  a request is about to write, are at most those of the logs and of the changes that have no
  log (`past.unlogged`, `past.owed`), so that `write` adds to both sides and
  `saveModificationLog` moves a change from one to the other. While no two requests read the
  same row (`~past.torn`), `ExactOK` gives the other direction: one request writes, from the row as it
  is. `AskedOK` counts: the releases made, the jobs that may still release and the one in
  the worker's hand are at most the questions asked and the failures; nothing is said of
  the clocks. `WorkerOK` ties the place of the worker to its job. While a change meets no
  pricing and nothing failed (`~past.mixed`), `PriceOK` follows the destination from the row read
  to the job and the price of the row.
- `WalletProof`, of Wallet: `TypeCorrect`, `BalanceTheorem`, `TopupTheorem`, `RefinementTheorem`.
  The argument of the first part is the lock: `LockExclusive` (at most one credit holds
  the row of a user) and `SeenIsCurrent` (what the holder read is what is there), so the
  balance it writes continues the lines. That of the second is that a payment's owner,
  kind and amount never change and `paid` never goes back (`RowsHaveUser`, `RequestsOK`,
  `CallsBacked`). The refinement maps the commit to `Credit` - `SeenIsCurrent` and the
  lock give the balance and the status -, a change of status to `SetActive` or a
  stutter, and every other step to a stutter.
- `WalletProof`, of Referral: `ReferralTypeCorrect`, `RewardTrailTheorem`. A reward runs over many transactions,
  so `ReferralIInv` says what each task has behind it: `TaskKnows` (its announcement is
  counted, the threshold is reached and, once it pays, the logs are there) and `TaskPaid`
  (which lines it has written, by the place it is at, so that it writes none twice).
  `CountsOK` bounds the counter of a usage by the announcements counted, of which overlapping
  tasks can lose some but never gain, `ReachedOK` and `LogsTogether` relate usage, count and
  logs, and `Later` - counted announcements, usages and logs are never taken back - carries what
  the other tasks know over each step. The theorem is about announcements: a trip that is
  announced twice is counted and can be paid twice.
- `DispatchProof`: `TypeCorrect`, `OneOfferTheorem`. `IInv` adds to the types, for every
  undisturbed ride, `LockHeld` (who dispatches it still has its lock, and is alone) and
  `PendingAsked` (a pending offer is the one its dispatch waits for, and expires no later
  than the wait: hence a dispatch that moves on leaves no pending offer behind).
- `AuthProof`: `TypeCorrect`, `RefreshOnceTheorem`, `SessionsEndTheorem`, `CodeKeptTheorem`,
  `CounterExpiresTheorem`. Each needs to say who is between two commands. `TokensOK`: a token
  that no two requests have read has one holder, has no successor as long as it is held, and
  is not handed out again once it was exchanged. `PasswordsOK`: an old password is in a
  session, or on its way to one, only while the reset that replaced it has not swept, or where
  the history names the race. `CodesOK`: the request that holds an unmixed code has its last
  state, so what it writes back is right; a code in use is not later than the last one sent.
  `PresentOK`: whoever has a live session, a link or a request in need of a row has a row.
- `AnnouncementsProof`: `TypeCorrect`, `VisibleWasBroadcastTheorem`, `LifeCycleTheorem`,
  `BroadcastAccountedTheorem`. What is shown depends on what a worker is about to save, so
  `IInv` adds to the types `RowsBacked` and `SavesBacked` (a published row, saved or about
  to be, names a broadcast of its own) and `WorkOK` (a worker that sends holds a draft or a
  scheduled row, one that saves holds a legal successor of the row it read: a save that is
  illegal from the row it *finds* is therefore stale). `AccountsOK` is the loop invariant of
  a broadcast: whoever has a job is counted or in the page in hand, and, while no user comes or
  leaves, what it counted with that page is its offset, up to the size of its audience, and
  all of it once a page was short. It needs the sizes of the pages, never which users they hold.
- `NotificationsProof`: `TypeCorrect`, `WaitingHasJobTheorem`, `DeliveredTheorem`. A row and
  its job are two writes by two processes. `KnowsOK` says what a request knows at each
  place: its row is there, has no id of a job until the request stored it, and has one when
  it cancels, whose job is gone once it is about to write the status. `OneAdds`: one request
  adds the job of a row, so nothing can be queued after a cancellation found the id.
  `RowOK` adds to the property how far each processor has come, for they write in different
  orders: one that is past its update leaves no waiting row behind, and one that will call a
  row of the socket delivered met a connection, or one that is counted after it closed
  (`SocketsOK`).
- `KycProof`: `TypeCorrect`, `KycAgreesTheorem`, `InvitationTheorem`. The row, the flag, the
  files and the notification are written one after the other, so agreement is not inductive.
  `KnowsOK` says what a request is about to save: documents that are on the disk, with the
  status of its decision. `AgreesOK`, for a user whose requests never met: one request holds
  the row, the flag follows the row until that request saves, and then exactly what it has
  written by its place is there (`Settled`, `Reached`). `ApprovalStands` is kept beside it,
  because the notification of an approval is still under way when the next request comes. For
  a campaign, `Campaign` counts calls: one for each user chosen who is neither to do nor in
  the slice in hand. That a slice is part of those to do needs that the users are finitely many.
- `RbacProof`: `TypeCorrect`, `CacheAgreesTheorem`, `GrantedOnceTheorem`. A wrong entry of the
  cache is only allowed while an invalidation is on its way, and a reader between its read of
  the tables and its write of the cache can put a wrong one back. `CacheOK` says it of both:
  an entry is right or its invalidation is awaited; what a reader holds is right, or it is
  marked as old and, as long as it may still fill the cache, an invalidation is awaited.
  `Untouched` and `Touched` carry this over a step, for the users whose permissions the step
  keeps and for those whose it changes: these are awaited or excused afterwards. For the
  grants, `MissingOK` says that a request about to insert finds no such active row and is
  the only one about to insert it, and `AloneOK` the same of the bootstrap, unless the
  history names an overlap; `RowsOK` is the foreign key.

Every invariant and every safety property that a passing run checks is thus a theorem, and
so is the refinement. Only model-checked: liveness (`CreditEnds`, `ScheduledRideLeaves`,
`DispatchEnds`, `DueLeaves`), which the prover does not reach.

An attempt at a proof once corrected a model: `updateRow` of Notifications chose the status
by overlapping cases, of which TLC took the first. They are now tested in the order of the code.

## 5. Not modelled, and the plan

Left out of the modelled parts:

- Rides: rating, fees and prices; the key and the clocks of a release (it may come at any
  time after its question). RideModification has them, for one ride.
- ScheduledRides: what happens to a ride once it is searching, except its cancellation. A
  worker that stalls is modelled as one that was killed; in BullMQ it may go on beside its
  successor.
- Wallet and payments: `debit()`, which has no caller, and the protocols of the providers.
- Referral: its administration, and its device and address checks (a refusal).
- Dispatch: the stream consumer (nothing adds to the stream: the `xadd` is commented
  out), the join of a carpool (nothing writes `carpool:active`), the score, and
  `DriverLocationService`, which has no caller.
- Announcements: the journal, which nothing reads back; titles, links and media.
- Auth: the check of the signature of a JWT; the throttler's own storage.
- Everywhere: lists, queries, formatting, filters and interceptors.

Not modelled at all: **Food orders, deliveries, analytics** (they create, list or report,
and no order of their steps can go wrong), **Cities** (a table with a cache, of the shape
that Rbac has), **Pricing** (a pure computation; see below) and the **database** layer.

What is left, in order of importance:

1. **Pricing** - the pipeline as a pure function against a reference definition.
2. **Rides with Wallet** - completions composed with the credits they cause.
3. **ScheduledRides with the release** - a scheduled ride from its booking through its
   acceptance and release to its second search, in one behaviour.
