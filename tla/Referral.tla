------------------------------ MODULE Referral ------------------------------
(***************************************************************************)
(* The referral programme: ReferralService registers a referee, counts the *)
(* trips the referee completes and, at the threshold, has                  *)
(* ReferralRewardService credit the wallets of the referrer and of the     *)
(* referee.  The wallets are those of Ledger, which Wallet implements.     *)
(*                                                                         *)
(* Every announcement of a completed trip is handled by a task of its own, *)
(* started by the event bus: tasks interleave at every await, the rows     *)
(* they read may be out of date when they write, and one that fails is not *)
(* started again.  A trip may be announced more than once (two completions *)
(* of a ride that overlap each publish RIDE_COMPLETED, see Rides), and the *)
(* service does not ask.  Refs are the announcements: the line of a wallet *)
(* bears the order of the one it pays, its TripOf.                         *)
(***************************************************************************)
EXTENDS Ledger, FiniteSets

CONSTANTS
    TripOf,         \* the ride, delivery or order of each announcement
    Threshold,      \* triggerAfterTrips of the programme
    MaxRewards,     \* maxFilleulsPerReferrer, 0 for no cap
    Bonus           \* the amount of either reward

ASSUME ProgramAssumption ==
    DOMAIN TripOf = Refs /\ Threshold \in Nat \ {0} /\ MaxRewards \in Nat /\ Bonus \in Amounts

VARIABLES
    walletRoles,    \* the roles whose reward type is wallet_credit
    reg,            \* the handler of USER_REGISTERED of each account
    usage,          \* the row of referral_usages of each referee
    log,            \* the two rows of referral_reward_logs of each usage
    expired,        \* the usages whose expiresAt is over
    task            \* the handler of each announcement of a trip

referralVars == <<walletRoles, reg, usage, log, expired, task>>
allVars == <<ledgerVars, referralVars>>

Roles == {"referrer", "referee"}
UsageStatuses == {"absent", "pending", "completed", "rewarded", "expired"}
LogStatuses == {"absent", "pending", "granted", "failed"}

NoUsage(f) == [status |-> "absent", trips |-> 0, referrer |-> f]
NoTask == [pc |-> "new", referee |-> "none", seen |-> 0, counted |-> FALSE]

\* Who is paid in a role of the usage of f.
Recipient(f, role) == IF role = "referrer" THEN usage[f].referrer ELSE f

-----------------------------------------------------------------------------
(* ReferralService.onUserRegistered *)

\* The referral code leads to g, and the anti-abuse checks that depend on the tables
\* pass: no self-referral, and g is not known to be at the cap.  The handler keeps g
\* for the row it is going to save.
RegisterCheck(f, g) ==
    /\ reg[f] = "new" /\ reg[g] # "new" /\ g # f
    /\ MaxRewards = 0 \/
       Cardinality({x \in Accounts : /\ usage[x].referrer = g
                                     /\ usage[x].status = "rewarded"}) < MaxRewards
    /\ reg' = [reg EXCEPT ![f] = "checked"]
    /\ usage' = [usage EXCEPT ![f].referrer = g]
    /\ UNCHANGED <<ledgerVars, walletRoles, log, expired, task>>

RegisterSave(f) ==
    /\ reg[f] = "checked"
    /\ reg' = [reg EXCEPT ![f] = "done"]
    /\ usage' = [usage EXCEPT ![f].status = "pending"]
    /\ UNCHANGED <<ledgerVars, walletRoles, log, expired, task>>

\* No code, no programme, a check that refuses, or an error: no usage.
RegisterEnd(f) ==
    /\ reg[f] # "done"
    /\ reg' = [reg EXCEPT ![f] = "done"]
    /\ UNCHANGED <<ledgerVars, walletRoles, usage, log, expired, task>>

Expire(f) ==
    /\ usage[f].status # "absent" /\ f \notin expired
    /\ expired' = expired \cup {f}
    /\ UNCHANGED <<ledgerVars, walletRoles, reg, usage, log, task>>

-----------------------------------------------------------------------------
(* ReferralService.handleTripCompleted *)

\* The pending usage of the passenger, who is f for every announcement of the trip,
\* is read; the trip is one the programme counts.
TripRead(t, f) ==
    /\ task[t].pc = "new"
    /\ \A s \in Refs : TripOf[s] = TripOf[t] => task[s].referee \in {f, "none"}
    /\ usage[f].status = "pending"
    /\ task' = [task EXCEPT ![t] =
            [pc |-> IF f \in expired THEN "expire" ELSE "count", referee |-> f,
             seen |-> usage[f].trips, counted |-> FALSE]]
    /\ UNCHANGED <<ledgerVars, walletRoles, reg, usage, log, expired>>

TripExpire(t) ==
    /\ task[t].pc = "expire"
    /\ usage' = [usage EXCEPT ![task[t].referee].status = "expired"]
    /\ task' = [task EXCEPT ![t].pc = "done"]
    /\ UNCHANGED <<ledgerVars, walletRoles, reg, log, expired>>

\* The new count is computed from the row that was read.
TripCount(t) ==
    /\ task[t].pc = "count"
    /\ usage' = [usage EXCEPT ![task[t].referee].trips = task[t].seen + 1]
    /\ task' = [task EXCEPT ![t].counted = TRUE,
                            ![t].pc = IF task[t].seen + 1 >= Threshold THEN "complete"
                                                                       ELSE "done"]
    /\ UNCHANGED <<ledgerVars, walletRoles, reg, log, expired>>

TripComplete(t) ==
    /\ task[t].pc = "complete"
    /\ usage' = [usage EXCEPT ![task[t].referee].status = "completed"]
    /\ task' = [task EXCEPT ![t].pc = "grant"]
    /\ UNCHANGED <<ledgerVars, walletRoles, reg, log, expired>>

-----------------------------------------------------------------------------
(* ReferralRewardService.grant *)

LogsOf(f) == {log[f][role] : role \in Roles}

\* The transaction looks for the logs.  When both are there it returns, which ends
\* the transaction and not the method: the credits follow all the same.
GrantRead(t) ==
    /\ task[t].pc = "grant"
    /\ task' = [task EXCEPT ![t].pc =
            IF "absent" \in LogsOf(task[t].referee) THEN "insert" ELSE "referrer"]
    /\ UNCHANGED <<ledgerVars, walletRoles, reg, usage, log, expired>>

\* Mutant: the log of the referee is not inserted.
GrantInsertReferrer(t) ==
    /\ task[t].pc = "insert"
    /\ LogsOf(task[t].referee) = {"absent"}
    /\ log' = [log EXCEPT ![task[t].referee]["referrer"] = "pending"]
    /\ usage' = [usage EXCEPT ![task[t].referee].status = "rewarded"]
    /\ task' = [task EXCEPT ![t].pc = "referrer"]
    /\ UNCHANGED <<ledgerVars, walletRoles, reg, expired>>

\* The transaction inserts the logs, marks the usage rewarded and commits.
GrantInsert(t) ==
    /\ task[t].pc = "insert"
    /\ LogsOf(task[t].referee) = {"absent"}
    /\ log' = [log EXCEPT ![task[t].referee] = [role \in Roles |-> "pending"]]
    /\ usage' = [usage EXCEPT ![task[t].referee].status = "rewarded"]
    /\ task' = [task EXCEPT ![t].pc = "referrer"]
    /\ UNCHANGED <<ledgerVars, walletRoles, reg, expired>>

\* Another transaction has inserted them meanwhile: the unique key refuses.
GrantConflict(t) ==
    /\ task[t].pc = "insert"
    /\ LogsOf(task[t].referee) # {"absent"}
    /\ task' = [task EXCEPT ![t].pc = "done"]
    /\ UNCHANGED <<ledgerVars, walletRoles, reg, usage, log, expired>>

MarkOf == [referrer |-> "mark_referrer", referee |-> "mark_referee"]
NextOf == [referrer |-> "referee", referee |-> "done"]

\* creditWallet returns at once for a discount or a free ride; the log stays pending.
CreditSkipped(t, role) ==
    /\ task[t].pc = role /\ role \notin walletRoles
    /\ task' = [task EXCEPT ![t].pc = NextOf[role]]
    /\ UNCHANGED <<ledgerVars, walletRoles, reg, usage, log, expired>>

\* creditWallet: WalletService.credit commits.
CreditWallet(t, role) ==
    /\ task[t].pc = role /\ role \in walletRoles
    /\ Credit(Recipient(task[t].referee, role), Bonus, t)
    /\ task' = [task EXCEPT ![t].pc = MarkOf[role]]
    /\ UNCHANGED <<walletRoles, reg, usage, log, expired>>

\* The log is marked with the outcome of the credit.
SetLog(t, role, status) ==
    /\ log' = [log EXCEPT ![task[t].referee][role] = status]
    /\ task' = [task EXCEPT ![t].pc = NextOf[role]]
    /\ UNCHANGED <<ledgerVars, walletRoles, reg, usage, expired>>

\* credit() throws and the catch marks the log.
CreditFails(t, role) ==
    /\ task[t].pc = role /\ role \in walletRoles
    /\ SetLog(t, role, "failed")

\* Mutant: when the log cannot be updated the credit is tried again.
MarkLogRetries(t, role) ==
    /\ task[t].pc = MarkOf[role]
    /\ \/ SetLog(t, role, "granted")
       \/ /\ task' = [task EXCEPT ![t].pc = role]
          /\ UNCHANGED <<ledgerVars, walletRoles, reg, usage, log, expired>>

\* After a credit the log is granted, or failed when that very update throws.
MarkLog(t, role) ==
    /\ task[t].pc = MarkOf[role]
    /\ SetLog(t, role, "granted") \/ SetLog(t, role, "failed")

\* An await throws or the process dies: nothing of the rest is ever done.
TripAbort(t) ==
    /\ task[t].pc \notin {"new", "done"}
    /\ task' = [task EXCEPT ![t].pc = "done"]
    /\ UNCHANGED <<ledgerVars, walletRoles, reg, usage, log, expired>>

-----------------------------------------------------------------------------
(* The specification *)

ReferralInit ==
    /\ LedgerInit
    /\ walletRoles \in SUBSET Roles
    /\ reg = [f \in Accounts |-> "new"]
    /\ usage = [f \in Accounts |-> NoUsage(f)]
    /\ log = [f \in Accounts |-> [role \in Roles |-> "absent"]]
    /\ expired = {}
    /\ task = [t \in Refs |-> NoTask]

Registration(f) ==
    \/ \E g \in Accounts : RegisterCheck(f, g)
    \/ RegisterSave(f)
    \/ RegisterEnd(f)

Trip(t) ==
    \/ \E f \in Accounts : TripRead(t, f)
    \/ TripExpire(t)
    \/ TripCount(t)
    \/ TripComplete(t)
    \/ GrantRead(t)
    \/ GrantInsert(t)
    \/ GrantConflict(t)
    \/ \E role \in Roles :
          \/ CreditSkipped(t, role)
          \/ CreditWallet(t, role)
          \/ CreditFails(t, role)
          \/ MarkLog(t, role)
    \/ TripAbort(t)

\* No code freezes a wallet, so "active" keeps whatever value it has at the start.
ReferralNext ==
    \/ \E f \in Accounts : Registration(f) \/ Expire(f)
    \/ \E t \in Refs : Trip(t)

ReferralSpec == ReferralInit /\ [][ReferralNext]_allVars

-----------------------------------------------------------------------------
(* Properties *)

Entries(u, t) == {i \in 1..Len(history[u]) : history[u][i].ref = t}

\* The announcements the service has counted for f.
Counted(f) == {t \in Refs : task[t].referee = f /\ task[t].counted}

\* Types; the two logs of a usage are inserted together.
ReferralTypeOK ==
    /\ active \in [Accounts -> BOOLEAN]
    /\ balance \in [Accounts -> Nat]
    /\ \A u \in Accounts : history[u] \in Seq(Entry)
    /\ walletRoles \subseteq Roles
    /\ reg \in [Accounts -> {"new", "checked", "done"}]
    /\ usage \in [Accounts -> [status : UsageStatuses, trips : Nat, referrer : Accounts]]
    /\ log \in [Accounts -> [Roles -> LogStatuses]]
    /\ expired \subseteq Accounts
    /\ \A f \in Accounts : "absent" \in LogsOf(f) => LogsOf(f) = {"absent"}

\* Nobody is rewarded early: a usage whose logs exist, or that is completed or
\* rewarded, has had triggerAfterTrips announcements counted, although the counter
\* is read and written by tasks that overlap.  (They may be of the same trip, see
\* MinimumOfTrips.)
NoEarlyReward ==
    \A f \in Accounts :
        usage[f].status \in {"completed", "rewarded"} \/ LogsOf(f) # {"absent"} =>
            Cardinality(Counted(f)) >= Threshold

\* Every bonus has its trail: a line of a wallet is about a counted announcement of a
\* usage whose account it is, as referrer or as referee, and whose log of that role exists.
CreditHasLog ==
    \A u \in Accounts, t \in Refs : Entries(u, t) # {} =>
        \E f \in Accounts, role \in Roles :
            /\ task[t].referee = f /\ task[t].counted
            /\ Recipient(f, role) = u
            /\ log[f][role] # "absent"

\* A log says "granted" only when the wallet of its recipient has a bonus of the usage.
GrantedHasCredit ==
    \A f \in Accounts, role \in Roles : log[f][role] = "granted" =>
        \E t \in Counted(f) : Entries(Recipient(f, role), t) # {}

\* Whatever fails after a credit, one announcement never credits an account twice.
OneCreditPerTask ==
    \A u \in Accounts, t \in Refs : Cardinality(Entries(u, t)) <= 1

\* What a reward leaves behind agrees: nobody is rewarded early, every bonus has its
\* log, every granted log its bonus, and a trip pays an account no more often than it
\* was announced, whatever overlaps, throws or dies.
RewardTrail == NoEarlyReward /\ CreditHasLog /\ GrantedHasCredit /\ OneCreditPerTask

\* grant() is documented as idempotent, and a usage "can only generate one reward per
\* role": no two lines of a wallet reward the same role of the same usage.
RewardedOnce ==
    \A f \in Accounts, role \in Roles :
        Cardinality({t \in Counted(f) : Entries(Recipient(f, role), t) # {}}) <= 1

\* triggerAfterTrips is the least number of trips before the reward, and the counter
\* of a usage the trips of the referee: a usage is rewarded for so many trips.
MinimumOfTrips ==
    \A f \in Accounts : usage[f].status = "rewarded" =>
        Cardinality({TripOf[t] : t \in Counted(f)}) >= Threshold
=============================================================================
