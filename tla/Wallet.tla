------------------------------- MODULE Wallet -------------------------------
(***************************************************************************)
(* The money of the platform: PaymentsService, which records mobile-money  *)
(* payments, and WalletService, which turns a completed ride or a paid     *)
(* top-up into a credit.                                                   *)
(*                                                                         *)
(* The two are joined by the in-process event bus: publishing an event     *)
(* starts a credit and does not wait for it, and a credit that fails is    *)
(* not tried again.  A credit is an SQL transaction that locks the row of  *)
(* the wallet (SELECT FOR UPDATE), computes the new balance from the row   *)
(* it read, and makes the balance and the line visible when it commits.    *)
(***************************************************************************)
EXTENDS Integers, Sequences

CONSTANTS
    Users,      \* passengers and drivers: the owners of wallets
    Payments,   \* the ids a payment can get
    Rides,      \* the rides whose completion is published
    Prices,     \* amounts of payments and rides, as the services store them
    Handlers,   \* payment requests that run at the same time
    Credits,    \* bound: the calls of credit() that can be made
    None        \* SQL NULL

ASSUME PricesAssumption == Prices \subseteq Nat
ASSUME RefsAssumption == None \notin Users \cup Payments \cup Rides /\ Payments \cap Rides = {}

VARIABLES
    wallets,    \* user -> row of wallets, as committed
    lines,      \* user -> rows of wallet_transactions, as committed
    payments,   \* payment -> row of payments
    handler,    \* the payment requests in progress
    credit      \* the calls of credit()

moneyVars == <<wallets, lines, payments, handler, credit>>

WalletStatuses == {"absent", "active", "frozen", "closed"}
PaymentStatuses == {"absent", "pending", "processing", "success"}
ServiceTypes == {"ride", "wallet_topup"}

\* onRideCompleted: floor(amount * 80); onPaymentSuccess: amount * 100.
DriverAmount(price) == price * 80
TopupAmount(price) == price * 100
CreditAmounts == {DriverAmount(a) : a \in Prices} \cup {TopupAmount(a) : a \in Prices}
LineRefs == Payments \cup Rides

NoPayment == [status |-> "absent", user |-> None, serviceType |-> "ride", amount |-> 0,
              paid |-> FALSE]
Idle == [pc |-> "idle", payment |-> None]
Unused == [pc |-> "unused", user |-> None, amount |-> 0, ref |-> None, seen |-> 0, version |-> 0]

-----------------------------------------------------------------------------
(* WalletService.credit *)

\* A call of credit(user, amount, _, ref) by a listener of the event bus.
StartCredit(x, user, amount, ref) ==
    /\ credit[x] = Unused
    /\ credit' = [credit EXCEPT ![x] =
            [pc |-> "waiting", user |-> user, amount |-> amount, ref |-> ref,
             seen |-> 0, version |-> 0]]

\* The transaction holds the row lock of its wallet.
Holds(x) == credit[x].pc \in {"locked", "announced"}

LockFree(user) == \A y \in Credits : Holds(y) => credit[y].user # user

\* Mutant: the row is read without FOR UPDATE.
CreditLockNoLock(x) ==
    LET w == wallets[credit[x].user] IN
    /\ credit[x].pc = "waiting"
    /\ w.status = "active"
    /\ credit' = [credit EXCEPT ![x].pc = "locked", ![x].seen = w.balance,
                                ![x].version = w.version]
    /\ UNCHANGED <<wallets, lines, payments, handler>>

\* Mutant: the status of the wallet is not looked at.
CreditLockNoStatus(x) ==
    LET w == wallets[credit[x].user] IN
    /\ credit[x].pc = "waiting"
    /\ LockFree(credit[x].user)
    /\ w.status # "absent"
    /\ credit' = [credit EXCEPT ![x].pc = "locked", ![x].seen = w.balance,
                                ![x].version = w.version]
    /\ UNCHANGED <<wallets, lines, payments, handler>>

\* The row is locked and read.
CreditLock(x) ==
    LET w == wallets[credit[x].user] IN
    /\ credit[x].pc = "waiting"
    /\ LockFree(credit[x].user)
    /\ w.status = "active"
    /\ credit' = [credit EXCEPT ![x].pc = "locked", ![x].seen = w.balance,
                                ![x].version = w.version]
    /\ UNCHANGED <<wallets, lines, payments, handler>>

\* Mutant: a credit of a wallet that is not active waits until it is.
CreditRefusedNoRow(x) ==
    /\ credit[x].pc = "waiting"
    /\ wallets[credit[x].user].status = "absent"
    /\ credit' = [credit EXCEPT ![x].pc = "failed"]
    /\ UNCHANGED <<wallets, lines, payments, handler>>

\* getOneOrFail throws, or the wallet is not active: nothing is written.
CreditRefused(x) ==
    /\ credit[x].pc = "waiting"
    /\ LockFree(credit[x].user)
    /\ wallets[credit[x].user].status # "active"
    /\ credit' = [credit EXCEPT ![x].pc = "failed"]
    /\ UNCHANGED <<wallets, lines, payments, handler>>

\* The update and the insert are done, nobody else sees them yet, and
\* WALLET_CREDITED is published from inside the transaction.
CreditAnnounce(x) ==
    /\ credit[x].pc = "locked"
    /\ credit' = [credit EXCEPT ![x].pc = "announced"]
    /\ UNCHANGED <<wallets, lines, payments, handler>>

CreditCommit(x) ==
    LET c == credit[x]
        newBalance == c.seen + c.amount IN
    /\ c.pc = "announced"
    /\ wallets' = [wallets EXCEPT ![c.user].balance = newBalance,
                                  ![c.user].version = c.version + 1]
    /\ lines' = [lines EXCEPT ![c.user] = Append(@,
            [amount |-> c.amount, balanceAfter |-> newBalance, ref |-> c.ref])]
    /\ credit' = [credit EXCEPT ![x].pc = "committed"]
    /\ UNCHANGED <<payments, handler>>

\* A database error or a crash before the commit: the transaction leaves no trace.
CreditRollback(x) ==
    /\ credit[x].pc \in {"waiting", "locked", "announced"}
    /\ credit' = [credit EXCEPT ![x].pc = "failed"]
    /\ UNCHANGED <<wallets, lines, payments, handler>>

-----------------------------------------------------------------------------
(* PaymentsService *)

\* Mutant: the row is saved without its owner.
InitiateSaveNoUser(h, p) ==
    /\ handler[h] = Idle
    /\ payments[p] = NoPayment
    /\ \E s \in ServiceTypes, a \in Prices :
          payments' = [payments EXCEPT ![p] =
              [status |-> "pending", user |-> None, serviceType |-> s, amount |-> a,
               paid |-> FALSE]]
    /\ handler' = [handler EXCEPT ![h] = [pc |-> "provider", payment |-> p]]
    /\ UNCHANGED <<wallets, lines, credit>>

\* initiate: the row is saved, then the provider is called.
InitiateSave(h, p) ==
    /\ handler[h] = Idle
    /\ payments[p] = NoPayment
    /\ \E u \in Users, s \in ServiceTypes, a \in Prices :
          payments' = [payments EXCEPT ![p] =
              [status |-> "pending", user |-> u, serviceType |-> s, amount |-> a,
               paid |-> FALSE]]
    /\ handler' = [handler EXCEPT ![h] = [pc |-> "provider", payment |-> p]]
    /\ UNCHANGED <<wallets, lines, credit>>

\* The provider has answered: the row is rewritten, whatever its status is by now.
InitiateUpdate(h) ==
    /\ handler[h].pc = "provider"
    /\ payments' = [payments EXCEPT ![handler[h].payment].status = "processing"]
    /\ handler' = [handler EXCEPT ![h] = Idle]
    /\ UNCHANGED <<wallets, lines, credit>>

\* Mutant: the event is published and the row is not updated.
ConfirmReadEmits(h, p) ==
    /\ handler[h] = Idle
    /\ payments[p].status # "absent"
    /\ handler' = [handler EXCEPT ![h] = [pc |-> "emit", payment |-> p]]
    /\ UNCHANGED <<wallets, lines, payments, credit>>

\* confirmSuccess: called by the operator's webhook or by the client, or by both.
ConfirmRead(h, p) ==
    /\ handler[h] = Idle
    /\ payments[p].status # "absent"
    /\ handler' = [handler EXCEPT ![h] = [pc |-> "confirm", payment |-> p]]
    /\ UNCHANGED <<wallets, lines, payments, credit>>

ConfirmWrite(h) ==
    /\ handler[h].pc = "confirm"
    /\ payments' = [payments EXCEPT ![handler[h].payment].status = "success",
                                    ![handler[h].payment].paid = TRUE]
    /\ handler' = [handler EXCEPT ![h].pc = "emit"]
    /\ UNCHANGED <<wallets, lines, credit>>

\* PAYMENT_SUCCESS is published; onPaymentSuccess credits the owner of a top-up.
ConfirmEmit(h) ==
    LET p == payments[handler[h].payment] IN
    /\ handler[h].pc = "emit"
    /\ IF p.serviceType = "wallet_topup"
       THEN \E x \in Credits :
                StartCredit(x, p.user, TopupAmount(p.amount), handler[h].payment)
       ELSE UNCHANGED credit
    /\ handler' = [handler EXCEPT ![h] = Idle]
    /\ UNCHANGED <<wallets, lines, payments>>

\* An await throws or the process dies between two steps.
PaymentAbort(h) ==
    /\ handler[h] # Idle
    /\ handler' = [handler EXCEPT ![h] = Idle]
    /\ UNCHANGED <<wallets, lines, payments, credit>>

-----------------------------------------------------------------------------
(* What happens outside: rides complete, wallets are opened and frozen. *)

\* RIDE_COMPLETED is published for r (see Rides); onRideCompleted credits the driver.
RideCompleted(r) ==
    /\ \E x \in Credits, d \in Users, a \in Prices : StartCredit(x, d, DriverAmount(a), r)
    /\ UNCHANGED <<wallets, lines, payments, handler>>

\* An UPDATE of the row waits for its lock as a credit does.
SetStatus(u) ==
    /\ LockFree(u)
    /\ \E s \in WalletStatuses \ {"absent"} :
          /\ s # wallets[u].status
          /\ wallets' = [wallets EXCEPT ![u].status = s]
    /\ UNCHANGED <<lines, payments, handler, credit>>

-----------------------------------------------------------------------------
(* The specification *)

Init ==
    /\ wallets = [u \in Users |-> [status |-> "absent", balance |-> 0, version |-> 0]]
    /\ lines = [u \in Users |-> <<>>]
    /\ payments = [p \in Payments |-> NoPayment]
    /\ handler = [h \in Handlers |-> Idle]
    /\ credit = [x \in Credits |-> Unused]

CreditProgress(x) ==
    \/ CreditLock(x)
    \/ CreditRefused(x)
    \/ CreditAnnounce(x)
    \/ CreditCommit(x)

PaymentStep(h) ==
    \/ \E p \in Payments : InitiateSave(h, p) \/ ConfirmRead(h, p)
    \/ InitiateUpdate(h)
    \/ ConfirmWrite(h)
    \/ ConfirmEmit(h)
    \/ PaymentAbort(h)

Next ==
    \/ \E x \in Credits : CreditProgress(x) \/ CreditRollback(x)
    \/ \E h \in Handlers : PaymentStep(h)
    \/ \E r \in Rides : RideCompleted(r)
    \/ \E u \in Users : SetStatus(u)

Spec == Init /\ [][Next]_moneyVars

\* The database keeps serving transactions, and its lock queue forgets nobody.
FairSpec == Spec /\ \A x \in Credits : WF_moneyVars(CreditProgress(x))

-----------------------------------------------------------------------------
(* Properties *)

WalletRows == [status : WalletStatuses, balance : Nat, version : Nat]
Lines == [amount : CreditAmounts, balanceAfter : Nat, ref : LineRefs]
PaymentRows == [status : PaymentStatuses, user : Users \cup {None}, serviceType : ServiceTypes,
                amount : Prices \cup {0}, paid : BOOLEAN]

CreditCalls == [pc : {"waiting", "locked", "announced", "committed", "failed"},
                user : Users, amount : CreditAmounts, ref : LineRefs, seen : Nat, version : Nat]

\* The types of the four tables' rows and of the requests in progress.
TypeOK ==
    /\ wallets \in [Users -> WalletRows]
    /\ lines \in [Users -> Seq(Lines)]
    /\ payments \in [Payments -> PaymentRows]
    /\ handler \in [Handlers -> {Idle} \cup
                        [pc : {"provider", "confirm", "emit"}, payment : Payments]]
    /\ credit \in [Credits -> CreditCalls \cup {Unused}]

BalanceBefore(s, i) == IF i = 1 THEN 0 ELSE s[i - 1].balanceAfter

\* WalletTransaction says that the balance can be rebuilt from the lines: however
\* credits, failures and freezes interleave, each line carries on from the one
\* before it, the last one shows the balance, and the version counts the lines.
BalanceIsSumOfLines ==
    \A u \in Users :
        LET s == lines[u] IN
        /\ \A i \in 1..Len(s) : s[i].balanceAfter = BalanceBefore(s, i) + s[i].amount
        /\ wallets[u].balance = BalanceBefore(s, Len(s) + 1)
        /\ wallets[u].version = Len(s)

\* Only a payment that was marked paid tops a wallet up: a line about a payment is
\* in the wallet of the user who made it, for the amount of a top-up, and the
\* payment has its paidAt, even when initiate() put its status back since.
TopupIsPaid ==
    \A u \in Users : \A i \in 1..Len(lines[u]) :
        LET t == lines[u][i] IN
        t.ref \in Payments =>
            /\ payments[t.ref].paid
            /\ payments[t.ref].serviceType = "wallet_topup"
            /\ payments[t.ref].user = u
            /\ t.amount = TopupAmount(payments[t.ref].amount)

L == INSTANCE Ledger WITH
        Accounts <- Users,
        Amounts  <- CreditAmounts,
        Refs     <- LineRefs,
        active   <- [u \in Users |-> wallets[u].status = "active"],
        balance  <- [u \in Users |-> wallets[u].balance],
        history  <- [u \in Users |-> [i \in 1..Len(lines[u]) |->
                        [amount |-> lines[u][i].amount, ref |-> lines[u][i].ref]]]

\* The locked transaction is an atomic credit of a wallet that is active when the
\* credit takes effect (SELECT FOR UPDATE, as Wallet asks of every update).
ImplementsLedger == L!LedgerSpec

\* No call of credit() hangs: it commits or fails, however many wait for the lock
\* and whatever becomes of the wallet meanwhile.
CreditEnds ==
    \A x \in Credits : credit[x].pc = "waiting" ~> credit[x].pc \in {"committed", "failed"}

\* The API takes the amount of a payment in centimes (75000 = 750 FCFA) and the
\* wallet keeps centimes: a top-up credits what was paid.
TopupAtFaceValue ==
    \A u \in Users : \A i \in 1..Len(lines[u]) :
        lines[u][i].ref \in Payments =>
            lines[u][i].amount = payments[lines[u][i].ref].amount
=============================================================================
