------------------------------- MODULE Ledger -------------------------------
(***************************************************************************)
(* What the wallet promises its callers: a credit is one atomic step that  *)
(* adds an amount to the balance of an account in use and appends a line   *)
(* that records it, and nothing else ever moves a balance or a line.       *)
(***************************************************************************)
EXTENDS Integers, Sequences

CONSTANTS
    Accounts,   \* the users that may have a wallet
    Amounts,    \* the amounts that can be credited, in centimes
    Refs        \* what a line can be about: payments, rides, orders

ASSUME AmountsAssumption == Amounts \subseteq Nat

VARIABLES
    active,     \* may the wallet of an account be credited now
    balance,    \* in centimes
    history     \* the lines of each account, oldest first

ledgerVars == <<active, balance, history>>

Entry == [amount : Amounts, ref : Refs]

LedgerInit ==
    /\ active \in [Accounts -> BOOLEAN]
    /\ balance = [u \in Accounts |-> 0]
    /\ history = [u \in Accounts |-> <<>>]

Credit(u, amount, ref) ==
    /\ active[u]
    /\ balance' = [balance EXCEPT ![u] = @ + amount]
    /\ history' = [history EXCEPT ![u] = Append(@, [amount |-> amount, ref |-> ref])]
    /\ UNCHANGED active

\* A wallet is opened, frozen or closed; the administration does that.
SetActive(u) ==
    /\ active' = [active EXCEPT ![u] = ~@]
    /\ UNCHANGED <<balance, history>>

LedgerNext ==
    \E u \in Accounts :
        \/ SetActive(u)
        \/ \E a \in Amounts, ref \in Refs : Credit(u, a, ref)

LedgerSpec == LedgerInit /\ [][LedgerNext]_ledgerVars
=============================================================================
