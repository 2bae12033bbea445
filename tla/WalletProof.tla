---------------------------- MODULE WalletProof ----------------------------
(***************************************************************************)
(* Proofs about Wallet for every set of users, payments, rides, prices,    *)
(* requests and credits: typing, the ledger equation, and the refinement   *)
(* of Ledger.  All three rest on what the row lock gives a transaction:    *)
(* the row it read is still the committed row when it commits.  Then about *)
(* Referral, whose wallets are those of Ledger, for every set of accounts  *)
(* and of announcements of trips, every threshold, cap and bonus: typing,  *)
(* and the four parts of RewardTrail.                                      *)
(***************************************************************************)
EXTENDS Wallet, Referral, FiniteSetTheorems, TLAPS

\* Two transactions never hold the lock of the same wallet.
LockExclusive ==
    \A x, y \in Credits :
        Holds(x) /\ Holds(y) /\ credit[x].user = credit[y].user => x = y

\* A transaction that holds the lock has read the row as it still is.
SeenIsCurrent ==
    \A x \in Credits : Holds(x) =>
        LET w == wallets[credit[x].user] IN
        /\ w.status = "active"
        /\ credit[x].seen = w.balance
        /\ credit[x].version = w.version

\* A payment that is marked paid, and the top-up a call of credit() is about.
PaidTopup(p, u, amount) ==
    /\ payments[p].paid
    /\ payments[p].serviceType = "wallet_topup"
    /\ payments[p].user = u
    /\ amount = TopupAmount(payments[p].amount)

RequestsOK ==
    \A h \in Handlers : handler[h] # Idle =>
        /\ payments[handler[h].payment].status # "absent"
        /\ handler[h].pc = "emit" => payments[handler[h].payment].paid

\* A payment that has a row keeps its owner.
RowsHaveUser ==
    \A p \in Payments : /\ payments[p].status # "absent" => payments[p].user \in Users
                        /\ payments[p].status # "absent" => payments[p].amount \in Prices
                        /\ payments[p].status = "absent" => payments[p] = NoPayment

CallsBacked ==
    \A x \in Credits : credit[x] # Unused /\ credit[x].ref \in Payments =>
        PaidTopup(credit[x].ref, credit[x].user, credit[x].amount)

PaymentInv == RowsHaveUser /\ RequestsOK /\ CallsBacked /\ TopupIsPaid

LockInv == LockExclusive /\ SeenIsCurrent /\ BalanceIsSumOfLines

IInv == TypeOK /\ LockInv /\ PaymentInv

-----------------------------------------------------------------------------

\* The amounts that are credited are natural numbers.
LEMMA AmountsNat == CreditAmounts \subseteq Nat
  BY PricesAssumption DEF CreditAmounts, DriverAmount, TopupAmount

\* The initial states satisfy the invariant.
LEMMA InitInv == Init => IInv
  <1> SUFFICES ASSUME Init PROVE IInv
    OBVIOUS
  <1>1. TypeOK
    BY DEF Init, TypeOK, WalletRows, WalletStatuses, PaymentRows, PaymentStatuses,
       ServiceTypes, NoPayment, Lines
  <1>2. LockInv
    BY DEF Init, LockInv, LockExclusive, SeenIsCurrent, BalanceIsSumOfLines, Holds, Unused,
       BalanceBefore
  <1>3. PaymentInv
    BY DEF Init, PaymentInv, RowsHaveUser, RequestsOK, CallsBacked, TopupIsPaid, NoPayment,
       Idle, Unused
  <1> QED
    BY <1>1, <1>2, <1>3 DEF IInv

\* A call of credit() is typed, whatever its state.
LEMMA CallTyped ==
  ASSUME TypeOK, NEW x \in Credits, credit[x].pc # "unused"
  PROVE  credit[x] \in CreditCalls
  BY DEF TypeOK, Unused

\* A step of one transaction that changes neither table keeps the invariant when it
\* leaves the call's identity alone and does not break the lock.
LEMMA CallStepInv ==
  ASSUME IInv, NEW x \in Credits, NEW c \in CreditCalls,
         credit[x].pc # "unused",
         credit' = [credit EXCEPT ![x] = c],
         UNCHANGED <<wallets, lines, payments, handler>>,
         c.user = credit[x].user, c.amount = credit[x].amount, c.ref = credit[x].ref,
         c.pc \in {"locked", "announced"} =>
            /\ \A y \in Credits \ {x} : Holds(y) => credit[y].user # c.user
            /\ wallets[c.user].status = "active"
            /\ c.seen = wallets[c.user].balance
            /\ c.version = wallets[c.user].version
  PROVE  IInv'
  <1>1. TypeOK'
    BY DEF IInv, TypeOK
  <1>2. \A y \in Credits : credit'[y] = IF y = x THEN c ELSE credit[y]
    BY DEF IInv, TypeOK
  <1>3. LockInv'
    BY <1>2 DEF IInv, LockInv, LockExclusive, SeenIsCurrent, BalanceIsSumOfLines, Holds,
       BalanceBefore
  <1>4. PaymentInv'
    <2>1. credit[x] # Unused
      BY DEF Unused
    <2> QED
      BY <1>2, <2>1 DEF IInv, PaymentInv, RowsHaveUser, RequestsOK, CallsBacked, TopupIsPaid,
         PaidTopup
  <1> QED
    BY <1>1, <1>3, <1>4 DEF IInv

\* Locking the row: the lock is free and the row is read as it is.
LEMMA LockStep == ASSUME IInv, NEW x \in Credits, CreditLock(x) PROVE IInv'
  <1> DEFINE w == wallets[credit[x].user]
             c == [credit[x] EXCEPT !.pc = "locked", !.seen = w.balance,
                                    !.version = w.version]
  <1>1. credit[x] \in CreditCalls /\ credit[x].pc = "waiting"
    BY CallTyped DEF CreditLock, IInv
  <1>2. w \in WalletRows
    BY <1>1 DEF IInv, TypeOK, CreditCalls
  <1>3. c \in CreditCalls /\ c.user = credit[x].user /\ c.amount = credit[x].amount
        /\ c.ref = credit[x].ref /\ c.seen = w.balance /\ c.version = w.version
    BY <1>1, <1>2 DEF CreditCalls, WalletRows
  <1>4. credit' = [credit EXCEPT ![x] = c]
    BY DEF CreditLock, IInv, TypeOK
  <1>5. w.status = "active" /\ LockFree(credit[x].user)
    BY DEF CreditLock
  <1>6. UNCHANGED <<wallets, lines, payments, handler>>
    BY DEF CreditLock
  <1>7. \A y \in Credits \ {x} : Holds(y) => credit[y].user # c.user
    BY <1>3, <1>5 DEF LockFree
  <1> HIDE DEF c
  <1>8. credit[x].pc # "unused"
    BY <1>1
  <1> QED
    BY <1>3, <1>4, <1>5, <1>6, <1>7, <1>8, CallStepInv

\* A call that fails gives the lock back and leaves no trace.
LEMMA FailStep ==
  ASSUME IInv, NEW x \in Credits, CreditRefused(x) \/ CreditRollback(x)
  PROVE  IInv'
  <1> DEFINE c == [credit[x] EXCEPT !.pc = "failed"]
  <1>1. credit[x] \in CreditCalls /\ credit[x].pc # "unused"
    BY CallTyped DEF CreditRefused, CreditRollback, IInv
  <1>2. c \in CreditCalls /\ c.user = credit[x].user /\ c.amount = credit[x].amount
        /\ c.ref = credit[x].ref /\ c.pc = "failed"
    BY <1>1 DEF CreditCalls
  <1>3. credit' = [credit EXCEPT ![x] = c] /\ UNCHANGED <<wallets, lines, payments, handler>>
    BY DEF CreditRefused, CreditRollback, IInv, TypeOK
  <1> HIDE DEF c
  <1> QED
    BY <1>1, <1>2, <1>3, CallStepInv

\* Publishing from inside the transaction keeps the lock.
LEMMA AnnounceStep == ASSUME IInv, NEW x \in Credits, CreditAnnounce(x) PROVE IInv'
  <1> DEFINE c == [credit[x] EXCEPT !.pc = "announced"]
  <1>1. credit[x] \in CreditCalls /\ credit[x].pc = "locked"
    BY CallTyped DEF CreditAnnounce, IInv
  <1>2. c \in CreditCalls /\ c.user = credit[x].user /\ c.amount = credit[x].amount
        /\ c.ref = credit[x].ref /\ c.seen = credit[x].seen /\ c.version = credit[x].version
    BY <1>1 DEF CreditCalls
  <1>3. credit' = [credit EXCEPT ![x] = c]
    BY DEF CreditAnnounce, IInv, TypeOK
  <1>4. Holds(x)
    BY <1>1 DEF Holds
  <1>5. UNCHANGED <<wallets, lines, payments, handler>>
    BY DEF CreditAnnounce
  <1> HIDE DEF c
  <1>6. \A y \in Credits \ {x} : Holds(y) => credit[y].user # c.user
    BY <1>2, <1>4 DEF IInv, LockInv, LockExclusive
  <1>7. wallets[c.user].status = "active" /\ c.seen = wallets[c.user].balance
        /\ c.version = wallets[c.user].version
    BY <1>2, <1>4 DEF IInv, LockInv, SeenIsCurrent
  <1>8. credit[x].pc # "unused"
    BY <1>1
  <1> QED
    BY <1>2, <1>3, <1>5, <1>6, <1>7, <1>8, CallStepInv

\* The row and the line that the commit of x makes visible.
NewRow(x) ==
    LET w == wallets[credit[x].user] IN
    [w EXCEPT !.balance = @ + credit[x].amount, !.version = @ + 1]

NewLine(x) ==
    [amount |-> credit[x].amount,
     balanceAfter |-> wallets[credit[x].user].balance + credit[x].amount,
     ref |-> credit[x].ref]

\* What a commit does to the two tables, in terms of the committed balance: this is
\* where the lock matters, since the code computes from the balance it had read.
LEMMA CommitEffect ==
  ASSUME IInv, NEW x \in Credits, CreditCommit(x)
  PROVE  /\ credit[x] \in CreditCalls /\ Holds(x)
         /\ wallets[credit[x].user].status = "active"
         /\ wallets[credit[x].user] \in WalletRows
         /\ wallets' = [wallets EXCEPT ![credit[x].user] = NewRow(x)]
         /\ lines' = [lines EXCEPT ![credit[x].user] = Append(@, NewLine(x))]
         /\ NewRow(x) \in WalletRows
         /\ NewRow(x).status = wallets[credit[x].user].status
         /\ NewRow(x).balance = NewLine(x).balanceAfter
         /\ NewRow(x).version = wallets[credit[x].user].version + 1
         /\ NewLine(x) \in Lines
  <1> DEFINE u == credit[x].user
             b == wallets[u].balance + credit[x].amount
  <1>1. credit[x] \in CreditCalls /\ Holds(x)
    BY CallTyped DEF CreditCommit, IInv, Holds
  <1>2. /\ wallets[u].status = "active"
        /\ credit[x].seen = wallets[u].balance
        /\ credit[x].version = wallets[u].version
    BY <1>1 DEF IInv, LockInv, SeenIsCurrent
  <1>3. wallets[u] \in WalletRows /\ u \in Users
    BY <1>1 DEF IInv, TypeOK, CreditCalls
  <1>4. b \in Nat
    <2>1. credit[x].amount \in Nat
      BY <1>1, AmountsNat DEF CreditCalls
    <2>2. wallets[u].balance \in Nat
      BY <1>3 DEF WalletRows
    <2> QED
      BY <2>1, <2>2
  <1>5. wallets' = [wallets EXCEPT ![u] = NewRow(x)]
    BY <1>2, <1>3 DEF CreditCommit, NewRow, IInv, TypeOK
  <1>6. NewRow(x) \in WalletRows /\ NewRow(x).status = wallets[u].status
        /\ NewRow(x).balance = b /\ NewRow(x).version = wallets[u].version + 1
    <2>1. NewRow(x) = [wallets[u] EXCEPT !.balance = b, !.version = wallets[u].version + 1]
      BY <1>3 DEF NewRow, WalletRows
    <2>2. wallets[u].version + 1 \in Nat
      BY <1>3 DEF WalletRows
    <2> DEFINE m == wallets[u].version + 1
    <2> HIDE DEF b, u, m
    <2>3. wallets[u] \in WalletRows /\ b \in Nat /\ m \in Nat
          /\ NewRow(x) = [wallets[u] EXCEPT !.balance = b, !.version = m]
      BY <1>3, <1>4, <2>1, <2>2 DEF m
    <2>4. NewRow(x) \in WalletRows /\ NewRow(x).status = wallets[u].status
          /\ NewRow(x).balance = b /\ NewRow(x).version = m
      BY <2>3 DEF WalletRows
    <2> QED
      BY <2>4 DEF m
  <1>7. NewLine(x) \in Lines
    BY <1>1, <1>4 DEF NewLine, Lines, CreditCalls
  <1>8. lines' = [lines EXCEPT ![u] = Append(@, NewLine(x))]
    BY <1>2 DEF CreditCommit, NewLine
  <1> QED
    BY <1>1, <1>2, <1>3, <1>5, <1>6, <1>7, <1>8 DEF NewLine

\* One more line carries on from the last one.
LEMMA ChainExtends ==
  ASSUME NEW s \in Seq(Lines), NEW t \in Lines,
         \A i \in 1..Len(s) : s[i].balanceAfter = BalanceBefore(s, i) + s[i].amount,
         t.balanceAfter = BalanceBefore(s, Len(s) + 1) + t.amount
  PROVE  LET r == Append(s, t) IN
         /\ r \in Seq(Lines) /\ Len(r) = Len(s) + 1
         /\ \A i \in 1..Len(r) : r[i].balanceAfter = BalanceBefore(r, i) + r[i].amount
         /\ BalanceBefore(r, Len(r) + 1) = t.balanceAfter
  <1> DEFINE r == Append(s, t)
  <1>1. r \in Seq(Lines) /\ Len(r) = Len(s) + 1 /\ Len(s) \in Nat
    OBVIOUS
  <1>2. \A i \in 1..Len(s) : r[i] = s[i]
    OBVIOUS
  <1>3. r[Len(s) + 1] = t
    OBVIOUS
  <1> HIDE DEF r
  <1>4. \A i \in 1..Len(s) + 1 : BalanceBefore(r, i) = BalanceBefore(s, i)
    BY <1>1, <1>2 DEF BalanceBefore
  <1>5. \A i \in 1..Len(r) : r[i].balanceAfter = BalanceBefore(r, i) + r[i].amount
    <2> TAKE i \in 1..Len(r)
    <2>1. CASE i = Len(s) + 1
      BY <2>1, <1>1, <1>3, <1>4
    <2>2. CASE i # Len(s) + 1
      <3>1. i \in 1..Len(s)
        BY <2>2, <1>1
      <3> QED
        BY <3>1, <1>1, <1>2, <1>4
    <2> QED
      BY <2>1, <2>2
  <1>6. BalanceBefore(r, Len(r) + 1) = t.balanceAfter
    BY <1>1, <1>3 DEF BalanceBefore
  <1> QED
    BY <1>1, <1>5, <1>6 DEF r

\* The commit makes the row and the line visible together and gives the lock back.
LEMMA CommitStep == ASSUME IInv, NEW x \in Credits, CreditCommit(x) PROVE IInv'
  <1> DEFINE u == credit[x].user
             c == [credit[x] EXCEPT !.pc = "committed"]
  <1>1. /\ credit[x] \in CreditCalls /\ Holds(x)
        /\ wallets[u] \in WalletRows
        /\ wallets' = [wallets EXCEPT ![u] = NewRow(x)]
        /\ lines' = [lines EXCEPT ![u] = Append(@, NewLine(x))]
        /\ NewRow(x) \in WalletRows /\ NewLine(x) \in Lines
        /\ NewRow(x).balance = NewLine(x).balanceAfter
        /\ NewRow(x).version = wallets[u].version + 1
    BY CommitEffect
  <1>2. u \in Users /\ credit[x].amount \in CreditAmounts
    BY <1>1 DEF CreditCalls
  <1>3. c \in CreditCalls /\ c.user = u /\ c.amount = credit[x].amount
        /\ c.ref = credit[x].ref /\ c.pc = "committed"
    BY <1>1 DEF CreditCalls
  <1>4. credit' = [credit EXCEPT ![x] = c] /\ UNCHANGED <<payments, handler>>
    BY DEF CreditCommit, IInv, TypeOK
  <1>5. \A y \in Credits : credit'[y] = IF y = x THEN c ELSE credit[y]
    BY <1>4 DEF IInv, TypeOK
  <1>6. \A v \in Users : v # u => wallets'[v] = wallets[v] /\ lines'[v] = lines[v]
    BY <1>1, <1>2 DEF IInv, TypeOK
  <1>7. wallets'[u] = NewRow(x) /\ lines'[u] = Append(lines[u], NewLine(x))
        /\ lines[u] \in Seq(Lines)
    BY <1>1, <1>2 DEF IInv, TypeOK
  <1> HIDE DEF c, u
  <1>8. TypeOK'
    BY <1>1, <1>2, <1>3, <1>4, <1>7 DEF IInv, TypeOK
  <1>9. LockExclusive' /\ SeenIsCurrent'
    <2>1. \A y \in Credits : Holds(y)' => y # x /\ Holds(y) /\ credit'[y] = credit[y]
                                          /\ credit[y].user # u
      BY <1>1, <1>3, <1>5 DEF Holds, IInv, LockInv, LockExclusive, u
    <2>2. \A y \in Credits : Holds(y)' => credit[y].user \in Users
      BY <2>1, CallTyped DEF Holds, IInv, CreditCalls
    <2> QED
      BY <2>1, <2>2, <1>6 DEF IInv, LockInv, LockExclusive, SeenIsCurrent
  <1>10. BalanceIsSumOfLines'
    <2> SUFFICES ASSUME NEW v \in Users
                 PROVE  LET s == lines'[v] IN
                        /\ \A i \in 1..Len(s) :
                              s[i].balanceAfter = BalanceBefore(s, i) + s[i].amount
                        /\ wallets'[v].balance = BalanceBefore(s, Len(s) + 1)
                        /\ wallets'[v].version = Len(s)
      BY DEF BalanceIsSumOfLines, BalanceBefore
    <2>1. CASE v # u
      BY <2>1, <1>6 DEF IInv, LockInv, BalanceIsSumOfLines
    <2>2. CASE v = u
      <3>1. /\ \A i \in 1..Len(lines[u]) :
                  lines[u][i].balanceAfter = BalanceBefore(lines[u], i) + lines[u][i].amount
            /\ wallets[u].balance = BalanceBefore(lines[u], Len(lines[u]) + 1)
            /\ wallets[u].version = Len(lines[u])
        BY <1>2 DEF IInv, LockInv, BalanceIsSumOfLines
      <3>2. NewLine(x).balanceAfter = wallets[u].balance + NewLine(x).amount
        BY DEF NewLine, u
      <3> QED
        BY <2>2, <3>1, <3>2, <1>1, <1>7, ChainExtends
    <2> QED
      BY <2>1, <2>2
  <1>11. PaymentInv'
    <2>1. RowsHaveUser' /\ RequestsOK'
      BY <1>4 DEF IInv, PaymentInv, RowsHaveUser, RequestsOK
    <2>2. credit[x] # Unused
      BY <1>1 DEF CreditCalls, Unused
    <2>3. CallsBacked'
      BY <1>3, <1>4, <1>5, <2>2 DEF IInv, PaymentInv, CallsBacked, PaidTopup, u
    <2>4. NewLine(x).ref \in Payments => PaidTopup(NewLine(x).ref, u, NewLine(x).amount)
      BY <2>2 DEF IInv, PaymentInv, CallsBacked, NewLine, u
    <2>5. ASSUME NEW v \in Users, NEW i \in 1..Len(lines'[v]), lines'[v][i].ref \in Payments
          PROVE  PaidTopup(lines'[v][i].ref, v, lines'[v][i].amount)
      <3>1. CASE v = u /\ i = Len(lines[u]) + 1
        BY <3>1, <2>4, <2>5, <1>7
      <3>2. CASE ~(v = u /\ i = Len(lines[u]) + 1)
        <4>1. lines'[v][i] = lines[v][i] /\ i \in 1..Len(lines[v])
          BY <3>2, <2>5, <1>1, <1>6, <1>7
        <4> QED
          BY <4>1, <2>5 DEF IInv, PaymentInv, TopupIsPaid, PaidTopup
      <3> QED
        BY <3>1, <3>2
    <2>6. TopupIsPaid'
      BY <2>5, <1>4 DEF TopupIsPaid, PaidTopup
    <2> QED
      BY <2>1, <2>3, <2>6 DEF PaymentInv
  <1> QED
    BY <1>8, <1>9, <1>10, <1>11 DEF IInv, LockInv
\* A listener of the event bus that calls credit() for a paid top-up or for a ride.
LEMMA StartStep ==
  ASSUME IInv, NEW x \in Credits, NEW u \in Users, NEW a \in CreditAmounts, NEW ref \in LineRefs,
         StartCredit(x, u, a, ref),
         ref \in Payments => PaidTopup(ref, u, a),
         handler' \in [Handlers -> {Idle} \cup
                          [pc : {"provider", "confirm", "emit"}, payment : Payments]],
         \A h \in Handlers : handler'[h] = handler[h] \/ handler'[h] = Idle,
         UNCHANGED <<wallets, lines, payments>>
  PROVE  IInv'
  <1> DEFINE c == [pc |-> "waiting", user |-> u, amount |-> a, ref |-> ref,
                   seen |-> 0, version |-> 0]
  <1>1. credit' = [credit EXCEPT ![x] = c] /\ c \in CreditCalls /\ c.pc = "waiting"
        /\ c.user = u /\ c.amount = a /\ c.ref = ref
    BY DEF StartCredit, CreditCalls
  <1>2. \A y \in Credits : credit'[y] = IF y = x THEN c ELSE credit[y]
    BY <1>1 DEF IInv, TypeOK
  <1> HIDE DEF c
  <1>3. TypeOK'
    BY <1>1 DEF IInv, TypeOK
  <1>4. LockInv'
    BY <1>1, <1>2 DEF IInv, LockInv, LockExclusive, SeenIsCurrent, BalanceIsSumOfLines, Holds,
       BalanceBefore
  <1>5. PaymentInv'
    BY <1>1, <1>2 DEF IInv, PaymentInv, RowsHaveUser, RequestsOK, CallsBacked, TopupIsPaid,
       PaidTopup
  <1> QED
    BY <1>3, <1>4, <1>5 DEF IInv

\* The payment that a request works on.
LEMMA RequestTyped ==
  ASSUME TypeOK, NEW h \in Handlers, handler[h].pc \in {"provider", "confirm", "emit"}
  PROVE  handler[h].payment \in Payments /\ handler[h] # Idle
  BY DEF TypeOK, Idle

\* Publishing PAYMENT_SUCCESS starts a credit for a top-up and for nothing else.
LEMMA ConfirmEmitStep == ASSUME IInv, NEW h \in Handlers, ConfirmEmit(h) PROVE IInv'
  <1> DEFINE p == handler[h].payment
  <1>1. p \in Payments /\ payments[p].paid /\ payments[p].status # "absent"
    BY RequestTyped DEF ConfirmEmit, IInv, PaymentInv, RequestsOK
  <1>2. payments[p].user \in Users /\ payments[p].amount \in Prices
    BY <1>1 DEF IInv, PaymentInv, RowsHaveUser
  <1>3. handler' \in [Handlers -> {Idle} \cup
                          [pc : {"provider", "confirm", "emit"}, payment : Payments]]
        /\ \A g \in Handlers : handler'[g] = handler[g] \/ handler'[g] = Idle
    BY DEF ConfirmEmit, IInv, TypeOK
  <1>4. CASE payments[p].serviceType = "wallet_topup"
    <2>1. PICK x \in Credits :
               StartCredit(x, payments[p].user, TopupAmount(payments[p].amount), p)
      BY <1>4 DEF ConfirmEmit
    <2>2. TopupAmount(payments[p].amount) \in CreditAmounts /\ p \in LineRefs
      BY <1>1, <1>2 DEF CreditAmounts, LineRefs
    <2>3. PaidTopup(p, payments[p].user, TopupAmount(payments[p].amount))
      BY <1>1, <1>4 DEF PaidTopup
    <2>4. UNCHANGED <<wallets, lines, payments>>
      BY DEF ConfirmEmit
    <2> HIDE DEF p
    <2> QED
      BY <1>2, <1>3, <2>1, <2>2, <2>3, <2>4, StartStep
  <1>5. CASE payments[p].serviceType # "wallet_topup"
    <2>1. UNCHANGED <<wallets, lines, payments, credit>>
      BY <1>5 DEF ConfirmEmit
    <2>2. TypeOK'
      BY <2>1, <1>3 DEF IInv, TypeOK
    <2>3. LockInv'
      BY <2>1 DEF IInv, LockInv, LockExclusive, SeenIsCurrent, BalanceIsSumOfLines, Holds,
         BalanceBefore
    <2>4. PaymentInv'
      BY <2>1, <1>3 DEF IInv, PaymentInv, RowsHaveUser, RequestsOK, CallsBacked, TopupIsPaid,
         PaidTopup
    <2> QED
      BY <2>2, <2>3, <2>4 DEF IInv
  <1> QED
    BY <1>4, <1>5

\* A completed ride starts the credit of its driver; a ride is not a payment.
LEMMA RideStep == ASSUME IInv, NEW r \in Rides, RideCompleted(r) PROVE IInv'
  <1>1. PICK x \in Credits, d \in Users, a \in Prices : StartCredit(x, d, DriverAmount(a), r)
    BY DEF RideCompleted
  <1>2. DriverAmount(a) \in CreditAmounts /\ r \in LineRefs /\ r \notin Payments
    BY RefsAssumption DEF CreditAmounts, LineRefs
  <1>3. handler' \in [Handlers -> {Idle} \cup
                          [pc : {"provider", "confirm", "emit"}, payment : Payments]]
        /\ UNCHANGED <<wallets, lines, payments, handler>>
    BY DEF RideCompleted, IInv, TypeOK
  <1> QED
    BY <1>1, <1>2, <1>3, StartStep

\* A step of a payment request that neither touches a wallet nor starts a credit.
LEMMA PaymentsOnly ==
  ASSUME IInv, UNCHANGED <<wallets, lines, credit>>,
         payments' \in [Payments -> PaymentRows],
         handler' \in [Handlers -> {Idle} \cup
                          [pc : {"provider", "confirm", "emit"}, payment : Payments]],
         RowsHaveUser', RequestsOK',
         \A p \in Payments : payments[p].paid =>
            /\ payments'[p].paid
            /\ payments'[p].serviceType = payments[p].serviceType
            /\ payments'[p].user = payments[p].user
            /\ payments'[p].amount = payments[p].amount
  PROVE  IInv'
  <1>1. TypeOK'
    BY DEF IInv, TypeOK
  <1>2. LockInv'
    BY DEF IInv, LockInv, LockExclusive, SeenIsCurrent, BalanceIsSumOfLines, Holds,
       BalanceBefore
  <1>3. \A p \in Payments, u \in Users, a \in CreditAmounts :
            PaidTopup(p, u, a) => PaidTopup(p, u, a)'
    BY DEF PaidTopup
  <1>4. CallsBacked'
    <2> SUFFICES ASSUME NEW x \in Credits, credit[x] # Unused, credit[x].ref \in Payments
                 PROVE  PaidTopup(credit[x].ref, credit[x].user, credit[x].amount)'
      BY DEF CallsBacked, PaidTopup
    <2>1. credit[x].user \in Users /\ credit[x].amount \in CreditAmounts
      BY DEF IInv, TypeOK, CreditCalls
    <2>2. PaidTopup(credit[x].ref, credit[x].user, credit[x].amount)
      BY DEF IInv, PaymentInv, CallsBacked
    <2> QED
      BY <2>1, <2>2 DEF PaidTopup
  <1>5. TopupIsPaid'
    BY DEF IInv, PaymentInv, TopupIsPaid
  <1> QED
    BY <1>1, <1>2, <1>4, <1>5 DEF IInv, PaymentInv

\* initiate saves a row under an id that no line and no call is about yet.
LEMMA InitiateSaveStep ==
  ASSUME IInv, NEW h \in Handlers, NEW p \in Payments, InitiateSave(h, p)
  PROVE  IInv'
  <1>1. PICK u \in Users, s \in ServiceTypes, a \in Prices :
             payments' = [payments EXCEPT ![p] =
                 [status |-> "pending", user |-> u, serviceType |-> s, amount |-> a,
                  paid |-> FALSE]]
    BY DEF InitiateSave
  <1>2. payments[p] = NoPayment /\ UNCHANGED <<wallets, lines, credit>>
        /\ handler' = [handler EXCEPT ![h] = [pc |-> "provider", payment |-> p]]
    BY DEF InitiateSave
  <1>3. payments' \in [Payments -> PaymentRows]
    BY <1>1 DEF IInv, TypeOK, PaymentRows, PaymentStatuses
  <1>4. handler' \in [Handlers -> {Idle} \cup
                          [pc : {"provider", "confirm", "emit"}, payment : Payments]]
    BY <1>2 DEF IInv, TypeOK
  <1>5. RowsHaveUser'
    BY <1>1 DEF IInv, TypeOK, PaymentInv, RowsHaveUser
  <1>6. RequestsOK'
    BY <1>1, <1>2 DEF IInv, TypeOK, PaymentInv, RequestsOK, NoPayment
  <1>7. \A q \in Payments : payments[q].paid => q # p /\ payments'[q] = payments[q]
    BY <1>1, <1>2 DEF IInv, TypeOK, NoPayment
  <1> QED
    BY <1>2, <1>3, <1>4, <1>5, <1>6, <1>7, PaymentsOnly
\* The late write of initiate changes a status and nothing else.
LEMMA InitiateUpdateStep ==
  ASSUME IInv, NEW h \in Handlers, InitiateUpdate(h)
  PROVE  IInv'
  <1> DEFINE p == handler[h].payment
  <1>1. p \in Payments /\ payments[p].status # "absent"
    BY RequestTyped DEF InitiateUpdate, IInv, PaymentInv, RequestsOK
  <1>2. payments[p].status # "absent" /\ payments[p] \in PaymentRows
    BY <1>1 DEF IInv, TypeOK, PaymentInv, RowsHaveUser
  <1>3. payments' = [payments EXCEPT ![p].status = "processing"]
        /\ handler' = [handler EXCEPT ![h] = Idle] /\ UNCHANGED <<wallets, lines, credit>>
    BY DEF InitiateUpdate
  <1>4. \A q \in Payments : /\ payments'[q].paid = payments[q].paid
                            /\ payments'[q].serviceType = payments[q].serviceType
                            /\ payments'[q].user = payments[q].user
                            /\ payments'[q].amount = payments[q].amount
    BY <1>2, <1>3 DEF IInv, TypeOK, PaymentRows
  <1>5. \A q \in Payments : IF q = p THEN payments'[q].status = "processing"
                                     ELSE payments'[q] = payments[q]
    BY <1>1, <1>2, <1>3 DEF IInv, TypeOK, PaymentRows
  <1> HIDE DEF p
  <1>6. payments' \in [Payments -> PaymentRows]
    BY <1>1, <1>2, <1>3 DEF IInv, TypeOK, PaymentRows, PaymentStatuses
  <1>7. handler' \in [Handlers -> {Idle} \cup
                          [pc : {"provider", "confirm", "emit"}, payment : Payments]]
    BY <1>3 DEF IInv, TypeOK
  <1>8. RowsHaveUser'
    BY <1>2, <1>4, <1>5 DEF IInv, PaymentInv, RowsHaveUser
  <1>9. RequestsOK'
    <2>1. \A g \in Handlers : handler'[g] # Idle => handler'[g] = handler[g]
      BY <1>3 DEF IInv, TypeOK
    <2>2. \A g \in Handlers : handler[g] # Idle => handler[g].payment \in Payments
      BY DEF IInv, TypeOK
    <2> QED
      BY <1>4, <1>5, <2>1, <2>2 DEF IInv, PaymentInv, RequestsOK
  <1> QED
    BY <1>3, <1>4, <1>6, <1>7, <1>8, <1>9, PaymentsOnly

\* A confirmation that has found its row.
LEMMA ConfirmReadStep ==
  ASSUME IInv, NEW h \in Handlers, NEW p \in Payments, ConfirmRead(h, p)
  PROVE  IInv'
  <1>1. payments[p].status # "absent" /\ UNCHANGED <<wallets, lines, payments, credit>>
        /\ handler' = [handler EXCEPT ![h] = [pc |-> "confirm", payment |-> p]]
    BY DEF ConfirmRead
  <1>2. handler' \in [Handlers -> {Idle} \cup
                          [pc : {"provider", "confirm", "emit"}, payment : Payments]]
    BY <1>1 DEF IInv, TypeOK
  <1>3. RowsHaveUser' /\ RequestsOK'
    BY <1>1 DEF IInv, TypeOK, PaymentInv, RowsHaveUser, RequestsOK
  <1> QED
    BY <1>1, <1>2, <1>3, PaymentsOnly DEF IInv, TypeOK

\* The confirmation marks the row paid before it publishes anything.
LEMMA ConfirmWriteStep ==
  ASSUME IInv, NEW h \in Handlers, ConfirmWrite(h)
  PROVE  IInv'
  <1> DEFINE p == handler[h].payment
  <1>1. p \in Payments /\ payments[p].status # "absent"
    BY RequestTyped DEF ConfirmWrite, IInv, PaymentInv, RequestsOK
  <1>2. payments[p].status # "absent" /\ payments[p] \in PaymentRows
    BY <1>1 DEF IInv, TypeOK, PaymentInv, RowsHaveUser
  <1>3. payments' = [payments EXCEPT ![p].status = "success", ![p].paid = TRUE]
        /\ handler' = [handler EXCEPT ![h].pc = "emit"] /\ UNCHANGED <<wallets, lines, credit>>
    BY DEF ConfirmWrite
  <1>4. \A q \in Payments : /\ payments[q].paid => payments'[q].paid
                            /\ payments'[q].serviceType = payments[q].serviceType
                            /\ payments'[q].user = payments[q].user
                            /\ payments'[q].amount = payments[q].amount
    BY <1>2, <1>3 DEF IInv, TypeOK, PaymentRows
  <1>5. \A q \in Payments : IF q = p THEN payments'[q].status = "success" /\ payments'[q].paid
                                     ELSE payments'[q] = payments[q]
    BY <1>1, <1>2, <1>3 DEF IInv, TypeOK, PaymentRows
  <1>6. handler[h] \in [pc : {"provider", "confirm", "emit"}, payment : Payments]
    BY DEF ConfirmWrite, IInv, TypeOK, Idle
  <1> DEFINE e == [handler[h] EXCEPT !.pc = "emit"]
  <1>7. handler' = [handler EXCEPT ![h] = e] /\ e.payment = p
        /\ e \in [pc : {"provider", "confirm", "emit"}, payment : Payments]
    BY <1>3, <1>6 DEF IInv, TypeOK
  <1> HIDE DEF p, e
  <1>8. payments' \in [Payments -> PaymentRows]
    BY <1>1, <1>2, <1>3 DEF IInv, TypeOK, PaymentRows, PaymentStatuses
  <1>9. handler' \in [Handlers -> {Idle} \cup
                          [pc : {"provider", "confirm", "emit"}, payment : Payments]]
    BY <1>1, <1>7 DEF IInv, TypeOK
  <1>10. RowsHaveUser'
    BY <1>2, <1>4, <1>5 DEF IInv, PaymentInv, RowsHaveUser
  <1>11. RequestsOK'
    <2>1. \A g \in Handlers : handler'[g] = IF g = h THEN e ELSE handler[g]
      BY <1>7 DEF IInv, TypeOK
    <2>2. \A g \in Handlers : handler[g] # Idle => handler[g].payment \in Payments
      BY DEF IInv, TypeOK
    <2> QED
      BY <1>1, <1>4, <1>5, <1>7, <2>1, <2>2 DEF IInv, PaymentInv, RequestsOK
  <1> QED
    BY <1>3, <1>4, <1>8, <1>9, <1>10, <1>11, PaymentsOnly

\* A request that dies leaves the tables as they are.
LEMMA PaymentAbortStep ==
  ASSUME IInv, NEW h \in Handlers, PaymentAbort(h)
  PROVE  IInv'
  <1>1. UNCHANGED <<wallets, lines, payments, credit>>
        /\ handler' = [handler EXCEPT ![h] = Idle]
    BY DEF PaymentAbort
  <1>2. handler' \in [Handlers -> {Idle} \cup
                          [pc : {"provider", "confirm", "emit"}, payment : Payments]]
    BY <1>1 DEF IInv, TypeOK
  <1>3. RowsHaveUser' /\ RequestsOK'
    BY <1>1 DEF IInv, TypeOK, PaymentInv, RowsHaveUser, RequestsOK
  <1> QED
    BY <1>1, <1>2, <1>3, PaymentsOnly DEF IInv, TypeOK

\* The status of a wallet changes only while no transaction holds its row.
LEMMA SetStatusStep == ASSUME IInv, NEW u \in Users, SetStatus(u) PROVE IInv'
  <1>1. PICK st \in WalletStatuses \ {"absent"} :
             wallets' = [wallets EXCEPT ![u].status = st]
    BY DEF SetStatus
  <1>2. LockFree(u) /\ UNCHANGED <<lines, payments, handler, credit>>
    BY DEF SetStatus
  <1>3. \A v \in Users : /\ wallets'[v].balance = wallets[v].balance
                         /\ wallets'[v].version = wallets[v].version
                         /\ v # u => wallets'[v] = wallets[v]
    BY <1>1 DEF IInv, TypeOK, WalletRows
  <1>4. TypeOK'
    BY <1>1, <1>2 DEF IInv, TypeOK, WalletRows
  <1>5. LockExclusive' /\ BalanceIsSumOfLines'
    BY <1>2, <1>3 DEF IInv, LockInv, LockExclusive, Holds, BalanceIsSumOfLines, BalanceBefore
  <1>6. SeenIsCurrent'
    <2>1. \A x \in Credits : Holds(x) => credit[x].user \in Users /\ credit[x].user # u
      BY <1>2, CallTyped DEF Holds, LockFree, IInv, CreditCalls
    <2> QED
      BY <1>2, <1>3, <2>1 DEF IInv, LockInv, SeenIsCurrent, Holds
  <1>7. PaymentInv'
    BY <1>2 DEF IInv, PaymentInv, RowsHaveUser, RequestsOK, CallsBacked, TopupIsPaid, PaidTopup
  <1> QED
    BY <1>4, <1>5, <1>6, <1>7 DEF IInv, LockInv

\* Every step keeps the inductive invariant.
LEMMA StepInv == IInv /\ [Next]_moneyVars => IInv'
  <1> SUFFICES ASSUME IInv, [Next]_moneyVars PROVE IInv'
    OBVIOUS
  <1>1. ASSUME NEW x \in Credits, CreditProgress(x) \/ CreditRollback(x) PROVE IInv'
    BY <1>1, LockStep, FailStep, AnnounceStep, CommitStep DEF CreditProgress
  <1>2. ASSUME NEW h \in Handlers, PaymentStep(h) PROVE IInv'
    BY <1>2, InitiateSaveStep, InitiateUpdateStep, ConfirmReadStep, ConfirmWriteStep,
       ConfirmEmitStep, PaymentAbortStep DEF PaymentStep
  <1>3. CASE UNCHANGED moneyVars
    <2>1. TypeOK'
      BY <1>3 DEF moneyVars, IInv, TypeOK
    <2>2. LockInv'
      BY <1>3 DEF moneyVars, IInv, LockInv, LockExclusive, SeenIsCurrent, Holds,
         BalanceIsSumOfLines, BalanceBefore
    <2>3. PaymentInv'
      BY <1>3 DEF moneyVars, IInv, PaymentInv, RowsHaveUser, RequestsOK, CallsBacked,
         TopupIsPaid, PaidTopup
    <2> QED
      BY <2>1, <2>2, <2>3 DEF IInv
  <1> QED
    BY <1>1, <1>2, <1>3, RideStep, SetStatusStep DEF Next

-----------------------------------------------------------------------------

\* The invariant holds in every reachable state.
LEMMA Invariance == Spec => []IInv
  BY InitInv, StepInv, PTL DEF Spec

\* Rows, lines and calls keep their types: balances are natural numbers of centimes.
THEOREM TypeCorrect == Spec => []TypeOK
  <1>1. IInv => TypeOK
    BY DEF IInv
  <1> QED
    BY <1>1, Invariance, PTL

\* The balance of a wallet is always the sum of its lines (WalletTransaction: SUM of
\* the credits = balance): no interleaving of credits loses one.
THEOREM BalanceTheorem == Spec => []BalanceIsSumOfLines
  <1>1. IInv => BalanceIsSumOfLines
    BY DEF IInv, LockInv
  <1> QED
    BY <1>1, Invariance, PTL

\* No wallet is topped up from a payment that was not marked paid (confirmSuccess
\* writes the row before it publishes), nor from somebody else's.
THEOREM TopupTheorem == Spec => []TopupIsPaid
  <1>1. IInv => TopupIsPaid
    BY DEF IInv, PaymentInv
  <1> QED
    BY <1>1, Invariance, PTL

-----------------------------------------------------------------------------
(* The refinement of Ledger. *)

\* A wallet table without rows is a ledger without credits.
LEMMA InitRefines == Init => L!LedgerInit
  BY DEF Init, L!LedgerInit

\* A line as the ledger sees it.
EntryOf(t) == [amount |-> t.amount, ref |-> t.ref]

HistoryOf(s) == [i \in 1..Len(s) |-> EntryOf(s[i])]

\* The history of one line more is one entry more.
LEMMA HistoryAppend ==
  ASSUME NEW s \in Seq(Lines), NEW t \in Lines
  PROVE  HistoryOf(Append(s, t)) = Append(HistoryOf(s), EntryOf(t))
  <1> DEFINE g == [i \in 1..Len(s) |-> EntryOf(s[i])]
             r == Append(s, t)
             k == [i \in 1..Len(r) |-> EntryOf(r[i])]
  <1>1. Len(s) \in Nat /\ Len(r) = Len(s) + 1 /\ r[Len(s) + 1] = t
        /\ \A i \in 1..Len(s) : r[i] = s[i]
    OBVIOUS
  <1> HIDE DEF r
  <1>2. g \in Seq({EntryOf(l) : l \in Lines}) /\ Len(g) = Len(s)
    <2>1. \A i \in 1..Len(s) : s[i] \in Lines
      OBVIOUS
    <2> QED
      BY <1>1, <2>1
  <1>3. \A i \in 1..Len(s) : Append(g, EntryOf(t))[i] = g[i]
    BY <1>2
  <1>4. Append(g, EntryOf(t))[Len(s) + 1] = EntryOf(t) /\ Len(Append(g, EntryOf(t))) = Len(s) + 1
    BY <1>2
  <1> QED
    BY <1>1, <1>2, <1>3, <1>4 DEF r, EntryOf, HistoryOf

\* A commit is the abstract credit.
LEMMA CommitRefines ==
  ASSUME IInv, NEW x \in Credits, CreditCommit(x)
  PROVE  L!LedgerNext
  <1>1. /\ credit[x] \in CreditCalls /\ wallets[credit[x].user].status = "active"
        /\ wallets' = [wallets EXCEPT ![credit[x].user] = NewRow(x)]
        /\ lines' = [lines EXCEPT ![credit[x].user] = Append(@, NewLine(x))]
        /\ NewRow(x).status = wallets[credit[x].user].status
        /\ NewRow(x).balance = NewLine(x).balanceAfter
        /\ NewLine(x) \in Lines
    BY CommitEffect
  <1>2. credit[x].user \in Users /\ credit[x].amount \in CreditAmounts /\ credit[x].ref \in LineRefs
    BY <1>1 DEF CreditCalls
  <1> SUFFICES ASSUME NEW u \in Users, NEW a \in CreditAmounts, NEW ref \in LineRefs,
                      credit[x].user = u, credit[x].amount = a, credit[x].ref = ref
               PROVE  L!Credit(u, a, ref)
    BY <1>2 DEF L!LedgerNext
  <1>3. NewLine(x).balanceAfter = wallets[u].balance + a
        /\ EntryOf(NewLine(x)) = [amount |-> a, ref |-> ref]
    BY DEF NewLine, EntryOf
  <1>4. [v \in Users |-> wallets'[v].balance]
          = [[v \in Users |-> wallets[v].balance] EXCEPT ![u] = @ + a]
    BY <1>1, <1>3 DEF IInv, TypeOK
  <1>5. [v \in Users |-> wallets'[v].status = "active"]
          = [v \in Users |-> wallets[v].status = "active"]
    BY <1>1 DEF IInv, TypeOK
  <1>6. HistoryOf(lines'[u]) = Append(HistoryOf(lines[u]), [amount |-> a, ref |-> ref])
    <2>1. lines[u] \in Seq(Lines) /\ lines'[u] = Append(lines[u], NewLine(x))
      BY <1>1 DEF IInv, TypeOK
    <2> QED
      BY <1>1, <1>3, <2>1, HistoryAppend
  <1>7. [v \in Users |-> HistoryOf(lines'[v])]
          = [[v \in Users |-> HistoryOf(lines[v])] EXCEPT
                ![u] = Append(@, [amount |-> a, ref |-> ref])]
    BY <1>1, <1>6 DEF IInv, TypeOK
  <1>8. wallets[u].status = "active"
    BY <1>1
  <1> QED
    BY <1>4, <1>5, <1>7, <1>8 DEF L!Credit, HistoryOf, EntryOf

\* Freezing or opening a wallet switches the account, and moving between the
\* statuses that are not active is invisible.
LEMMA SetStatusRefines ==
  ASSUME IInv, NEW u \in Users, SetStatus(u)
  PROVE  [L!LedgerNext]_(L!ledgerVars)
  <1>1. PICK st \in WalletStatuses \ {"absent"} :
             wallets' = [wallets EXCEPT ![u].status = st]
    BY DEF SetStatus
  <1>2. [v \in Users |-> wallets'[v].balance] = [v \in Users |-> wallets[v].balance]
        /\ lines' = lines
    BY <1>1 DEF SetStatus, IInv, TypeOK, WalletRows
  <1>3. \A v \in Users : wallets'[v].status = IF v = u THEN st ELSE wallets[v].status
    BY <1>1 DEF IInv, TypeOK, WalletRows
  <1>4. CASE (st = "active") = (wallets[u].status = "active")
    <2>1. [v \in Users |-> wallets'[v].status = "active"]
            = [v \in Users |-> wallets[v].status = "active"]
      BY <1>3, <1>4
    <2> QED
      BY <1>2, <2>1 DEF L!ledgerVars
  <1>5. CASE (st = "active") = ~(wallets[u].status = "active")
    <2>1. [v \in Users |-> wallets'[v].status = "active"]
            = [[v \in Users |-> wallets[v].status = "active"] EXCEPT ![u] = ~@]
      BY <1>3, <1>5
    <2> QED
      BY <1>2, <2>1 DEF L!LedgerNext, L!SetActive
  <1> QED
    BY <1>4, <1>5

\* Every other step leaves wallets and lines alone.
LEMMA StepRefines == IInv /\ [Next]_moneyVars => [L!LedgerNext]_(L!ledgerVars)
  <1> SUFFICES ASSUME IInv, [Next]_moneyVars PROVE [L!LedgerNext]_(L!ledgerVars)
    OBVIOUS
  <1>1. CASE UNCHANGED <<wallets, lines>>
    BY <1>1 DEF L!ledgerVars
  <1>2. ASSUME NEW x \in Credits, CreditProgress(x) \/ CreditRollback(x)
        PROVE  CreditCommit(x) \/ UNCHANGED <<wallets, lines>>
    BY <1>2 DEF CreditProgress, CreditLock, CreditRefused, CreditAnnounce, CreditRollback
  <1>3. ASSUME NEW h \in Handlers, PaymentStep(h) PROVE UNCHANGED <<wallets, lines>>
    BY <1>3 DEF PaymentStep, InitiateSave, InitiateUpdate, ConfirmRead, ConfirmWrite,
       ConfirmEmit, PaymentAbort
  <1>4. ASSUME NEW r \in Rides, RideCompleted(r) PROVE UNCHANGED <<wallets, lines>>
    BY <1>4 DEF RideCompleted
  <1> QED
    BY <1>1, <1>2, <1>3, <1>4, CommitRefines, SetStatusRefines DEF Next, moneyVars

\* The wallet implements the ledger: seen through its committed tables, each credit
\* is one atomic step on an active account (SELECT FOR UPDATE in credit()).
THEOREM RefinementTheorem == Spec => ImplementsLedger
  BY InitRefines, StepRefines, Invariance, PTL DEF Spec, ImplementsLedger, L!LedgerSpec

-----------------------------------------------------------------------------
(* Referral: the invariant *)

Paying == {"referrer", "mark_referrer", "referee", "mark_referee"}
Reached == {"complete", "grant", "insert"} \cup Paying

Task == [pc : {"new", "expire", "count", "done"} \cup Reached,
         referee : Accounts \cup {"none"}, seen : Nat, counted : BOOLEAN]

Types ==
    /\ active \in [Accounts -> BOOLEAN]
    /\ balance \in [Accounts -> Nat]
    /\ history \in [Accounts -> Seq(Entry)]
    /\ walletRoles \subseteq Roles
    /\ reg \in [Accounts -> {"new", "checked", "done"}]
    /\ usage \in [Accounts -> [status : UsageStatuses, trips : Nat, referrer : Accounts]]
    /\ log \in [Accounts -> [Roles -> LogStatuses]]
    /\ expired \subseteq Accounts
    /\ task \in [Refs -> Task]

\* A usage belongs to a registration that has ended, and its referrer to somebody else.
RegOK ==
    \A f \in Accounts :
        /\ usage[f].status # "absent" => reg[f] = "done" /\ usage[f].referrer # f
        /\ reg[f] = "checked" => usage[f].referrer # f

\* The logs of a usage are inserted together.
LogsThere(f) == \A role \in Roles : log[f][role] # "absent"
LogsTogether == \A f \in Accounts, role \in Roles : log[f][role] # "absent" => LogsThere(f)

N(f) == Cardinality(Counted(f))

\* The counter of a usage may lose announcements, and counts none that was not there.
CountsOK == \A f \in Accounts : IsFiniteSet(Counted(f)) /\ usage[f].trips <= N(f)

\* What is completed or rewarded, and what has logs, has reached the threshold.
ReachedOK ==
    \A f \in Accounts :
        /\ usage[f].status \in {"completed", "rewarded"} => N(f) >= Threshold
        /\ LogsThere(f) => usage[f].status # "absent" /\ N(f) >= Threshold

\* What a task knows of the usage of its referee.
TaskKnows(t) ==
    LET f == task[t].referee IN
    /\ task[t].pc # "new" => f \in Accounts /\ usage[f].status # "absent"
    /\ task[t].counted => task[t].pc \notin {"new", "expire", "count"}
    /\ task[t].pc = "count" => task[t].seen <= N(f)
    /\ task[t].pc \in Reached => task[t].counted /\ N(f) >= Threshold
    /\ task[t].pc \in Paying => LogsThere(f)

\* The lines a task has written by the place it is at.
TaskPaid(t) ==
    LET f == task[t].referee IN
    /\ task[t].pc \notin {"mark_referrer", "referee", "mark_referee", "done"} =>
          \A u \in Accounts : Entries(u, t) = {}
    /\ task[t].pc \in {"mark_referrer", "referee"} =>
          \A u \in Accounts : u # usage[f].referrer => Entries(u, t) = {}
    /\ task[t].pc = "mark_referrer" => Entries(usage[f].referrer, t) # {}
    /\ task[t].pc = "mark_referee" => Entries(f, t) # {}

TasksOK == \A t \in Refs : TaskKnows(t) /\ TaskPaid(t)

OneEntry == \A u \in Accounts, t \in Refs : \A i, j \in Entries(u, t) : i = j

ReferralIInv == /\ Types /\ RegOK /\ LogsTogether /\ CountsOK /\ ReachedOK /\ TasksOK
        /\ CreditHasLog /\ GrantedHasCredit /\ OneEntry

-----------------------------------------------------------------------------
(* What later states keep of earlier ones *)

\* Counted trips stay counted, usages and logs are never deleted, and a usage keeps
\* its referrer.
Later ==
    /\ \A t \in Refs : task[t].counted => task'[t].counted /\ task'[t].referee = task[t].referee
    /\ \A f \in Accounts : N(f) \in Nat /\ N(f)' \in Nat /\ N(f) <= N(f)'
    /\ \A f \in Accounts : usage[f].status # "absent" =>
          usage'[f].status # "absent" /\ usage'[f].referrer = usage[f].referrer
    /\ \A f \in Accounts, role \in Roles : log[f][role] # "absent" => log'[f][role] # "absent"

\* The count of a usage is a number.
LEMMA CountNat == ASSUME CountsOK, NEW f \in Accounts PROVE N(f) \in Nat
  BY FS_CardinalityType DEF CountsOK, N

\* When the tasks keep what they have counted, so do the counts.
LEMMA CountedSame ==
  ASSUME \A t \in Refs : task'[t].counted = task[t].counted
                         /\ (task[t].counted => task'[t].referee = task[t].referee)
  PROVE  \A f \in Accounts : Counted(f)' = Counted(f) /\ N(f)' = N(f)
  <1>1. \A f \in Accounts : Counted(f)' = Counted(f)
    BY DEF Counted
  <1> QED
    BY <1>1 DEF N

\* The lines of the wallets are those of before.
LEMMA EntriesSame ==
  ASSUME history' = history
  PROVE  \A u, t : Entries(u, t)' = Entries(u, t)
  BY DEF Entries

\* A task that does not move, and writes no line, knows later what it knew.
LEMMA TaskStable ==
  ASSUME Types, Later, NEW t \in Refs, task'[t] = task[t], TaskKnows(t), TaskPaid(t),
         \A u \in Accounts : Entries(u, t)' = Entries(u, t)
  PROVE  TaskKnows(t)' /\ TaskPaid(t)'
  <1> DEFINE f == task[t].referee
  <1>1. CASE task[t].pc = "new"
    BY <1>1 DEF TaskKnows, TaskPaid, Reached, Paying
  <1>2. CASE task[t].pc # "new"
    <2>1. /\ f \in Accounts /\ usage[f].status # "absent"
          /\ usage'[f].status # "absent" /\ usage'[f].referrer = usage[f].referrer
          /\ N(f) \in Nat /\ N(f)' \in Nat /\ N(f) <= N(f)'
          /\ task[t].seen \in Nat /\ usage[f].referrer \in Accounts
      BY <1>2 DEF TaskKnows, Later, Types, Task
    <2>2. LogsThere(f) => LogsThere(f)'
      BY <2>1 DEF LogsThere, Later
    <2>3. task[t].seen <= N(f) /\ task[t].pc = "count" => task[t].seen <= N(f)'
      BY <2>1
    <2>4. TaskKnows(t)'
      BY <1>2, <2>1, <2>2, <2>3, ProgramAssumption DEF TaskKnows
    <2>5. \A u \in Accounts : Entries(u, t)' = {} <=> Entries(u, t) = {}
      OBVIOUS
    <2>6. TaskPaid(t)'
      BY <2>1, <2>5 DEF TaskPaid
    <2> QED
      BY <2>4, <2>6
  <1> QED
    BY <1>1, <1>2

\* The trail of the rewards when no line is written: a log turns "granted" only when
\* its bonus is there.
LEMMA TrailKept ==
  ASSUME ReferralIInv, Later, history' = history,
         \A f \in Accounts, role \in Roles :
            log'[f][role] = "granted" /\ log[f][role] # "granted" =>
                /\ log[f][role] # "absent"
                /\ \E t \in Counted(f) : Entries(Recipient(f, role), t) # {}
  PROVE  CreditHasLog' /\ GrantedHasCredit' /\ OneEntry'
  <1>1. \A u, t : Entries(u, t)' = Entries(u, t)
    BY EntriesSame
  <1>2. \A f \in Accounts, role \in Roles :
           log[f][role] # "absent" => Recipient(f, role)' = Recipient(f, role)
    BY DEF ReferralIInv, LogsTogether, ReachedOK, Recipient, Later
  <1>3. CreditHasLog'
    BY <1>1, <1>2 DEF ReferralIInv, CreditHasLog, Later
  <1>4. GrantedHasCredit'
    <2> SUFFICES ASSUME NEW f \in Accounts, NEW role \in Roles, log'[f][role] = "granted"
                 PROVE  \E t \in Counted(f)' : Entries(Recipient(f, role), t)' # {}
      BY DEF GrantedHasCredit
    <2>1. log[f][role] # "absent" /\ \E t \in Counted(f) : Entries(Recipient(f, role), t) # {}
      BY DEF ReferralIInv, GrantedHasCredit
    <2>2. \A t \in Counted(f) : t \in Counted(f)'
      BY DEF Counted, Later
    <2>3. Recipient(f, role)' = Recipient(f, role)
      BY <1>2, <2>1
    <2>4. \A t : Entries(Recipient(f, role), t)' = Entries(Recipient(f, role), t)
      BY <2>3, history' = history DEF Entries
    <2> QED
      BY <2>1, <2>2, <2>4
  <1>5. OneEntry'
    BY <1>1 DEF ReferralIInv, OneEntry
  <1> QED
    BY <1>3, <1>4, <1>5

\* A step that writes no line keeps the invariant when it keeps the rows and leaves
\* each task where it was or with what it has to know.
LEMMA QuietStep ==
  ASSUME ReferralIInv, Later, history' = history,
         Types', RegOK', LogsTogether', CountsOK', ReachedOK',
         \A t \in Refs : task'[t] = task[t] \/ (TaskKnows(t)' /\ TaskPaid(t)'),
         \A f \in Accounts, role \in Roles :
            log'[f][role] = "granted" /\ log[f][role] # "granted" =>
                /\ log[f][role] # "absent"
                /\ \E t \in Counted(f) : Entries(Recipient(f, role), t) # {}
  PROVE  ReferralIInv'
  <1>1. TasksOK'
    BY TaskStable, EntriesSame DEF ReferralIInv, TasksOK
  <1>2. CreditHasLog' /\ GrantedHasCredit' /\ OneEntry'
    BY TrailKept
  <1> QED
    BY <1>1, <1>2 DEF ReferralIInv

\* A task that moves on without touching a row.
LEMMA MoveStep ==
  ASSUME ReferralIInv, NEW t \in Refs, NEW x \in Task, task' = [task EXCEPT ![t] = x],
         x.counted = task[t].counted, task[t].counted => x.referee = task[t].referee,
         UNCHANGED <<ledgerVars, walletRoles, reg, usage, log, expired>>,
         TaskKnows(t)', TaskPaid(t)'
  PROVE  ReferralIInv'
  <1>1. \A s \in Refs : task'[s] = IF s = t THEN x ELSE task[s]
    BY DEF ReferralIInv, Types
  <1>2. \A f \in Accounts : Counted(f)' = Counted(f) /\ N(f)' = N(f)
    BY <1>1, CountedSame
  <1>3. Later
    BY <1>1, <1>2, CountNat, SMTT(30) DEF ReferralIInv, Later
  <1>4. Types'
    BY DEF ReferralIInv, Types, ledgerVars
  <1>5. RegOK' /\ LogsTogether'
    BY DEF ReferralIInv, RegOK, LogsTogether, LogsThere
  <1>6. CountsOK' /\ ReachedOK'
    BY <1>2 DEF ReferralIInv, CountsOK, ReachedOK, LogsThere
  <1> QED
    BY <1>1, <1>3, <1>4, <1>5, <1>6, QuietStep DEF ledgerVars

-----------------------------------------------------------------------------
(* Registration *)

\* The initial states satisfy the invariant.
LEMMA ReferralInitInv == ReferralInit => ReferralIInv
  <1> SUFFICES ASSUME ReferralInit PROVE ReferralIInv
    OBVIOUS
  <1>1. Types
    BY DEF ReferralInit, LedgerInit, Types, Task, NoTask, NoUsage, UsageStatuses, LogStatuses, Roles
  <1>2. \A f \in Accounts : Counted(f) = {}
    BY DEF ReferralInit, Counted, NoTask
  <1>3. \A u \in Accounts : \A t : Entries(u, t) = {}
    BY DEF ReferralInit, LedgerInit, Entries
  <1>4. CountsOK
    <2> SUFFICES ASSUME NEW f \in Accounts PROVE IsFiniteSet(Counted(f)) /\ usage[f].trips <= N(f)
      BY DEF CountsOK
    <2>1. usage[f].trips = 0
      BY DEF ReferralInit, NoUsage
    <2>2. IsFiniteSet(Counted(f)) /\ N(f) = 0
      BY <1>2, FS_EmptySet DEF N
    <2> QED
      BY <2>1, <2>2
  <1>5. RegOK /\ LogsTogether /\ ReachedOK
    BY DEF ReferralInit, RegOK, LogsTogether, ReachedOK, LogsThere, NoUsage, Roles
  <1>6. TasksOK
    BY <1>3 DEF ReferralInit, TasksOK, TaskKnows, TaskPaid, NoTask, Reached, Paying
  <1>7. CreditHasLog /\ GrantedHasCredit /\ OneEntry
    BY <1>3 DEF ReferralInit, CreditHasLog, GrantedHasCredit, OneEntry
  <1> QED
    BY <1>1, <1>4, <1>5, <1>6, <1>7 DEF ReferralIInv

\* A step of the registration of f, or the expiry of its usage: a usage appears or
\* gets a referrer before it exists, and the counters stay.
LEMMA RegistrationStep ==
  ASSUME ReferralIInv, Types', NEW f \in Accounts, UNCHANGED <<history, log, task>>,
         \A g \in Accounts \ {f} : usage'[g] = usage[g] /\ reg'[g] = reg[g],
         usage'[f].trips = usage[f].trips,
         usage[f].status # "absent" => usage'[f] = usage[f] /\ reg'[f] = reg[f],
         usage'[f].status # usage[f].status => usage'[f].status = "pending" /\ reg'[f] = "done",
         usage'[f].status # "absent" => reg'[f] = "done" /\ usage'[f].referrer # f,
         reg'[f] = "checked" => usage'[f].referrer # f
  PROVE  ReferralIInv'
  <1>1. \A g \in Accounts : Counted(g)' = Counted(g) /\ N(g)' = N(g)
    BY CountedSame
  <1>2. Later
    BY <1>1, CountNat, SMTT(30) DEF ReferralIInv, Later
  <1>3. RegOK'
    BY DEF ReferralIInv, RegOK
  <1>4. LogsTogether' /\ CountsOK' /\ ReachedOK'
    BY <1>1 DEF ReferralIInv, LogsTogether, CountsOK, ReachedOK, LogsThere
  <1> QED
    BY <1>2, <1>3, <1>4, QuietStep

\* A registration takes note of its referrer.
LEMMA RegisterCheckInv ==
  ASSUME ReferralIInv, NEW f \in Accounts, NEW g \in Accounts, RegisterCheck(f, g) PROVE ReferralIInv'
  <1>1. Types'
    BY DEF ReferralIInv, Types, RegisterCheck, ledgerVars
  <1>2. usage[f].status = "absent"
    BY DEF ReferralIInv, RegOK, RegisterCheck
  <1>3. /\ usage'[f] = [usage[f] EXCEPT !.referrer = g] /\ reg'[f] = "checked" /\ g # f
        /\ \A x \in Accounts \ {f} : usage'[x] = usage[x] /\ reg'[x] = reg[x]
    BY DEF ReferralIInv, Types, RegisterCheck
  <1>4. usage'[f].status = "absent" /\ usage'[f].referrer = g /\ usage'[f].trips = usage[f].trips
    BY <1>2, <1>3 DEF ReferralIInv, Types
  <1>5. UNCHANGED <<history, log, task>>
    BY DEF RegisterCheck, ledgerVars
  <1> QED
    BY <1>1, <1>2, <1>3, <1>4, <1>5, RegistrationStep

\* The usage is saved by a registration that had none.
LEMMA RegisterSaveInv ==
  ASSUME ReferralIInv, NEW f \in Accounts, RegisterSave(f) PROVE ReferralIInv'
  <1>1. Types'
    BY DEF ReferralIInv, Types, RegisterSave, ledgerVars, UsageStatuses
  <1>2. usage[f].status = "absent" /\ usage[f].referrer # f
    BY DEF ReferralIInv, RegOK, RegisterSave
  <1>3. /\ usage'[f] = [usage[f] EXCEPT !.status = "pending"] /\ reg'[f] = "done"
        /\ \A x \in Accounts \ {f} : usage'[x] = usage[x] /\ reg'[x] = reg[x]
    BY DEF ReferralIInv, Types, RegisterSave
  <1>4. /\ usage'[f].status = "pending" /\ usage'[f].referrer = usage[f].referrer
        /\ usage'[f].trips = usage[f].trips
    BY <1>3 DEF ReferralIInv, Types
  <1> QED
    BY <1>1, <1>2, <1>3, <1>4, RegistrationStep DEF ReferralIInv, Types, RegisterSave, ledgerVars

\* A registration ends without a usage.
LEMMA RegisterEndInv ==
  ASSUME ReferralIInv, NEW f \in Accounts, RegisterEnd(f) PROVE ReferralIInv'
  <1>1. Types'
    BY DEF ReferralIInv, Types, RegisterEnd, ledgerVars
  <1>2. usage[f].status = "absent"
    BY DEF ReferralIInv, RegOK, RegisterEnd
  <1> QED
    BY <1>1, <1>2, RegistrationStep DEF ReferralIInv, Types, RegisterEnd, ledgerVars

\* A usage expires.
LEMMA ExpireInv ==
  ASSUME ReferralIInv, NEW f \in Accounts, Expire(f) PROVE ReferralIInv'
  <1>1. Types'
    BY DEF ReferralIInv, Types, Expire, ledgerVars
  <1> QED
    BY <1>1, RegistrationStep DEF ReferralIInv, RegOK, Types, Expire, ledgerVars

-----------------------------------------------------------------------------
(* A trip is counted *)

Usage == [status : UsageStatuses, trips : Nat, referrer : Accounts]

\* A task that was announced is about a usage of an account, and what it has counted
\* it counted for that usage.
LEMMA Referee ==
  ASSUME ReferralIInv, NEW t \in Refs, task[t].pc # "new"
  PROVE  /\ task[t] \in Task /\ task[t].referee \in Accounts
         /\ usage[task[t].referee] \in [status : UsageStatuses, trips : Nat, referrer : Accounts]
         /\ usage[task[t].referee].status # "absent"
         /\ TaskKnows(t) /\ TaskPaid(t)
  BY DEF ReferralIInv, Types, TasksOK, TaskKnows

\* A task reads the usage: its count is not above the trips counted.
LEMMA TripReadInv ==
  ASSUME ReferralIInv, NEW t \in Refs, NEW f \in Accounts, TripRead(t, f) PROVE ReferralIInv'
  <1> DEFINE x == [pc |-> IF f \in expired THEN "expire" ELSE "count", referee |-> f,
                   seen |-> usage[f].trips, counted |-> FALSE]
  <1>1. task[t].pc = "new" /\ task[t].counted = FALSE
    BY DEF ReferralIInv, Types, Task, TasksOK, TaskKnows, TripRead
  <1>2. x \in Task /\ task' = [task EXCEPT ![t] = x] /\ task'[t] = x
    BY DEF ReferralIInv, Types, Task, TripRead
  <1>3. UNCHANGED <<ledgerVars, walletRoles, reg, usage, log, expired>>
    BY DEF TripRead
  <1>4. N(f)' = N(f)
    BY <1>1, <1>2, CountedSame DEF ReferralIInv, Types
  <1>5. usage[f].status # "absent" /\ usage[f].trips <= N(f)
    BY DEF ReferralIInv, CountsOK, TripRead
  <1>6. TaskKnows(t)'
    BY <1>2, <1>3, <1>4, <1>5 DEF TaskKnows, Reached, Paying
  <1>7. \A u \in Accounts : Entries(u, t)' = {}
    BY <1>1, <1>3, EntriesSame DEF ReferralIInv, TasksOK, TaskPaid, ledgerVars
  <1>8. TaskPaid(t)'
    BY <1>2, <1>7 DEF TaskPaid
  <1> QED
    BY <1>1, <1>2, <1>3, <1>6, <1>8, MoveStep

\* A task that ends is bound to nothing any more.
LEMMA DoneStep ==
  ASSUME ReferralIInv, NEW t \in Refs, task[t].pc \notin {"new", "expire", "count"} \/ ~task[t].counted,
         task[t].pc # "new",
         task' = [task EXCEPT ![t].pc = "done"],
         UNCHANGED <<ledgerVars, walletRoles, reg, usage, log, expired>>
  PROVE  ReferralIInv'
  <1> DEFINE x == [task[t] EXCEPT !.pc = "done"]
  <1>1. /\ x \in Task /\ x.pc = "done" /\ x.counted = task[t].counted
        /\ x.referee = task[t].referee /\ task' = [task EXCEPT ![t] = x] /\ task'[t] = x
    BY Referee DEF ReferralIInv, Types, Task
  <1>2. TaskKnows(t)' /\ TaskPaid(t)'
    BY <1>1, Referee DEF TaskKnows, TaskPaid, Reached, Paying
  <1> QED
    BY <1>1, <1>2, MoveStep

\* A task dies.
LEMMA TripAbortInv == ASSUME ReferralIInv, NEW t \in Refs, TripAbort(t) PROVE ReferralIInv'
  <1>1. task[t].pc \notin {"new", "expire", "count"} \/ ~task[t].counted
    BY DEF ReferralIInv, TasksOK, TaskKnows, TripAbort
  <1> QED
    BY <1>1, DoneStep DEF TripAbort

\* A task loses the race for the logs.
LEMMA GrantConflictInv == ASSUME ReferralIInv, NEW t \in Refs, GrantConflict(t) PROVE ReferralIInv'
  BY DoneStep DEF GrantConflict

\* A task that moves on and writes the usage of its referee, whose counts stay.
LEMMA UsageStep ==
  ASSUME ReferralIInv, NEW t \in Refs, task[t].pc # "new", NEW pc, NEW status \in UsageStatuses,
         NEW f \in Accounts, f = task[t].referee,
         pc \in {"grant", "referrer", "done"},
         status \in {"expired", "completed", "rewarded"},
         task' = [task EXCEPT ![t].pc = pc],
         usage' = [usage EXCEPT ![f].status = status],
         UNCHANGED <<ledgerVars, walletRoles, reg, expired>>,
         log' \in [Accounts -> [Roles -> LogStatuses]], LogsTogether',
         \A g \in Accounts, role \in Roles : log'[g][role] # log[g][role] =>
            g = f /\ log[f][role] = "absent" /\ log'[f][role] = "pending",
         LogsThere(f)' \/ status # "expired" => N(f) >= Threshold,
         TaskKnows(t)', TaskPaid(t)'
  PROVE  ReferralIInv'
  <1> DEFINE x == [task[t] EXCEPT !.pc = pc]
  <1>1. f \in Accounts /\ usage[f].status # "absent"
    BY Referee
  <1>2. /\ x \in Task /\ task' = [task EXCEPT ![t] = x]
        /\ x.counted = task[t].counted /\ x.referee = task[t].referee
    <2>1. task[t] \in Task
      BY Referee
    <2>2. x \in Task /\ x.counted = task[t].counted /\ x.referee = task[t].referee
      BY <2>1 DEF Task, Reached, Paying
    <2> QED
      BY <2>2 DEF ReferralIInv, Types
  <1> HIDE DEF x
  <1>3. \A s \in Refs : task'[s] = IF s = t THEN x ELSE task[s]
    BY <1>2 DEF ReferralIInv, Types
  <1>4. \A g \in Accounts : Counted(g)' = Counted(g) /\ N(g)' = N(g)
    BY <1>2, <1>3, CountedSame
  <1>5. \A g \in Accounts : /\ usage'[g].trips = usage[g].trips
                            /\ usage'[g].referrer = usage[g].referrer
                            /\ usage'[g].status = IF g = f THEN status ELSE usage[g].status
    BY <1>1 DEF ReferralIInv, Types
  <1>6. Types'
    <2>1. usage' \in [Accounts -> [status : UsageStatuses, trips : Nat, referrer : Accounts]]
      <3> DEFINE r == [usage[f] EXCEPT !.status = status]
      <3>1. usage \in [Accounts -> Usage] /\ usage[f] \in Usage
        BY DEF ReferralIInv, Types, Usage
      <3>2. r \in Usage
        BY <1>1, <3>1 DEF Usage
      <3>3. usage' = [usage EXCEPT ![f] = r]
        BY <3>1
      <3> HIDE DEF r
      <3> QED
        BY <3>1, <3>2, <3>3, ZenonT(40) DEF Usage
    <2>2. task' \in [Refs -> Task]
      BY <1>2 DEF ReferralIInv, Types
    <2> QED
      BY <2>1, <2>2 DEF ReferralIInv, Types, ledgerVars
  <1>7. Later
    <2>1. \A g \in Accounts, role \in Roles : log[g][role] # "absent" => log'[g][role] # "absent"
      OBVIOUS
    <2>2. \A g \in Accounts : N(g) \in Nat /\ N(g)' \in Nat /\ N(g) <= N(g)'
      BY <1>4, CountNat DEF ReferralIInv
    <2> QED
      BY <1>1, <1>2, <1>3, <1>5, <2>1, <2>2 DEF Later
  <1>8. RegOK' /\ CountsOK'
    BY <1>1, <1>4, <1>5 DEF ReferralIInv, RegOK, CountsOK
  <1>9. ReachedOK'
    <2> SUFFICES ASSUME NEW g \in Accounts
                 PROVE  /\ usage'[g].status \in {"completed", "rewarded"} => N(g)' >= Threshold
                        /\ LogsThere(g)' => usage'[g].status # "absent" /\ N(g)' >= Threshold
      BY DEF ReachedOK
    <2>1. CASE g = f
      BY <2>1, <1>1, <1>4, <1>5
    <2>2. CASE g # f
      <3>1. LogsThere(g)' => LogsThere(g)
        BY <2>2 DEF LogsThere
      <3> QED
        BY <2>2, <3>1, <1>4, <1>5 DEF ReferralIInv, ReachedOK
    <2> QED
      BY <2>1, <2>2
  <1>10. history' = history
    BY DEF ledgerVars
  <1> QED
    BY <1>3, <1>6, <1>7, <1>8, <1>9, <1>10, QuietStep DEF ReferralIInv

\* A usage is marked expired.
LEMMA TripExpireInv == ASSUME ReferralIInv, NEW t \in Refs, TripExpire(t) PROVE ReferralIInv'
  <1> PICK f \in Accounts : f = task[t].referee
    BY Referee DEF TripExpire, TripComplete
  <1>1. task[t].pc = "expire" /\ f \in Accounts /\ usage[f].status # "absent" /\ task[t] \in Task
    BY Referee DEF TripExpire
  <1>2. /\ task'[t].pc = "done" /\ task'[t].referee = f
        /\ usage'[f].status = "expired"
    BY <1>1, Referee DEF ReferralIInv, Types, Task, TripExpire
  <1>3. TaskKnows(t)' /\ TaskPaid(t)'
    BY <1>1, <1>2 DEF TaskKnows, TaskPaid, Reached, Paying
  <1>4. UNCHANGED <<ledgerVars, walletRoles, reg, log, expired>>
    BY DEF TripExpire
  <1>5. LogsThere(f)' => N(f) >= Threshold
    BY <1>1, <1>4 DEF ReferralIInv, ReachedOK, LogsThere
  <1>6. log' \in [Accounts -> [Roles -> LogStatuses]] /\ LogsTogether'
    BY <1>4 DEF ReferralIInv, Types, LogsTogether, LogsThere
  <1> QED
    BY <1>1, <1>3, <1>4, <1>5, <1>6, UsageStep DEF TripExpire, UsageStatuses

\* A usage is completed by a task that has reached the threshold.
LEMMA TripCompleteInv == ASSUME ReferralIInv, NEW t \in Refs, TripComplete(t) PROVE ReferralIInv'
  <1> PICK f \in Accounts : f = task[t].referee
    BY Referee DEF TripExpire, TripComplete
  <1>1. /\ task[t].pc = "complete" /\ f \in Accounts /\ usage[f].status # "absent"
        /\ task[t] \in Task /\ task[t].counted /\ N(f) >= Threshold
        /\ \A u \in Accounts : Entries(u, t) = {}
    BY Referee DEF TripComplete, TaskKnows, TaskPaid, Reached, Paying
  <1>2. /\ task'[t].pc = "grant" /\ task'[t].referee = f /\ task'[t].counted
        /\ usage'[f].status = "completed"
    BY <1>1, Referee DEF ReferralIInv, Types, Task, TripComplete
  <1>3. UNCHANGED <<ledgerVars, walletRoles, reg, log, expired>>
    BY DEF TripComplete
  <1>4. N(f)' = N(f)
    <2>1. \A s \in Refs : task'[s].counted = task[s].counted /\ task'[s].referee = task[s].referee
      BY DEF ReferralIInv, Types, Task, TripComplete
    <2> QED
      BY <1>1, <2>1, CountedSame
  <1>5. TaskKnows(t)' /\ TaskPaid(t)'
    BY <1>1, <1>2, <1>3, <1>4, EntriesSame DEF TaskKnows, TaskPaid, Reached, Paying, ledgerVars
  <1>6. log' \in [Accounts -> [Roles -> LogStatuses]] /\ LogsTogether'
    BY <1>3 DEF ReferralIInv, Types, LogsTogether, LogsThere
  <1> QED
    BY <1>1, <1>3, <1>5, <1>6, UsageStep DEF TripComplete, UsageStatuses

\* A trip is counted: its task joins those counted for the referee, and the counter
\* is written from the value the task had read.
LEMMA TripCountInv == ASSUME ReferralIInv, NEW t \in Refs, TripCount(t) PROVE ReferralIInv'
  <1> PICK f \in Accounts : f = task[t].referee
    BY Referee DEF TripCount
  <1> DEFINE n == task[t].seen + 1
             x == [task[t] EXCEPT !.counted = TRUE,
                                  !.pc = IF n >= Threshold THEN "complete" ELSE "done"]
  <1>1. /\ task[t].pc = "count" /\ f \in Accounts /\ usage[f].status # "absent"
        /\ task[t] \in Task /\ task[t].seen \in Nat /\ task[t].seen <= N(f)
        /\ ~task[t].counted /\ \A u \in Accounts : Entries(u, t) = {}
    BY Referee DEF TripCount, TaskKnows, TaskPaid, Task
  <1>2. task' = [task EXCEPT ![t] = x]
    BY DEF ReferralIInv, Types, Task, TripCount
  <1>3. \A s \in Refs : task'[s] = IF s = t THEN x ELSE task[s]
    BY <1>2 DEF ReferralIInv, Types
  <1>4. /\ x \in Task /\ x.counted /\ x.referee = f
        /\ x.pc = IF n >= Threshold THEN "complete" ELSE "done"
    BY <1>1 DEF Task, Reached
  <1> HIDE DEF x
  <1>5. UNCHANGED <<ledgerVars, walletRoles, reg, log, expired>>
    BY DEF TripCount
  <1>6. Counted(f)' = Counted(f) \cup {t} /\ t \notin Counted(f)
    BY <1>1, <1>3, <1>4, SMTT(30) DEF Counted
  <1>7. \A g \in Accounts \ {f} : Counted(g)' = Counted(g) /\ N(g)' = N(g)
    <2>1. \A g \in Accounts \ {f} : Counted(g)' = Counted(g)
      BY <1>1, <1>3, <1>4 DEF Counted
    <2> QED
      BY <2>1 DEF N
  <1>8. IsFiniteSet(Counted(f))' /\ N(f) \in Nat /\ N(f)' = N(f) + 1
    BY <1>1, <1>6, CountNat, FS_AddElement DEF ReferralIInv, CountsOK, N
  <1>9. /\ usage'[f].trips = n
        /\ \A g \in Accounts : /\ usage'[g].status = usage[g].status
                               /\ usage'[g].referrer = usage[g].referrer
                               /\ g # f => usage'[g].trips = usage[g].trips
    BY <1>1 DEF ReferralIInv, Types, TripCount
  <1>10. Types'
    <2>1. usage' \in [Accounts -> [status : UsageStatuses, trips : Nat, referrer : Accounts]]
      <3> DEFINE r == [usage[f] EXCEPT !.trips = n]
      <3>1. usage \in [Accounts -> Usage] /\ usage[f] \in Usage
        BY DEF ReferralIInv, Types, Usage
      <3>2. r \in Usage
        BY <1>1, <3>1 DEF Usage
      <3>3. usage' = [usage EXCEPT ![f] = r]
        BY <3>1 DEF TripCount
      <3> HIDE DEF r
      <3> QED
        BY <3>1, <3>2, <3>3, ZenonT(40) DEF Usage
    <2>2. task' \in [Refs -> Task]
      BY <1>2, <1>4 DEF ReferralIInv, Types
    <2> QED
      BY <1>5, <2>1, <2>2 DEF ReferralIInv, Types, ledgerVars
  <1>11. \A g \in Accounts : N(g) \in Nat /\ N(g)' \in Nat /\ N(g) <= N(g)'
    <2>1. N(f)' \in Nat /\ N(f) <= N(f)'
      BY <1>8
    <2>2. \A g \in Accounts \ {f} : N(g) \in Nat /\ N(g)' \in Nat /\ N(g) <= N(g)'
      BY <1>7, CountNat DEF ReferralIInv
    <2> QED
      BY <1>8, <2>1, <2>2
  <1>12. Later
    BY <1>1, <1>3, <1>4, <1>5, <1>9, <1>11 DEF Later
  <1>13. RegOK' /\ LogsTogether'
    BY <1>5, <1>9 DEF ReferralIInv, RegOK, LogsTogether, LogsThere
  <1>14. CountsOK'
    <2>1. usage'[f].trips <= N(f)'
      BY <1>1, <1>8, <1>9
    <2>2. \A g \in Accounts \ {f} : IsFiniteSet(Counted(g))' /\ usage'[g].trips <= N(g)'
      BY <1>7, <1>9 DEF ReferralIInv, CountsOK
    <2> QED
      BY <1>8, <2>1, <2>2 DEF CountsOK
  <1>15. ReachedOK'
    <2> SUFFICES ASSUME NEW g \in Accounts
                 PROVE  /\ usage'[g].status \in {"completed", "rewarded"} => N(g)' >= Threshold
                        /\ LogsThere(g)' => usage'[g].status # "absent" /\ N(g)' >= Threshold
      BY DEF ReachedOK
    <2>1. LogsThere(g)' => LogsThere(g)
      BY <1>5 DEF LogsThere
    <2>2. N(g) >= Threshold => N(g)' >= Threshold
      BY <1>11, ProgramAssumption
    <2> QED
      BY <1>9, <2>1, <2>2 DEF ReferralIInv, ReachedOK
  <1>16. TaskKnows(t)'
    <2>1. n >= Threshold => N(f)' >= Threshold
      BY <1>1, <1>8, ProgramAssumption
    <2>2. /\ task'[t].referee = f /\ task'[t].counted
          /\ task'[t].pc = "done" \/ (task'[t].pc = "complete" /\ N(f)' >= Threshold)
      BY <1>3, <1>4, <2>1
    <2> QED
      BY <1>1, <1>9, <2>2 DEF TaskKnows, Reached, Paying
  <1>17. TaskPaid(t)'
    BY <1>1, <1>3, <1>4, <1>5, EntriesSame DEF TaskPaid, ledgerVars
  <1> QED
    BY <1>3, <1>5, <1>10, <1>12, <1>13, <1>14, <1>15, <1>16, <1>17, QuietStep DEF ledgerVars

-----------------------------------------------------------------------------
(* The reward is granted *)

\* What holds of a task that is paying.
LEMMA PayingTask ==
  ASSUME ReferralIInv, NEW t \in Refs, task[t].pc \in {"grant", "insert"} \cup Paying
  PROVE  /\ task[t] \in Task /\ task[t].pc \notin {"new", "done"}
         /\ task[t].referee \in Accounts /\ task[t].counted
         /\ usage[task[t].referee].status # "absent"
         /\ usage[task[t].referee].referrer \in Accounts
         /\ usage[task[t].referee].referrer # task[t].referee
         /\ N(task[t].referee) >= Threshold
         /\ task[t].pc \in Paying => LogsThere(task[t].referee)
         /\ TaskPaid(t)
  <1>1. task[t].pc # "new" /\ task[t].pc # "done" /\ task[t].pc \in Reached
    BY DEF Paying, Reached
  <1>2. /\ task[t] \in Task /\ task[t].referee \in Accounts /\ TaskPaid(t)
        /\ usage[task[t].referee].status # "absent"
        /\ usage[task[t].referee].referrer \in Accounts
    BY <1>1, Referee
  <1>3. task[t].counted /\ N(task[t].referee) >= Threshold
        /\ (task[t].pc \in Paying => LogsThere(task[t].referee))
    BY <1>1, Referee DEF TaskKnows
  <1>4. usage[task[t].referee].referrer # task[t].referee
    BY <1>2 DEF ReferralIInv, RegOK
  <1> QED
    BY <1>1, <1>2, <1>3, <1>4

\* A task that goes on paying, or stops, and changes no row.
LEMMA PayMoveStep ==
  ASSUME ReferralIInv, NEW t \in Refs, task[t].pc \in {"grant", "insert"} \cup Paying,
         NEW pc \in {"insert", "done"} \cup Paying, task' = [task EXCEPT ![t].pc = pc],
         UNCHANGED <<ledgerVars, walletRoles, reg, usage, log, expired>>,
         pc \in Paying => LogsThere(task[t].referee),
         TaskPaid(t)'
  PROVE  ReferralIInv'
  <1> PICK f \in Accounts : f = task[t].referee
    BY PayingTask
  <1> DEFINE x == [task[t] EXCEPT !.pc = pc]
  <1>1. /\ x \in Task /\ x.pc = pc /\ x.counted /\ x.referee = f
        /\ task' = [task EXCEPT ![t] = x]
    <2>1. x \in Task /\ x.pc = pc /\ x.counted /\ x.referee = f
      BY PayingTask DEF Task, Reached
    <2> QED
      BY <2>1 DEF ReferralIInv, Types
  <1> HIDE DEF x
  <1>2. task'[t] = x /\ \A s \in Refs \ {t} : task'[s] = task[s]
    BY <1>1 DEF ReferralIInv, Types
  <1>3. N(f)' = N(f)
    BY <1>1, <1>2, CountedSame, PayingTask
  <1>4. TaskKnows(t)'
    BY <1>1, <1>2, <1>3, PayingTask DEF TaskKnows, Reached, Paying, LogsThere
  <1> QED
    BY <1>1, <1>4, MoveStep, PayingTask

\* A task looks for the logs: it goes on to the credits only when both are there.
LEMMA GrantReadInv == ASSUME ReferralIInv, NEW t \in Refs, GrantRead(t) PROVE ReferralIInv'
  <1> DEFINE pc == IF "absent" \in LogsOf(task[t].referee) THEN "insert" ELSE "referrer"
  <1>1. task[t].pc = "grant" /\ \A u \in Accounts : Entries(u, t) = {}
    BY PayingTask DEF GrantRead, TaskPaid
  <1>2. pc \in Paying => LogsThere(task[t].referee)
    BY DEF LogsThere, LogsOf, Paying
  <1>3. /\ task' = [task EXCEPT ![t].pc = pc]
        /\ UNCHANGED <<ledgerVars, walletRoles, reg, usage, log, expired>>
    BY DEF GrantRead
  <1>4. task'[t].pc = pc
    BY <1>1, <1>3, PayingTask DEF ReferralIInv, Types, Task
  <1>5. TaskPaid(t)'
    BY <1>1, <1>3, <1>4, EntriesSame DEF TaskPaid, ledgerVars
  <1> QED
    BY <1>1, <1>2, <1>3, <1>5, PayMoveStep DEF Paying

\* The logs of a usage appear together, and the usage is rewarded.
LEMMA GrantInsertInv == ASSUME ReferralIInv, NEW t \in Refs, GrantInsert(t) PROVE ReferralIInv'
  <1> PICK f \in Accounts : f = task[t].referee
    BY PayingTask DEF GrantInsert
  <1>1. /\ task[t].pc = "insert" /\ task[t].counted /\ usage[f].status # "absent"
        /\ N(f) >= Threshold /\ \A u \in Accounts : Entries(u, t) = {}
    BY PayingTask DEF GrantInsert, TaskPaid
  <1>2. /\ task' = [task EXCEPT ![t].pc = "referrer"]
        /\ usage' = [usage EXCEPT ![f].status = "rewarded"]
        /\ UNCHANGED <<ledgerVars, walletRoles, reg, expired>>
    BY DEF GrantInsert
  <1>3. /\ task'[t].pc = "referrer" /\ task'[t].referee = f /\ task'[t].counted
        /\ usage'[f].status = "rewarded"
    BY <1>1, <1>2, PayingTask DEF ReferralIInv, Types, Task
  <1>4. \A role \in Roles : log[f][role] = "absent"
    BY DEF GrantInsert, LogsOf
  <1>5. \A g \in Accounts, role \in Roles :
           log'[g][role] = IF g = f THEN "pending" ELSE log[g][role]
    BY DEF ReferralIInv, Types, GrantInsert
  <1>6. log' \in [Accounts -> [Roles -> LogStatuses]]
    BY DEF ReferralIInv, Types, LogStatuses, GrantInsert
  <1>7. LogsTogether'
    BY <1>5 DEF ReferralIInv, LogsTogether, LogsThere
  <1>8. N(f)' = N(f)
    <2>1. \A s \in Refs : task'[s].counted = task[s].counted /\ task'[s].referee = task[s].referee
      BY <1>2 DEF ReferralIInv, Types, Task
    <2> QED
      BY <2>1, CountedSame
  <1>9. TaskKnows(t)'
    BY <1>1, <1>3, <1>5, <1>8 DEF TaskKnows, LogsThere, Reached, Paying
  <1>10. TaskPaid(t)'
    BY <1>1, <1>2, <1>3, EntriesSame DEF TaskPaid, ledgerVars
  <1>11. \A g \in Accounts, role \in Roles : log'[g][role] # log[g][role] =>
            g = f /\ log[f][role] = "absent" /\ log'[f][role] = "pending"
    BY <1>4, <1>5
  <1>12. task[t].pc # "new" /\ "rewarded" \in UsageStatuses
    BY <1>1 DEF UsageStatuses
  <1> QED
    BY <1>1, <1>2, <1>6, <1>7, <1>9, <1>10, <1>11, <1>12, UsageStep

\* A reward that is not for the wallet.
LEMMA CreditSkippedInv ==
  ASSUME ReferralIInv, NEW t \in Refs, NEW role \in Roles, CreditSkipped(t, role) PROVE ReferralIInv'
  <1>1. task[t].pc = role /\ task[t].pc \in Paying /\ role \in {"referrer", "referee"}
    BY DEF CreditSkipped, Roles, Paying
  <1>2. /\ NextOf[role] = IF role = "referrer" THEN "referee" ELSE "done"
        /\ NextOf[role] \in {"insert", "done"} \cup Paying
    BY <1>1 DEF NextOf, Paying
  <1>3. /\ task' = [task EXCEPT ![t].pc = NextOf[role]]
        /\ UNCHANGED <<ledgerVars, walletRoles, reg, usage, log, expired>>
    BY DEF CreditSkipped
  <1>4. task'[t].pc = NextOf[role] /\ task'[t].referee = task[t].referee
    BY <1>1, <1>3, PayingTask DEF ReferralIInv, Types, Task
  <1>5. TaskPaid(t)'
    BY <1>1, <1>2, <1>3, <1>4, PayingTask, EntriesSame DEF TaskPaid, ledgerVars
  <1> QED
    BY <1>1, <1>2, <1>3, <1>5, PayMoveStep, PayingTask

\* A log that exists gets the outcome of the credit; "granted" after a credit.
LEMMA LogStep ==
  ASSUME ReferralIInv, NEW t \in Refs, NEW role \in Roles, NEW status \in {"granted", "failed"},
         task[t].pc \in {role, MarkOf[role]}, SetLog(t, role, status),
         status = "granted" => task[t].pc = MarkOf[role]
  PROVE  ReferralIInv'
  <1>1. PICK f \in Accounts : f = task[t].referee /\ task[t].pc \in Paying
    BY PayingTask DEF Roles, MarkOf, Paying
  <1>2. /\ task[t] \in Task /\ task[t].counted /\ usage[f].status # "absent"
        /\ N(f) >= Threshold /\ LogsThere(f)
        /\ usage[f].referrer \in Accounts /\ usage[f].referrer # f /\ TaskPaid(t)
    BY <1>1, PayingTask
  <1>3. /\ role \in {"referrer", "referee"}
        /\ NextOf[role] = IF role = "referrer" THEN "referee" ELSE "done"
        /\ MarkOf[role] = IF role = "referrer" THEN "mark_referrer" ELSE "mark_referee"
    BY DEF Roles, NextOf, MarkOf
  <1> DEFINE x == [task[t] EXCEPT !.pc = NextOf[role]]
  <1>4. /\ x \in Task /\ x.pc = NextOf[role] /\ x.referee = f
        /\ x.counted /\ x.counted = task[t].counted /\ task' = [task EXCEPT ![t] = x]
    <2>1. /\ x \in Task /\ x.pc = NextOf[role] /\ x.referee = f
          /\ x.counted /\ x.counted = task[t].counted
      BY <1>1, <1>2, <1>3 DEF Task, Reached, Paying
    <2> QED
      BY <2>1 DEF ReferralIInv, Types, SetLog
  <1> HIDE DEF x
  <1>5. \A s \in Refs : task'[s] = IF s = t THEN x ELSE task[s]
    BY <1>4 DEF ReferralIInv, Types
  <1>6. /\ log' \in [Accounts -> [Roles -> LogStatuses]]
        /\ \A g \in Accounts, r \in Roles :
              log'[g][r] = IF g = f /\ r = role THEN status ELSE log[g][r]
    BY <1>1 DEF ReferralIInv, Types, LogStatuses, SetLog
  <1>7. UNCHANGED <<ledgerVars, walletRoles, reg, usage, expired>>
    BY DEF SetLog
  <1>8. \A g \in Accounts : Counted(g)' = Counted(g) /\ N(g)' = N(g)
    BY <1>1, <1>2, <1>4, <1>5, CountedSame
  <1>9. \A g \in Accounts : LogsThere(g)' <=> LogsThere(g)
    BY <1>2, <1>6 DEF LogsThere
  <1>10. Types'
    BY <1>4, <1>6, <1>7 DEF ReferralIInv, Types, ledgerVars
  <1>11. Later
    <2>1. \A g \in Accounts : N(g) \in Nat /\ N(g)' \in Nat /\ N(g) <= N(g)'
      BY <1>8, CountNat DEF ReferralIInv
    <2> QED
      BY <1>1, <1>2, <1>4, <1>5, <1>6, <1>7, <2>1 DEF Later
  <1>12. RegOK' /\ CountsOK' /\ ReachedOK'
    BY <1>7, <1>8, <1>9 DEF ReferralIInv, RegOK, CountsOK, ReachedOK
  <1>13. LogsTogether'
    BY <1>2, <1>6, <1>9 DEF ReferralIInv, LogsTogether
  <1>14. TaskKnows(t)'
    BY <1>2, <1>3, <1>4, <1>5, <1>7, <1>8, <1>9 DEF TaskKnows, Reached, Paying
  <1>15. \A u \in Accounts : Entries(u, t)' = Entries(u, t)
    BY <1>7, EntriesSame DEF ledgerVars
  <1>16. TaskPaid(t)'
    BY <1>1, <1>2, <1>3, <1>4, <1>5, <1>7, <1>15 DEF TaskPaid
  <1>17. ASSUME NEW g \in Accounts, NEW r \in Roles, log'[g][r] = "granted", log[g][r] # "granted"
         PROVE  log[g][r] # "absent" /\ \E s \in Counted(g) : Entries(Recipient(g, r), s) # {}
    <2>1. g = f /\ r = role /\ task[t].pc = MarkOf[role] /\ log[g][r] # "absent"
      BY <1>2, <1>6, <1>17 DEF LogsThere
    <2>2. t \in Counted(f)
      BY <1>1, <1>2 DEF Counted
    <2>3. Entries(Recipient(f, role), t) # {}
      BY <1>1, <1>2, <1>3, <2>1 DEF TaskPaid, Recipient
    <2> QED
      BY <2>1, <2>2, <2>3
  <1> QED
    BY <1>5, <1>7, <1>10, <1>11, <1>12, <1>13, <1>14, <1>16, <1>17, QuietStep DEF ledgerVars

\* The log of a credit that failed.
LEMMA CreditFailsInv ==
  ASSUME ReferralIInv, NEW t \in Refs, NEW role \in Roles, CreditFails(t, role) PROVE ReferralIInv'
  BY LogStep DEF CreditFails

\* The log after a credit.
LEMMA MarkLogInv ==
  ASSUME ReferralIInv, NEW t \in Refs, NEW role \in Roles, MarkLog(t, role) PROVE ReferralIInv'
  BY LogStep DEF MarkLog

\* What is in a list that has one element more.
LEMMA Appended ==
  ASSUME NEW S, NEW s \in Seq(S), NEW e \in S
  PROVE  /\ Append(s, e) \in Seq(S) /\ Len(s) \in Nat /\ Len(Append(s, e)) = Len(s) + 1
         /\ Append(s, e)[Len(s) + 1] = e
         /\ \A i \in 1..Len(s) : Append(s, e)[i] = s[i]
  OBVIOUS

\* A credit is a line of its own: the task had written none for this account.
LEMMA CreditWalletInv ==
  ASSUME ReferralIInv, NEW t \in Refs, NEW role \in Roles, CreditWallet(t, role) PROVE ReferralIInv'
  <1>1. PICK f \in Accounts : f = task[t].referee /\ task[t].pc \in Paying
    BY PayingTask DEF CreditWallet, Roles, Paying
  <1>2. /\ task[t] \in Task /\ task[t].counted /\ usage[f].status # "absent"
        /\ N(f) >= Threshold /\ LogsThere(f)
        /\ usage[f].referrer \in Accounts /\ usage[f].referrer # f /\ TaskPaid(t)
    BY <1>1, PayingTask
  <1>3. /\ role \in {"referrer", "referee"} /\ task[t].pc = role
        /\ MarkOf[role] = IF role = "referrer" THEN "mark_referrer" ELSE "mark_referee"
    BY DEF Roles, MarkOf, CreditWallet
  <1> DEFINE x == [task[t] EXCEPT !.pc = MarkOf[role]]
             u == Recipient(f, role)
  <1>4. /\ x \in Task /\ x.pc = MarkOf[role] /\ x.referee = f
        /\ x.counted /\ x.counted = task[t].counted /\ task' = [task EXCEPT ![t] = x]
    <2>1. /\ x \in Task /\ x.pc = MarkOf[role] /\ x.referee = f
          /\ x.counted /\ x.counted = task[t].counted
      BY <1>1, <1>2, <1>3 DEF Task, Reached, Paying
    <2> QED
      BY <2>1 DEF ReferralIInv, Types, CreditWallet
  <1> HIDE DEF x
  <1>5. \A s \in Refs : task'[s] = IF s = t THEN x ELSE task[s]
    BY <1>4 DEF ReferralIInv, Types
  <1>6. UNCHANGED <<active, walletRoles, reg, usage, log, expired>>
    BY DEF CreditWallet, Credit
  <1>7. PICK v \in Accounts : v = u /\ v = (IF role = "referrer" THEN usage[f].referrer ELSE f)
    BY <1>2 DEF Recipient
  <1>8. Entries(v, t) = {}
    BY <1>1, <1>2, <1>3, <1>7 DEF TaskPaid
  <1> DEFINE line == [amount |-> Bonus, ref |-> t]
  <1>9. /\ balance' = [balance EXCEPT ![v] = @ + Bonus]
        /\ history' = [history EXCEPT ![v] = Append(@, line)]
    BY <1>1, <1>7 DEF CreditWallet, Credit
  <1>10. line \in Entry /\ history[v] \in Seq(Entry) /\ Bonus \in Nat
    BY ProgramAssumption, AmountsAssumption DEF Entry, ReferralIInv, Types
  <1>line. line.ref = t
    OBVIOUS
  <1> HIDE DEF line
  <1>11. history' \in [Accounts -> Seq(Entry)] /\ balance' \in [Accounts -> Nat]
    BY <1>9, <1>10 DEF ReferralIInv, Types
  <1>12. \A w \in Accounts : history'[w] = IF w = v THEN Append(history[v], line) ELSE history[w]
    BY <1>9 DEF ReferralIInv, Types
  <1>13. /\ Len(history[v]) \in Nat /\ Len(history'[v]) = Len(history[v]) + 1
         /\ history'[v][Len(history[v]) + 1].ref = t
         /\ \A i \in 1..Len(history[v]) : history'[v][i] = history[v][i]
    <2>1. history'[v] = Append(history[v], line)
      BY <1>12
    <2>2. /\ Len(history[v]) \in Nat /\ Len(Append(history[v], line)) = Len(history[v]) + 1
          /\ Append(history[v], line)[Len(history[v]) + 1] = line
          /\ \A i \in 1..Len(history[v]) : Append(history[v], line)[i] = history[v][i]
      BY <1>10, Appended
    <2> QED
      BY <1>line, <2>1, <2>2
  <1>14. Entries(v, t)' = {Len(history[v]) + 1}
    <2>1. \A i \in 1..Len(history[v]) : history'[v][i].ref # t
      BY <1>8, <1>13 DEF Entries
    <2> QED
      BY <1>13, <2>1 DEF Entries
  <1>others. \A w \in Accounts, s \in Refs : w # v \/ s # t => Entries(w, s)' = Entries(w, s)
    <2> SUFFICES ASSUME NEW w \in Accounts, NEW s \in Refs, w # v \/ s # t
                 PROVE  Entries(w, s)' = Entries(w, s)
      OBVIOUS
    <2>1. CASE w # v
      BY <1>12, <2>1 DEF Entries
    <2>2. CASE w = v /\ s # t
      <3> PICK n : n = Len(history[v])
        OBVIOUS
      <3>1. n \in Nat /\ \A i \in 1..(n + 1) : i \in 1..n \/ i = n + 1
        BY <1>13
      <3>2. \A i \in 1..n : i \in 1..(n + 1)
        BY <3>1
      <3>3. /\ Len(history'[v]) = n + 1 /\ history'[v][n + 1].ref # s
            /\ \A i \in 1..n : history'[v][i].ref = history[v][i].ref
        BY <1>13, <2>2
      <3> QED
        BY <2>2, <3>1, <3>2, <3>3 DEF Entries
    <2> QED
      BY <2>1, <2>2
  <1>15. \A g \in Accounts : Counted(g)' = Counted(g) /\ N(g)' = N(g)
    BY <1>1, <1>4, <1>5, CountedSame
  <1>16. \A g \in Accounts : LogsThere(g)' <=> LogsThere(g)
    BY <1>6 DEF LogsThere
  <1>17. Types'
    BY <1>4, <1>6, <1>11 DEF ReferralIInv, Types
  <1>18. Later
    <2>1. \A g \in Accounts : N(g) \in Nat /\ N(g)' \in Nat /\ N(g) <= N(g)'
      BY <1>15, CountNat DEF ReferralIInv
    <2> QED
      BY <1>1, <1>4, <1>5, <1>6, <2>1 DEF Later
  <1>19. RegOK' /\ CountsOK' /\ ReachedOK' /\ LogsTogether'
    BY <1>6, <1>15, <1>16 DEF ReferralIInv, RegOK, CountsOK, ReachedOK, LogsTogether
  <1>20. TasksOK'
    <2> SUFFICES ASSUME NEW s \in Refs PROVE TaskKnows(s)' /\ TaskPaid(s)'
      BY DEF TasksOK
    <2>1. CASE s # t
      BY <1>5, <1>others, <1>18, <2>1, TaskStable DEF ReferralIInv, TasksOK
    <2>2. TaskKnows(t)'
      BY <1>2, <1>3, <1>4, <1>5, <1>6, <1>15, <1>16 DEF TaskKnows, Reached, Paying
    <2>3. TaskPaid(t)'
      <3>1. Entries(v, t)' # {} /\ \A w \in Accounts : w # v => Entries(w, t)' = Entries(w, t)
        BY <1>14, <1>others
      <3>2. task'[t].referee = f /\ task'[t].pc = MarkOf[role]
        BY <1>4, <1>5
      <3>3. CASE role = "referrer"
        <4>1. v = usage'[f].referrer /\ task'[t].pc = "mark_referrer"
          BY <1>3, <1>6, <1>7, <3>2, <3>3
        <4>2. \A w \in Accounts : w # v => Entries(w, t)' = {}
          BY <1>2, <1>3, <3>1, <3>3 DEF TaskPaid
        <4> QED
          BY <3>1, <3>2, <4>1, <4>2 DEF TaskPaid
      <3>4. CASE role = "referee"
        <4>1. v = f /\ task'[t].pc = "mark_referee"
          BY <1>3, <1>7, <3>2, <3>4
        <4> QED
          BY <3>1, <3>2, <4>1 DEF TaskPaid
      <3> QED
        BY <1>3, <3>3, <3>4
    <2> QED
      BY <2>1, <2>2, <2>3
  <1>21. \A g \in Accounts, r \in Roles : Recipient(g, r)' = Recipient(g, r)
    BY <1>6 DEF Recipient
  <1>22. \A s \in Refs : task'[s].referee = task[s].referee /\ task'[s].counted = task[s].counted
    BY <1>1, <1>4, <1>5
  <1>23. CreditHasLog'
    <2> SUFFICES ASSUME NEW w \in Accounts, NEW s \in Refs, Entries(w, s)' # {}
                 PROVE  \E g \in Accounts, r \in Roles :
                           /\ task'[s].referee = g /\ task'[s].counted
                           /\ Recipient(g, r)' = w
                           /\ log'[g][r] # "absent"
      BY DEF CreditHasLog
    <2>1. CASE w = v /\ s = t
      <3>1. task'[s].referee = f /\ task'[s].counted /\ log'[f][role] # "absent"
        BY <1>1, <1>2, <1>4, <1>5, <1>6, <2>1 DEF LogsThere
      <3>2. Recipient(f, role)' = w
        BY <1>7, <1>21, <2>1
      <3> QED
        BY <3>1, <3>2
    <2>2. CASE ~(w = v /\ s = t)
      BY <1>6, <1>others, <1>21, <1>22, <2>2 DEF ReferralIInv, CreditHasLog
    <2> QED
      BY <2>1, <2>2
  <1>24. GrantedHasCredit'
    <2> SUFFICES ASSUME NEW g \in Accounts, NEW r \in Roles, log'[g][r] = "granted"
                 PROVE  \E s \in Counted(g)' : Entries(Recipient(g, r), s)' # {}
      BY DEF GrantedHasCredit
    <2>1. PICK s \in Counted(g) : Entries(Recipient(g, r), s) # {}
      BY <1>6 DEF ReferralIInv, GrantedHasCredit
    <2>2. PICK w \in Accounts : w = Recipient(g, r) /\ w = Recipient(g, r)'
      BY <1>21 DEF Recipient, ReferralIInv, Types
    <2>3. Entries(w, s)' # {}
      BY <1>14, <1>others, <2>1, <2>2 DEF Counted
    <2> QED
      BY <1>15, <2>2, <2>3
  <1>25. OneEntry'
    <2> SUFFICES ASSUME NEW w \in Accounts, NEW s \in Refs PROVE \A i, j \in Entries(w, s)' : i = j
      BY DEF OneEntry
    <2>1. CASE w = v /\ s = t
      BY <1>14, <2>1
    <2>2. CASE ~(w = v /\ s = t)
      BY <1>others, <2>2 DEF ReferralIInv, OneEntry
    <2> QED
      BY <2>1, <2>2
  <1> QED
    BY <1>17, <1>19, <1>20, <1>23, <1>24, <1>25 DEF ReferralIInv

-----------------------------------------------------------------------------
(* The theorems *)

\* Every step keeps the invariant.
LEMMA ReferralStepInv == ReferralIInv /\ [ReferralNext]_allVars => ReferralIInv'
  <1> SUFFICES ASSUME ReferralIInv, [ReferralNext]_allVars PROVE ReferralIInv'
    OBVIOUS
  <1>1. CASE UNCHANGED allVars
    <2>1. UNCHANGED <<active, balance, history, walletRoles, reg, usage, log, expired, task>>
      BY <1>1 DEF allVars, ledgerVars, referralVars
    <2>2. \A f \in Accounts : Counted(f)' = Counted(f) /\ N(f)' = N(f)
      BY <2>1, CountedSame
    <2>3. Types' /\ RegOK' /\ LogsTogether'
      BY <2>1 DEF ReferralIInv, Types, RegOK, LogsTogether, LogsThere
    <2>4. CountsOK' /\ ReachedOK'
      BY <2>1, <2>2 DEF ReferralIInv, CountsOK, ReachedOK, LogsThere
    <2>5. Later
      BY <2>1, <2>2, CountNat, SMTT(30) DEF ReferralIInv, Later
    <2> QED
      BY <2>1, <2>3, <2>4, <2>5, QuietStep
  <1>2. ASSUME NEW f \in Accounts, Registration(f) PROVE ReferralIInv'
    BY <1>2, RegisterCheckInv, RegisterSaveInv, RegisterEndInv DEF Registration
  <1>3. ASSUME NEW t \in Refs, Trip(t) PROVE ReferralIInv'
    <2>1. CASE \E f \in Accounts : TripRead(t, f)
      BY <2>1, TripReadInv
    <2>2. CASE TripExpire(t) \/ TripCount(t) \/ TripComplete(t)
      BY <2>2, TripExpireInv, TripCountInv, TripCompleteInv
    <2>3. CASE GrantRead(t) \/ GrantInsert(t) \/ GrantConflict(t) \/ TripAbort(t)
      BY <2>3, GrantReadInv, GrantInsertInv, GrantConflictInv, TripAbortInv
    <2>4. ASSUME NEW role \in Roles,
                 CreditSkipped(t, role) \/ CreditWallet(t, role) \/ CreditFails(t, role)
                     \/ MarkLog(t, role)
          PROVE  ReferralIInv'
      BY <2>4, CreditSkippedInv, CreditWalletInv, CreditFailsInv, MarkLogInv
    <2> QED
      BY <1>3, <2>1, <2>2, <2>3, <2>4 DEF Trip
  <1> QED
    BY <1>1, <1>2, <1>3, ExpireInv DEF ReferralNext

\* The invariant holds in every reachable state.
LEMMA ReferralInvariance == ReferralSpec => []ReferralIInv
  BY ReferralInitInv, ReferralStepInv, PTL DEF ReferralSpec

\* The invariant implies the parts of the reward trail.
LEMMA Consequences == ReferralIInv => ReferralTypeOK /\ RewardTrail
  <1> SUFFICES ASSUME ReferralIInv PROVE ReferralTypeOK /\ RewardTrail
    OBVIOUS
  <1>1. \A f \in Accounts : "absent" \in LogsOf(f) => LogsOf(f) = {"absent"}
    BY DEF ReferralIInv, LogsTogether, LogsThere, LogsOf, Roles
  <1>2. ReferralTypeOK
    BY <1>1 DEF ReferralIInv, Types, ReferralTypeOK
  <1>3. NoEarlyReward
    <2> SUFFICES ASSUME NEW f \in Accounts,
                        usage[f].status \in {"completed", "rewarded"} \/ LogsOf(f) # {"absent"}
                 PROVE  N(f) >= Threshold
      BY DEF NoEarlyReward, N
    <2>1. LogsOf(f) # {"absent"} => LogsThere(f)
      BY <1>1 DEF LogsThere, LogsOf
    <2> QED
      BY <2>1 DEF ReferralIInv, ReachedOK
  <1>4. OneCreditPerTask
    <2> SUFFICES ASSUME NEW u \in Accounts, NEW t \in Refs PROVE Cardinality(Entries(u, t)) <= 1
      BY DEF OneCreditPerTask
    <2>1. CASE Entries(u, t) = {}
      BY <2>1, FS_EmptySet
    <2>2. CASE Entries(u, t) # {}
      <3>1. PICK i : i \in Entries(u, t)
        BY <2>2
      <3>2. Entries(u, t) = {i}
        <4>1. \A j \in Entries(u, t) : j = i
          BY <3>1 DEF ReferralIInv, OneEntry
        <4> QED
          BY <3>1, <4>1
      <3> QED
        <4>1. Cardinality({i}) = 1
          BY FS_Singleton
        <4> QED
          BY <3>2, <4>1
    <2> QED
      BY <2>1, <2>2
  <1> QED
    BY <1>2, <1>3, <1>4 DEF ReferralIInv, RewardTrail

\* The variables have their types and the two logs of a usage exist together.
THEOREM ReferralTypeCorrect == ReferralSpec => []ReferralTypeOK
  BY ReferralInvariance, Consequences, PTL

\* Nobody is rewarded before as many announcements as the threshold are counted, every
\* bonus has its log and every granted log its bonus, and no announcement pays an
\* account twice, whatever overlaps, throws or dies.  A trip announced twice may: see
\* RewardedOnce and MinimumOfTrips, which are refuted.
THEOREM RewardTrailTheorem == ReferralSpec => []RewardTrail
  BY ReferralInvariance, Consequences, PTL
=============================================================================
