----------------------------- MODULE AuthProof -----------------------------
(***************************************************************************)
(* Proofs about Auth for every set of users, administrators and requests,  *)
(* every limit and number of attempts, and any number of tokens, codes,    *)
(* requests and failures: typing, the single use of a refresh token, the   *)
(* end of the sessions at a reset, the code that is kept for a phone, and  *)
(* the expiry of the counters.                                             *)
(***************************************************************************)
EXTENDS Auth, TLAPS

\* What a request knows by the place it is at.
Knows(w) ==
    /\ w.pc # "idle" => w.user \in Users
    /\ w.pc = "answer" => w.otp \in Otp
    /\ w.pc \in {"count", "expire", "check", "insert", "block"} => w.op \in Guarded
    /\ w.pc \in {"save", "spend"} => w.link \in Codes
    /\ w.pc = "save" => w.op = "resetPassword" /\ w.row.status # "absent"
    /\ w.pc \in {"add", "delete", "remove"} => w.token \in Tokens
    /\ w.token # None => w.pc \in {"add", "delete", "remove"} \/ (w.pc = "set" /\ w.op = "refresh")

Types == TypeOK /\ \A h \in Handlers : Knows(work[h])

\* Who has a session, a link or a password in work has a row.
NeedsRow(w) == w.pc \in {"activate", "set", "delete", "remove", "save"}
Exists(u) == u \in Users /\ users[u].status # "absent"

PresentOK ==
    /\ \A t \in Tokens : token[t].state = "live" => Exists(token[t].user)
    /\ \A k \in Codes : link[k].state = "live" => Exists(link[k].user)
    /\ \A h \in Handlers : NeedsRow(work[h]) => Exists(work[h].user)

\* A request that carries a password into a session, and one that resets a password
\* and has still to end the sessions.
Carries(w) == w.pc \in {"activate", "set", "delete", "remove"}
Resetting(w, u) == w.op = "resetPassword" /\ w.user = u /\ w.pc \in {"spend", "list", "purge"}
InReset(u) == \E h \in Handlers : Resetting(work[h], u)

\* An old password is in a session, or on its way to one, only while the reset that
\* replaced it is in progress, or in one that a revocation has met.
SessionFresh(t) ==
    token[t].state = "live" /\ token[t].password # users[token[t].user].password =>
        t \in past.raced \/ InReset(token[t].user)
RequestFresh(h) ==
    Carries(work[h]) /\ work[h].password # users[work[h].user].password =>
        work[h].raced \/ work[h].token \in past.raced \/ InReset(work[h].user)
PasswordsOK == (\A t \in Tokens : SessionFresh(t)) /\ (\A h \in Handlers : RequestFresh(h))

\* A request that may still exchange the refresh token t.
Holding(w, t) == w.token = t /\ (w.pc = "delete" \/ (w.op = "refresh" /\ w.pc \in {"remove", "set"}))

\* A token that was not shared has one holder, which has deleted it once it is past
\* "delete"; once it is exchanged nobody holds it, and it is not live any more.
OneHolder(t) ==
    /\ \A g, h \in Handlers : Holding(work[g], t) /\ Holding(work[h], t) => g = h
    /\ \A h \in Handlers : Holding(work[h], t) /\ token[t].state = "live" => work[h].pc = "delete"
    /\ \A r \in Tokens : token[r].parent = t =>
          token[t].state # "live" /\ \A h \in Handlers : ~Holding(work[h], t)
    /\ \A r, s \in Tokens : token[r].parent = t /\ token[s].parent = t => r = s

TokensOK ==
    /\ \A h \in Handlers : work[h].token \in Tokens => token[work[h].token].state # "unused"
    /\ \A r \in Tokens : token[r].parent \in Tokens => token[token[r].parent].state # "unused"
    /\ \A t \in Tokens \ past.shared : OneHolder(t)

\* The code a request has read, to be written back.
Pair(w) == <<w.user, w.otp.code>>

\* A code that is not mixed is held by one request, which knows what is to be known.
HeldOK(h) ==
    work[h].pc = "answer" =>
        /\ work[h].otp.code <= past.sent[work[h].user]
        /\ Pair(work[h]) \notin past.mixed =>
              /\ work[h].otp = [code |-> past.sent[work[h].user], attempts |-> past.wrong[work[h].user]]
              /\ Pair(work[h]) \notin past.used
              /\ \A g \in Handlers : work[g].pc = "answer" /\ Pair(work[g]) = Pair(work[h]) => g = h

CodesOK ==
    /\ \A u \in Users : otp[u] # NoOtp => otp[u].code <= past.sent[u]
    /\ \A u \in Users, c \in Codes : <<u, c>> \in past.used => c <= past.sent[u]
    /\ \A h \in Handlers : HeldOK(h)
    /\ CodeKeptUnlessMixed

IInv == Types /\ PresentOK /\ PasswordsOK /\ TokensOK /\ CodesOK /\ CounterExpires

-----------------------------------------------------------------------------
(* What is typed *)

\* Codes and tokens are numbers, and None is not one of them.
LEMMA Numbers == /\ Tokens \subseteq Nat /\ Codes \subseteq Nat /\ None \notin Tokens /\ None \notin Codes
                 /\ MaxTokens \in Nat /\ MaxCodes \in Nat /\ MaxAttempts \in Nat
                 /\ MaxRequests \in Nat /\ MaxFaults \in Nat
  <1>1. \A n \in {MaxAttempts, MaxTokens, MaxCodes, MaxRequests, MaxFaults} : n \in Nat
    BY AuthAssumption DEF AuthAssumption
  <1> QED
    BY <1>1, AuthAssumption DEF Tokens, Codes

\* A request at rest is typed, knows nothing and takes part in nothing.
LEMMA IdleOK ==
  /\ Idle \in Local /\ Knows(Idle) /\ ~NeedsRow(Idle) /\ ~Carries(Idle)
  /\ Idle.pc = "idle" /\ Idle.op = "none" /\ Idle.token = None
  /\ \A u : ~Resetting(Idle, u)
  /\ \A t : ~Holding(Idle, t)
  <1>1. Idle \in Local
    BY DEF Idle, Local, Pcs, Row, Counters, NoRow, UserStatus, NoOtp
  <1>2. /\ Idle.pc = "idle" /\ Idle.op = "none" /\ Idle.token = None
    BY DEF Idle
  <1> QED
    BY <1>1, <1>2 DEF Knows, NeedsRow, Carries, Resetting, Holding

\* The two records of a code are apart.
LEMMA OtpApart == NoOtp \notin Otp
  <1>1. NoOtp.code = None
    BY DEF NoOtp
  <1> QED
    BY <1>1, Numbers DEF Otp

\* Where an operation begins, and what follows a counter, is a place of Local.
LEMMA Places ==
  ASSUME NEW w \in Local, w.op \in Guarded, Knows(w), w.pc \in {"count", "expire"}
  PROVE  /\ Passed(w) \in Local /\ Knows(Passed(w))
         /\ Passed(w).pc \in {"count", "check", "credentials", "block", "store"}
         /\ Passed(w).op = w.op /\ Passed(w).user = w.user /\ Passed(w).token = w.token
  <1>1. w.token = None /\ w.user \in Users
    BY DEF Knows
  <1>2. CASE w.counter = "ip"
    <2> DEFINE x == [w EXCEPT !.pc = "count", !.counter = "id"]
    <2>1. "count" \in Pcs /\ "id" \in Counters
      BY DEF Pcs, Counters
    <2>2. x \in Local
      BY <2>1 DEF Local
    <2>3. x.pc = "count" /\ x.op = w.op /\ x.user = w.user /\ x.token = w.token
      BY DEF Local
    <2>4. Passed(w) = x
      BY <1>2 DEF Passed
    <2> HIDE DEF x
    <2> QED
      BY <1>1, <2>2, <2>3, <2>4 DEF Knows
  <1>3. CASE w.counter = "id"
    <2>1. Passed(w) = [w EXCEPT !.pc = Start(w.op)]
      BY <1>3 DEF Passed
    <2>2. Start(w.op) \in {"check", "credentials", "block"}
      BY DEF Start, Guarded
    <2> QED
      BY <1>1, <2>1, <2>2 DEF Local, Pcs, Row, Knows
  <1>4. CASE w.counter = "rate"
    <2>1. Passed(w) = [w EXCEPT !.pc = "store"]
      BY <1>4 DEF Passed
    <2> QED
      BY <1>1, <2>1 DEF Local, Pcs, Row, Knows
  <1> QED
    BY <1>2, <1>3, <1>4 DEF Local, Pcs, Row, Counters

-----------------------------------------------------------------------------
(* The parts of the invariant under steps that do not concern them *)

\* The rows stay.
RowsStay == \A u : Exists(u) => Exists(u)'

\* PresentOK is kept when what is new and alive belongs to a row.
LEMMA PresentFrame ==
  ASSUME PresentOK, RowsStay,
         \A t \in Tokens : token'[t].state = "live" =>
            (token[t].state = "live" /\ token'[t].user = token[t].user) \/ Exists(token'[t].user),
         \A k \in Codes : link'[k].state = "live" =>
            (link[k].state = "live" /\ link'[k].user = link[k].user) \/ Exists(link'[k].user),
         \A h \in Handlers : NeedsRow(work'[h]) =>
            (NeedsRow(work[h]) /\ work'[h].user = work[h].user) \/ Exists(work'[h].user)
  PROVE  PresentOK'
  <1>1. ASSUME NEW t \in Tokens, token'[t].state = "live" PROVE Exists(token[t].user)'
    BY <1>1 DEF PresentOK, RowsStay, Exists
  <1>2. ASSUME NEW k \in Codes, link'[k].state = "live" PROVE Exists(link[k].user)'
    BY <1>2 DEF PresentOK, RowsStay, Exists
  <1>3. ASSUME NEW h \in Handlers, NeedsRow(work'[h]) PROVE Exists(work[h].user)'
    BY <1>3 DEF PresentOK, RowsStay, Exists
  <1> QED
    BY <1>1, <1>2, <1>3 DEF PresentOK

\* PasswordsOK is kept when passwords stay, no reset ends, and a session or a request
\* that is new carries the password of now.
LEMMA PasswordsFrame ==
  ASSUME PasswordsOK,
         \A t \in Tokens : token'[t].state = "live" =>
            /\ token[t].state = "live" /\ token'[t].user = token[t].user
            /\ token'[t].password = token[t].password
            /\ users'[token[t].user].password = users[token[t].user].password,
         past.raced \subseteq past'.raced,
         \A h \in Handlers : \A u : Resetting(work[h], u) => Resetting(work'[h], u),
         \A h \in Handlers : Carries(work'[h]) =>
            \/ work'[h].password = users'[work'[h].user].password
            \/ /\ Carries(work[h]) /\ work'[h].password = work[h].password
               /\ work'[h].user = work[h].user /\ work'[h].token = work[h].token
               /\ work[h].raced => work'[h].raced
               /\ users'[work[h].user].password = users[work[h].user].password
  PROVE  PasswordsOK'
  <1>1. \A u : InReset(u) => InReset(u)'
    BY DEF InReset
  <1>2. ASSUME NEW t \in Tokens PROVE SessionFresh(t)'
    BY <1>1 DEF PasswordsOK, SessionFresh, InReset
  <1>3. ASSUME NEW h \in Handlers PROVE RequestFresh(h)'
    BY <1>1 DEF PasswordsOK, RequestFresh, InReset
  <1> QED
    BY <1>2, <1>3 DEF PasswordsOK

\* TokensOK is kept when no token is read or issued, and a request that passes
\* "delete" leaves its token deleted or shared.
LEMMA TokensFrame ==
  ASSUME TokensOK,
         \A t \in Tokens : /\ token'[t].parent = token[t].parent
                           /\ token'[t].state = "live" => token[t].state = "live"
                           /\ token[t].state # "unused" => token'[t].state # "unused",
         past.shared \subseteq past'.shared,
         \A h \in Handlers : work'[h].token \in Tokens => work'[h].token = work[h].token,
         \A h \in Handlers, t \in Tokens : Holding(work'[h], t) =>
            /\ Holding(work[h], t)
            /\ \/ work[h].pc = "delete" => work'[h].pc = "delete"
               \/ token'[t].state # "live"
               \/ t \in past'.shared
  PROVE  TokensOK'
  <1>1. \A h \in Handlers : work'[h].token \in Tokens => token'[work'[h].token].state # "unused"
    BY DEF TokensOK
  <1>2. \A r \in Tokens : token'[r].parent \in Tokens => token'[token'[r].parent].state # "unused"
    BY DEF TokensOK
  <1>3. ASSUME NEW t \in Tokens \ past'.shared PROVE OneHolder(t)'
    <2>1. OneHolder(t)
      BY DEF TokensOK
    <2>2. \A g, h \in Handlers : Holding(work'[g], t) /\ Holding(work'[h], t) => g = h
      BY <2>1 DEF OneHolder
    <2>3. \A h \in Handlers : Holding(work'[h], t) /\ token'[t].state = "live" => work'[h].pc = "delete"
      BY <2>1 DEF OneHolder
    <2>4. \A r \in Tokens : token'[r].parent = t =>
             token'[t].state # "live" /\ \A h \in Handlers : ~Holding(work'[h], t)
      BY <2>1 DEF OneHolder
    <2>5. \A r, s \in Tokens : token'[r].parent = t /\ token'[s].parent = t => r = s
      BY <2>1 DEF OneHolder
    <2> QED
      BY <2>2, <2>3, <2>4, <2>5 DEF OneHolder
  <1> QED
    BY <1>1, <1>2, <1>3 DEF TokensOK

\* CodesOK is kept when no code is sent, read, written or accepted.
LEMMA CodesFrame ==
  ASSUME CodesOK, \A u \in Users : otp'[u] = otp[u] \/ otp'[u] = NoOtp,
         past'.sent = past.sent, past'.wrong = past.wrong, past'.used = past.used,
         past'.mixed = past.mixed,
         \A h \in Handlers : work'[h].pc = "answer" =>
            work[h].pc = "answer" /\ work'[h].user = work[h].user /\ work'[h].otp = work[h].otp
  PROVE  CodesOK'
  <1>1. \A u \in Users : otp'[u] # NoOtp => otp'[u].code <= past'.sent[u]
    BY DEF CodesOK
  <1>2. \A u \in Users, c \in Codes : <<u, c>> \in past'.used => c <= past'.sent[u]
    BY DEF CodesOK
  <1>3. ASSUME NEW h \in Handlers PROVE HeldOK(h)'
    BY DEF CodesOK, HeldOK, Pair
  <1>4. CodeKeptUnlessMixed'
    BY DEF CodesOK, CodeKeptUnlessMixed
  <1> QED
    BY <1>1, <1>2, <1>3, <1>4 DEF CodesOK

\* CounterExpires is kept when the counters are, and no request leaves "expire".
LEMMA CountersFrame ==
  ASSUME CounterExpires, limit' = limit, past'.stuck = past.stuck,
         \A h \in Handlers : work[h].pc = "expire" =>
            /\ work'[h].pc = "expire" /\ work'[h].user = work[h].user
            /\ work'[h].counter = work[h].counter
  PROVE  CounterExpires'
  BY DEF CounterExpires, At

-----------------------------------------------------------------------------
(* A request that moves on *)

\* The requests after a step of one of them.
LEMMA OneMoves ==
  ASSUME Types, NEW h \in Handlers, NEW w \in Local, Knows(w), work' = [work EXCEPT ![h] = w]
  PROVE  /\ work' \in [Handlers -> Local] /\ work'[h] = w
         /\ \A g \in Handlers : g # h => work'[g] = work[g]
         /\ \A g \in Handlers : Knows(work'[g])
  BY DEF Types, TypeOK

\* The counters when a request that is not at "expire" moves.
LEMMA CountersMove ==
  ASSUME IInv, NEW h \in Handlers, NEW w \in Local, Knows(w), work' = [work EXCEPT ![h] = w],
         work[h].pc # "expire", limit' = limit, past' = past
  PROVE  CounterExpires'
  BY OneMoves, CountersFrame DEF IInv

\* The part that a step of a request without a new session, code or token has.
LEMMA MoveStep ==
  ASSUME IInv, NEW h \in Handlers, NEW w \in Local, Knows(w), work' = [work EXCEPT ![h] = w],
         UNCHANGED <<users, otp, token, past>>,
         blocked' \in [Users -> BOOLEAN], limit' \in [Users -> [Counters -> Counter]],
         locked' \in [Users -> [Counters -> BOOLEAN]], index' \in [Users -> SUBSET Tokens],
         link' \in [Codes -> Link],
         \A k \in Codes : link'[k].state = "live" =>
            (link[k].state = "live" /\ link'[k].user = link[k].user) \/ Exists(link'[k].user),
         NeedsRow(w) => (NeedsRow(work[h]) /\ w.user = work[h].user) \/ Exists(w.user),
         \A u : Resetting(work[h], u) => Resetting(w, u),
         Carries(w) =>
            \/ w.password = users[w.user].password
            \/ /\ Carries(work[h]) /\ w.password = work[h].password /\ w.user = work[h].user
               /\ w.token = work[h].token /\ w.raced = work[h].raced,
         w.token \in Tokens => w.token = work[h].token,
         \A t \in Tokens : Holding(w, t) =>
            Holding(work[h], t) /\ (work[h].pc = "delete" => w.pc = "delete"),
         w.pc # "answer",
         CounterExpires'
  PROVE  IInv'
  <1>1. /\ work' \in [Handlers -> Local] /\ work'[h] = w
        /\ \A g \in Handlers : g # h => work'[g] = work[g]
        /\ \A g \in Handlers : Knows(work'[g])
    BY OneMoves DEF IInv
  <1>2. Types'
    BY <1>1 DEF IInv, Types, TypeOK
  <1>3. PresentOK'
    <2>1. RowsStay
      BY DEF RowsStay, Exists
    <2>2. \A g \in Handlers : NeedsRow(work'[g]) =>
             (NeedsRow(work[g]) /\ work'[g].user = work[g].user) \/ Exists(work'[g].user)
      BY <1>1
    <2> QED
      BY <2>1, <2>2, PresentFrame DEF IInv
  <1>4. PasswordsOK'
    <2>1. \A g \in Handlers : \A u : Resetting(work[g], u) => Resetting(work'[g], u)
      BY <1>1
    <2>2. \A g \in Handlers : Carries(work'[g]) =>
            \/ work'[g].password = users'[work'[g].user].password
            \/ /\ Carries(work[g]) /\ work'[g].password = work[g].password
               /\ work'[g].user = work[g].user /\ work'[g].token = work[g].token
               /\ work[g].raced => work'[g].raced
               /\ users'[work[g].user].password = users[work[g].user].password
      BY <1>1
    <2> QED
      BY <2>1, <2>2, PasswordsFrame DEF IInv
  <1>5. TokensOK'
    <2>1. \A g \in Handlers : work'[g].token \in Tokens => work'[g].token = work[g].token
      BY <1>1
    <2>2. \A g \in Handlers, t \in Tokens : Holding(work'[g], t) =>
             Holding(work[g], t) /\ (work[g].pc = "delete" => work'[g].pc = "delete")
      BY <1>1
    <2> QED
      BY <2>1, <2>2, TokensFrame DEF IInv
  <1>6. CodesOK'
    BY <1>1, CodesFrame DEF IInv
  <1> QED
    BY <1>2, <1>3, <1>4, <1>5, <1>6 DEF IInv

\* The local state of a request in progress.
LEMMA Requesting ==
  ASSUME IInv, NEW h \in Handlers, NEW p, p # "idle", At(h, p)
  PROVE  /\ work[h] \in Local /\ Knows(work[h]) /\ work[h].pc = p /\ work[h].user \in Users
         /\ NeedsRow(work[h]) => Exists(work[h].user)
  BY DEF IInv, Types, TypeOK, Knows, At, PresentOK

\* A request that starts from rest with a record that carries and holds nothing.
LEMMA ReceiveStep ==
  ASSUME IInv, NEW h \in Handlers, NEW w \in Local, Knows(w), Receive(h, w),
         UNCHANGED <<users, Redis, past>>, ~Carries(w), w.token = None, w.pc # "answer",
         NeedsRow(w) => Exists(w.user)
  PROVE  IInv'
  <1>1. work' = [work EXCEPT ![h] = w] /\ work[h].pc = "idle"
    BY DEF Receive, At
  <1>2. /\ UNCHANGED <<users, otp, token, past>> /\ link' = link /\ limit' = limit
        /\ blocked' = blocked /\ locked' = locked /\ index' = index
    BY DEF Redis
  <1>3. CounterExpires'
    BY <1>1, <1>2, CountersMove
  <1>4. w.token \notin Tokens /\ (\A t \in Tokens : ~Holding(w, t)) /\ \A u : ~Resetting(work[h], u)
    BY <1>1, Numbers DEF Holding, Resetting
  <1> QED
    BY <1>1, <1>2, <1>3, <1>4, MoveStep DEF IInv, Types, TypeOK

\* A request that ends before it has anything to lose.
LEMMA EndStep ==
  ASSUME IInv, NEW h \in Handlers, End(h), \A u : ~Resetting(work[h], u),
         work[h].pc # "expire", limit' = limit,
         UNCHANGED <<users, otp, token, past>>,
         blocked' \in [Users -> BOOLEAN],
         locked' \in [Users -> [Counters -> BOOLEAN]], index' \in [Users -> SUBSET Tokens],
         link' \in [Codes -> Link],
         \A k \in Codes : link'[k].state = "live" =>
            (link[k].state = "live" /\ link'[k].user = link[k].user) \/ Exists(link'[k].user)
  PROVE  IInv'
  <1>1. work' = [work EXCEPT ![h] = Idle]
    BY DEF End
  <1>2. CounterExpires'
    BY <1>1, IdleOK, CountersMove
  <1>3. Idle.token \notin Tokens
    BY IdleOK, Numbers
  <1> QED
    BY <1>1, <1>2, <1>3, IdleOK, MoveStep DEF IInv, Types, TypeOK

\* A request that goes from p to q with what it has.
LEMMA GotoRecord ==
  ASSUME IInv, NEW h \in Handlers, NEW w, work[h].pc # "idle",
         NEW q \in {"count", "check", "insert", "block", "store", "credentials", "set", "remove",
                    "list", "find", "activate", "add"},
         w = [work[h] EXCEPT !.pc = q]
  PROVE  /\ w \in Local /\ w.pc = q /\ w.op = work[h].op /\ w.user = work[h].user
         /\ w.token = work[h].token /\ w.password = work[h].password /\ w.raced = work[h].raced
         /\ w.otp = work[h].otp
  <1>1. work[h] \in Local
    BY DEF IInv, Types, TypeOK
  <1> QED
    BY <1>1 DEF Local, Pcs, Row

-----------------------------------------------------------------------------
(* Requests, and the counters of the guard *)

\* A request that needs no counter begins.
LEMMA RequestInv == ASSUME IInv, NEW h \in Handlers, NEW u \in Users, Request(h, u) PROVE IInv'
  <1>1. PICK op \in {"adminLogin", "logoutAll", "forgotPassword"} :
           Receive(h, [Idle EXCEPT !.op = op, !.user = u, !.pc = Start(op)])
    BY DEF Request
  <1>2. PICK p \in {"credentials", "list", "link"} : p = Start(op)
    BY DEF Start
  <1> DEFINE w == [Idle EXCEPT !.op = op, !.user = u, !.pc = p]
  <1>3. /\ w \in Local /\ w.pc \in {"credentials", "list", "link"} /\ w.user = u /\ w.token = None
    <2>1. op \in Operations
      BY DEF Operations
    <2>2. p \in Pcs
      BY DEF Pcs
    <2> QED
      BY <2>1, <2>2, IdleOK DEF Local
  <1>4. Knows(w) /\ ~Carries(w) /\ ~NeedsRow(w) /\ w.pc # "answer"
    BY <1>3 DEF Knows, Carries, NeedsRow
  <1>5. Receive(h, w) /\ UNCHANGED <<users, Redis, past>>
    BY <1>1, <1>2 DEF Request
  <1> HIDE DEF w
  <1> QED
    BY <1>3, <1>4, <1>5, ReceiveStep

\* A guarded request begins with its counter.
LEMMA CanActivateInv == ASSUME IInv, NEW h \in Handlers, NEW u \in Users, canActivate(h, u) PROVE IInv'
  <1>1. PICK op \in Guarded : Receive(h, [Idle EXCEPT !.op = op, !.user = u, !.pc = "count"])
    BY DEF canActivate
  <1> DEFINE w == [Idle EXCEPT !.op = op, !.user = u, !.pc = "count"]
  <1>2. w \in Local /\ w.pc = "count" /\ w.user = u /\ w.token = None /\ w.op = op
    <2>1. op \in Operations /\ "count" \in Pcs
      BY DEF Operations, Guarded, Pcs
    <2> QED
      BY <2>1, IdleOK DEF Local
  <1>3. Knows(w) /\ ~Carries(w) /\ ~NeedsRow(w) /\ w.pc # "answer"
    BY <1>2 DEF Knows, Carries, NeedsRow
  <1> HIDE DEF w
  <1> QED
    BY <1>1, <1>2, <1>3, ReceiveStep DEF canActivate, w

\* A link is read: the request has the row of its user.
LEMMA ReadLinkInv == ASSUME IInv, NEW h \in Handlers, NEW k \in Codes, readLink(h, k) PROVE IInv'
  <1> DEFINE u == link[k].user
             row == [f \in DOMAIN NoRow |-> users[u][f]]
             w == [Idle EXCEPT !.op = "resetPassword", !.user = u, !.pc = "save", !.link = k, !.row = row]
  <1>1. Exists(u) /\ users[u] \in User
    BY DEF IInv, PresentOK, Types, TypeOK, readLink, Exists
  <1>2. DOMAIN NoRow = {"status", "phoneVerified"}
    BY DEF NoRow
  <1>3. /\ row \in Row
        /\ row.status # "absent"
    <2>1. row = [status |-> users[u].status, phoneVerified |-> users[u].phoneVerified]
      BY <1>2
    <2>2. users[u].status \in UserStatus /\ users[u].phoneVerified \in BOOLEAN
      BY <1>1 DEF User
    <2> QED
      BY <1>1, <2>1, <2>2 DEF Exists, Row
  <1> HIDE DEF row
  <1>4. /\ w \in Local /\ w.pc = "save" /\ w.user = u /\ w.token = None
        /\ w.op = "resetPassword" /\ w.link = k /\ w.row = row
    <2>1. u \in Users /\ "save" \in Pcs /\ "resetPassword" \in Operations
      BY <1>1 DEF Exists, Pcs, Operations
    <2> HIDE DEF u
    <2> QED
      BY <1>3, <2>1, IdleOK DEF Local
  <1>5. Knows(w) /\ ~Carries(w) /\ w.pc # "answer" /\ Exists(w.user)
    BY <1>1, <1>3, <1>4 DEF Knows, Carries, Exists
  <1>6. Receive(h, w) /\ UNCHANGED <<users, Redis, past>>
    BY DEF readLink, row
  <1> HIDE DEF w
  <1> QED
    BY <1>4, <1>5, <1>6, ReceiveStep

\* INCR: a counter that starts has its expiry ahead.
LEMMA IncrementInv == ASSUME IInv, NEW h \in Handlers, increment(h) PROVE IInv'
  <1> DEFINE w == work[h]
  <1>1. PICK u \in Users, k \in Counters : u = w.user /\ k = w.counter
    BY Requesting DEF increment, Local, Pcs, Row
  <1> DEFINE n == limit[u][k].n + 1
             x == IF n > Limits[k] THEN Idle
                  ELSE IF n = 1 THEN [w EXCEPT !.pc = "expire"] ELSE Passed(w)
  <1>2. /\ w \in Local /\ Knows(w) /\ w.pc = "count" /\ w.op \in Guarded /\ w.token = None
    <2>1. w \in Local /\ Knows(w) /\ w.pc = "count"
      BY Requesting DEF increment
    <2> QED
      BY <2>1 DEF Knows
  <1>3. /\ limit[u][k] \in Counter /\ limit[u] \in [Counters -> Counter] /\ n \in Nat
        /\ limit[u][k].expires \in BOOLEAN
    BY <1>1 DEF IInv, Types, TypeOK, Counter
  <1>4. /\ work' = [work EXCEPT ![h] = x]
        /\ limit' = [limit EXCEPT ![u][k].n = n]
        /\ locked' = [locked EXCEPT ![u][k] = @ \/ (n > Limits[k] /\ k # "rate")]
    BY <1>1 DEF increment
  <1>5. /\ x \in Local /\ Knows(x) /\ x.token = None
        /\ x.pc \in {"idle", "expire", "count", "check", "credentials", "block", "store"}
        /\ x.pc = "expire" => x.user = u /\ x.counter = k
    <2>1. CASE n > Limits[k]
      BY <2>1, IdleOK
    <2>2. CASE ~(n > Limits[k]) /\ n = 1
      <3>1. x = [w EXCEPT !.pc = "expire"] /\ "expire" \in Pcs
        BY <2>2 DEF Pcs
      <3>2. /\ x \in Local /\ x.pc = "expire" /\ x.op = w.op /\ x.user = w.user
            /\ x.token = w.token /\ x.counter = w.counter
        BY <1>2, <3>1 DEF Local
      <3> HIDE DEF x
      <3> QED
        BY <1>1, <1>2, <3>2 DEF Knows
    <2>3. CASE ~(n > Limits[k]) /\ n # 1
      BY <1>2, <2>3, Places
    <2> QED
      BY <2>1, <2>2, <2>3
  <1>6. n = 1 => x.pc = "expire" /\ x.user = u /\ x.counter = k
    <2>1. ASSUME n = 1 PROVE ~(n > Limits[k])
      BY <2>1, AuthAssumption DEF AuthAssumption, Counters
    <2>2. ASSUME n = 1 PROVE x = [w EXCEPT !.pc = "expire"]
      BY <2>1, <2>2
    <2> QED
      BY <1>1, <1>2, <2>2 DEF Local, Pcs, Row
  <1> HIDE DEF x
  <1>7. /\ limit' \in [Users -> [Counters -> Counter]]
        /\ limit'[u][k] = [limit[u][k] EXCEPT !.n = n]
        /\ \A v \in Users, c \in Counters : v # u \/ c # k => limit'[v][c] = limit[v][c]
    <2> DEFINE c == [limit[u][k] EXCEPT !.n = n]
               f == [limit[u] EXCEPT ![k] = c]
    <2>1. c \in Counter
      BY <1>3 DEF Counter
    <2>2. f \in [Counters -> Counter] /\ f[k] = c /\ \A d \in Counters : d # k => f[d] = limit[u][d]
      BY <1>3, <2>1
    <2>3. limit' = [limit EXCEPT ![u] = f]
      BY <1>4
    <2> HIDE DEF c, f
    <2>4. limit' \in [Users -> [Counters -> Counter]] /\ limit'[u] = f
          /\ \A v \in Users : v # u => limit'[v] = limit[v]
      BY <2>2, <2>3 DEF IInv, Types, TypeOK
    <2> QED
      BY <2>2, <2>4 DEF c
  <1>8. locked' \in [Users -> [Counters -> BOOLEAN]]
    BY <1>4 DEF IInv, Types, TypeOK
  <1>9. UNCHANGED <<users, otp, blocked, token, index, link, past>>
    BY DEF increment
  <1>10. CounterExpires'
    <2> SUFFICES ASSUME NEW v \in Users, NEW c \in Counters,
                        limit'[v][c].n > 0, ~limit'[v][c].expires
                 PROVE  \/ <<v, c>> \in past'.stuck
                        \/ \E g \in Handlers : /\ work'[g].pc = "expire"
                                               /\ work'[g].user = v /\ work'[g].counter = c
      BY DEF CounterExpires, At
    <2>1. work'[h] = x /\ \A g \in Handlers : g # h => work'[g] = work[g]
      BY <1>4 DEF IInv, Types, TypeOK
    <2>2. CASE v = u /\ c = k /\ n = 1
      BY <1>6, <2>1, <2>2
    <2>3. CASE ~(v = u /\ c = k /\ n = 1)
      <3>1. limit[v][c].n > 0 /\ ~limit[v][c].expires
        <4>1. CASE v = u /\ c = k
          <5>1. limit'[v][c].expires = limit[u][k].expires /\ n # 1
            BY <1>3, <1>7, <2>3, <4>1 DEF Counter
          <5>2. limit[u][k].n \in Nat /\ limit[u][k].n # 0
            BY <1>3, <5>1 DEF Counter
          <5> QED
            BY <4>1, <5>1, <5>2
        <4>2. CASE ~(v = u /\ c = k)
          BY <1>7, <4>2
        <4> QED
          BY <4>1, <4>2
      <3>2. \/ <<v, c>> \in past.stuck
            \/ \E g \in Handlers : work[g].pc = "expire" /\ work[g].user = v /\ work[g].counter = c
        BY <3>1 DEF IInv, CounterExpires, At
      <3> QED
        BY <1>2, <1>9, <2>1, <3>2
    <2> QED
      BY <2>2, <2>3
  <1>11. /\ ~NeedsRow(x) /\ ~Carries(x) /\ x.token \notin Tokens /\ x.pc # "answer"
         /\ (\A t \in Tokens : ~Holding(x, t)) /\ \A v : ~Resetting(work[h], v)
    BY <1>2, <1>5, Numbers DEF NeedsRow, Carries, Holding, Resetting
  <1> QED
    BY <1>4, <1>5, <1>7, <1>8, <1>9, <1>10, <1>11, MoveStep DEF IInv, Types, TypeOK

\* EXPIRE: the counter has its expiry.
LEMMA ExpireInv == ASSUME IInv, NEW h \in Handlers, expire(h) PROVE IInv'
  <1> DEFINE w == work[h]
  <1>1. PICK u \in Users, k \in Counters : u = w.user /\ k = w.counter
    BY Requesting DEF expire, Local, Pcs, Row
  <1> DEFINE x == Passed(w)
  <1>2. /\ w \in Local /\ Knows(w) /\ w.pc = "expire" /\ w.op \in Guarded /\ w.token = None
    BY Requesting DEF expire, Knows
  <1>3. /\ x \in Local /\ Knows(x) /\ x.token = None
        /\ x.pc \in {"count", "check", "credentials", "block", "store"}
    BY <1>2, Places
  <1>4. work' = [work EXCEPT ![h] = x] /\ limit' = [limit EXCEPT ![u][k].expires = TRUE]
    BY <1>1 DEF expire
  <1> HIDE DEF x
  <1>5. /\ limit' \in [Users -> [Counters -> Counter]]
        /\ limit'[u][k].expires
        /\ \A v \in Users, c \in Counters : v # u \/ c # k => limit'[v][c] = limit[v][c]
    <2> DEFINE c == [limit[u][k] EXCEPT !.expires = TRUE]
               f == [limit[u] EXCEPT ![k] = c]
    <2>1. c \in Counter /\ c.expires
      <3>1. limit[u][k] \in Counter
        BY DEF IInv, Types, TypeOK
      <3> QED
        BY <3>1 DEF Counter
    <2>0. limit[u] \in [Counters -> Counter]
      BY DEF IInv, Types, TypeOK
    <2>2. f \in [Counters -> Counter] /\ f[k] = c /\ \A d \in Counters : d # k => f[d] = limit[u][d]
      BY <2>0, <2>1
    <2>3. limit' = [limit EXCEPT ![u] = f]
      BY <1>4
    <2> HIDE DEF c, f
    <2>4. limit' \in [Users -> [Counters -> Counter]] /\ limit'[u] = f
          /\ \A v \in Users : v # u => limit'[v] = limit[v]
      BY <2>2, <2>3 DEF IInv, Types, TypeOK
    <2> QED
      BY <2>1, <2>2, <2>4
  <1>6. UNCHANGED <<users, otp, blocked, locked, token, index, link, past>>
    BY DEF expire
  <1>7. CounterExpires'
    <2> SUFFICES ASSUME NEW v \in Users, NEW c \in Counters,
                        limit'[v][c].n > 0, ~limit'[v][c].expires
                 PROVE  \/ <<v, c>> \in past'.stuck
                        \/ \E g \in Handlers : /\ work'[g].pc = "expire"
                                               /\ work'[g].user = v /\ work'[g].counter = c
      BY DEF CounterExpires, At
    <2>1. v # u \/ c # k
      BY <1>5
    <2>2. \/ <<v, c>> \in past.stuck
          \/ \E g \in Handlers : work[g].pc = "expire" /\ work[g].user = v /\ work[g].counter = c
      BY <1>5, <2>1 DEF IInv, CounterExpires, At
    <2>3. \A g \in Handlers : g # h => work'[g] = work[g]
      BY <1>4 DEF IInv, Types, TypeOK
    <2> QED
      BY <1>1, <1>6, <2>1, <2>2, <2>3
  <1>8. /\ ~NeedsRow(x) /\ ~Carries(x) /\ x.token \notin Tokens /\ x.pc # "answer"
        /\ (\A t \in Tokens : ~Holding(x, t)) /\ \A v : ~Resetting(work[h], v)
    BY <1>2, <1>3, Numbers DEF NeedsRow, Carries, Holding, Resetting
  <1> QED
    BY <1>3, <1>4, <1>5, <1>6, <1>7, <1>8, MoveStep DEF IInv, Types, TypeOK

-----------------------------------------------------------------------------
(* Steps of one request that write no row, code or token *)

\* A request goes on, or ends, with what it has.
LEMMA PassStep ==
  ASSUME IInv, NEW h \in Handlers, NEW p \in {"check", "insert", "block", "add", "remove"}, At(h, p),
         NEW w \in Local, Knows(w), work' = [work EXCEPT ![h] = w],
         \/ w = Idle
         \/ w.pc \in {"insert", "count", "block"} /\ w.token = None
         \/ /\ p = "remove" /\ w.op = "refresh" /\ w.pc = "set" /\ w.user = work[h].user
            /\ w.token = work[h].token /\ w.password = work[h].password /\ w.raced = work[h].raced
            /\ work[h].op = "refresh",
         UNCHANGED <<users, otp, blocked, limit, locked, token, link, past>>,
         index' \in [Users -> SUBSET Tokens]
  PROVE  IInv'
  <1>1. work[h].pc = p /\ work[h] \in Local /\ (NeedsRow(work[h]) => Exists(work[h].user))
    BY Requesting
  <1>2. \A u : ~Resetting(work[h], u)
    BY <1>1 DEF Resetting
  <1>3. CounterExpires'
    BY <1>1, CountersMove
  <1>4. CASE w = Idle
    BY <1>2, <1>3, <1>4, IdleOK, Numbers, MoveStep DEF IInv, Types, TypeOK
  <1>5. CASE w.pc \in {"insert", "count", "block"} /\ w.token = None
    <2>1. /\ ~NeedsRow(w) /\ ~Carries(w) /\ w.token \notin Tokens /\ w.pc # "answer"
          /\ \A t \in Tokens : ~Holding(w, t)
      BY <1>5, Numbers DEF NeedsRow, Carries, Holding
    <2> QED
      BY <1>2, <1>3, <2>1, MoveStep DEF IInv, Types, TypeOK
  <1>6. CASE /\ p = "remove" /\ w.op = "refresh" /\ w.pc = "set" /\ w.user = work[h].user
             /\ w.token = work[h].token /\ w.password = work[h].password /\ w.raced = work[h].raced
             /\ work[h].op = "refresh"
    <2>1. /\ NeedsRow(work[h]) /\ Carries(work[h]) /\ w.pc # "answer"
          /\ \A t \in Tokens : Holding(w, t) => Holding(work[h], t)
          /\ work[h].pc # "delete"
      BY <1>1, <1>6 DEF NeedsRow, Carries, Holding
    <2> QED
      BY <1>2, <1>3, <1>6, <2>1, MoveStep DEF IInv, Types, TypeOK
  <1> QED
    BY <1>4, <1>5, <1>6

\* Registration: the phone is looked up.
LEMMA RegisterCheckInv == ASSUME IInv, NEW h \in Handlers, registerCheck(h) PROVE IInv'
  <1>1. /\ work[h] \in Local /\ Knows(work[h]) /\ work[h].pc = "check" /\ At(h, "check")
        /\ UNCHANGED <<users, otp, blocked, limit, locked, token, link, past, index>>
    BY Requesting DEF registerCheck, Redis
  <1>2. CASE work' = [work EXCEPT ![h].pc = "insert"]
    <2> DEFINE w == [work[h] EXCEPT !.pc = "insert"]
    <2>1. /\ w \in Local /\ w.pc = "insert" /\ w.op = work[h].op /\ w.user = work[h].user
          /\ w.token = work[h].token
      BY <1>1, GotoRecord
    <2>2. work' = [work EXCEPT ![h] = w]
      BY <1>2
    <2>3. Knows(w) /\ w.token = None
      BY <1>1, <2>1 DEF Knows
    <2> HIDE DEF w
    <2> QED
      BY <1>1, <2>1, <2>2, <2>3, PassStep DEF IInv, Types, TypeOK
  <1>3. CASE work' = [work EXCEPT ![h] = Idle]
    BY <1>1, <1>3, IdleOK, PassStep DEF IInv, Types, TypeOK
  <1> QED
    BY <1>2, <1>3 DEF registerCheck, Goto, End

\* The block of a phone is looked up before its counter.
LEMMA SendOtpInv == ASSUME IInv, NEW h \in Handlers, sendOtp(h) PROVE IInv'
  <1>1. /\ work[h] \in Local /\ Knows(work[h]) /\ work[h].pc = "block" /\ At(h, "block")
        /\ UNCHANGED <<users, otp, blocked, limit, locked, token, link, past, index>>
    BY Requesting DEF sendOtp, Redis
  <1>2. CASE work' = [work EXCEPT ![h].pc = "count", ![h].counter = "rate"]
    <2> DEFINE w == [work[h] EXCEPT !.pc = "count", !.counter = "rate"]
    <2>1. /\ w \in Local /\ w.pc = "count" /\ w.op = work[h].op /\ w.user = work[h].user
          /\ w.token = work[h].token
      <3>1. "count" \in Pcs /\ "rate" \in Counters
        BY DEF Pcs, Counters
      <3> QED
        BY <1>1, <3>1 DEF Local
    <2>2. work' = [work EXCEPT ![h] = w]
      BY <1>1, <1>2 DEF IInv, Types, TypeOK
    <2>3. Knows(w) /\ w.token = None
      BY <1>1, <2>1 DEF Knows
    <2> HIDE DEF w
    <2> QED
      BY <1>1, <2>1, <2>2, <2>3, PassStep DEF IInv, Types, TypeOK
  <1>3. CASE work' = [work EXCEPT ![h] = Idle]
    BY <1>1, <1>3, IdleOK, PassStep DEF IInv, Types, TypeOK
  <1> QED
    BY <1>2, <1>3 DEF sendOtp, End

\* A token joins the set of its user.
LEMMA AddToIndexInv == ASSUME IInv, NEW h \in Handlers, addToIndex(h) PROVE IInv'
  <1>1. /\ work[h] \in Local /\ Knows(work[h]) /\ work[h].pc = "add" /\ At(h, "add")
        /\ work[h].user \in Users /\ work[h].token \in Tokens
    BY Requesting DEF addToIndex, Knows
  <1>2. index' \in [Users -> SUBSET Tokens]
    BY <1>1 DEF addToIndex, IInv, Types, TypeOK
  <1> QED
    BY <1>1, <1>2, IdleOK, PassStep DEF addToIndex, End

\* A token leaves the set of its user; a refresh goes on.
LEMMA RefreshInv == ASSUME IInv, NEW h \in Handlers, refresh(h) PROVE IInv'
  <1>1. /\ work[h] \in Local /\ Knows(work[h]) /\ work[h].pc = "remove" /\ At(h, "remove")
        /\ work[h].user \in Users /\ work[h].token \in Tokens
        /\ UNCHANGED <<users, otp, blocked, limit, locked, token, link, past>>
    BY Requesting DEF refresh, Knows
  <1>2. index' \in [Users -> SUBSET Tokens]
    BY <1>1 DEF refresh, IInv, Types, TypeOK
  <1>3. CASE work[h].op = "refresh"
    <2> DEFINE w == [work[h] EXCEPT !.pc = "set"]
    <2>1. /\ w \in Local /\ w.pc = "set" /\ w.op = work[h].op /\ w.user = work[h].user
          /\ w.token = work[h].token /\ w.password = work[h].password /\ w.raced = work[h].raced
      BY <1>1, GotoRecord
    <2>2. work' = [work EXCEPT ![h] = w]
      BY <1>3 DEF refresh, Goto
    <2>3. Knows(w)
      BY <1>1, <1>3, <2>1 DEF Knows
    <2> HIDE DEF w
    <2> QED
      BY <1>1, <1>2, <1>3, <2>1, <2>2, <2>3, PassStep
  <1>4. CASE work[h].op # "refresh"
    BY <1>1, <1>2, <1>4, IdleOK, PassStep DEF refresh, End
  <1> QED
    BY <1>3, <1>4

\* Who has a code accepted, or gives the password, goes on with the password of now.
LEMMA TakePassword ==
  ASSUME IInv, NEW h \in Handlers, work[h].pc \in {"find", "credentials"},
         Exists(work[h].user), NEW q \in {"activate", "set"},
         work' = [work EXCEPT ![h].pc = q, ![h].password = users[work[h].user].password],
         UNCHANGED <<users, Redis, past>>
  PROVE  IInv'
  <1>1. /\ work[h] \in Local /\ Knows(work[h]) /\ work[h].user \in Users
    BY Requesting DEF At
  <1> DEFINE w == [work[h] EXCEPT !.pc = q, !.password = users[work[h].user].password]
  <1>2. users[work[h].user].password \in Nat
    BY <1>1 DEF IInv, Types, TypeOK, User
  <1>3. /\ w \in Local /\ w.pc = q /\ w.user = work[h].user /\ w.token = work[h].token
        /\ w.password = users[work[h].user].password
    BY <1>1, <1>2 DEF Local, Pcs, Row
  <1>4. work' = [work EXCEPT ![h] = w]
    BY DEF IInv, Types, TypeOK
  <1>5. Knows(w) /\ w.token = None
    BY <1>1, <1>3 DEF Knows
  <1> HIDE DEF w
  <1>6. UNCHANGED <<users, otp, blocked, limit, locked, token, index, link, past>>
    BY DEF Redis
  <1>7. CounterExpires'
    BY <1>3, <1>4, <1>5, <1>6, CountersMove
  <1>8. /\ w.token \notin Tokens /\ w.pc # "answer" /\ (\A t \in Tokens : ~Holding(w, t))
        /\ \A u : ~Resetting(work[h], u)
    BY <1>3, <1>5, Numbers DEF Holding, Resetting
  <1> QED
    BY <1>3, <1>4, <1>5, <1>6, <1>7, <1>8, MoveStep DEF IInv, Types, TypeOK

\* A request ends where it has nothing to lose, and no row, code or token changes.
LEMMA QuietEnd ==
  ASSUME IInv, NEW h \in Handlers, End(h), work[h].pc \in {"find", "credentials"},
         UNCHANGED <<users, Redis, past>>
  PROVE  IInv'
  BY EndStep DEF IInv, Types, TypeOK, Redis, Resetting

\* The row of the phone is read.
LEMMA FindUserInv == ASSUME IInv, NEW h \in Handlers, findUser(h) PROVE IInv'
  <1>1. work[h].pc = "find" /\ work[h].user \in Users /\ UNCHANGED <<users, Redis, past>>
    BY Requesting DEF findUser
  <1>2. CASE users[work[h].user].status = "absent"
    BY <1>1, <1>2, QuietEnd DEF findUser
  <1>3. CASE users[work[h].user].status # "absent"
    BY <1>1, <1>3, TakePassword DEF findUser, Exists
  <1> QED
    BY <1>2, <1>3

\* The password is given.
LEMMA LoginInv == ASSUME IInv, NEW h \in Handlers, login(h) PROVE IInv'
  <1>1. work[h].pc = "credentials" /\ work[h].user \in Users /\ UNCHANGED <<users, Redis, past>>
    BY Requesting DEF login
  <1>2. CASE End(h)
    BY <1>1, <1>2, QuietEnd
  <1>3. CASE /\ users[work[h].user].status # "absent"
             /\ work' = [work EXCEPT ![h].pc = "set", ![h].password = users[work[h].user].password]
    BY <1>1, <1>3, TakePassword DEF Exists
  <1> QED
    BY <1>2, <1>3 DEF login

\* A link is sent to an administrator who has a row.
LEMMA ForgotPasswordInv == ASSUME IInv, NEW h \in Handlers, forgotPassword(h) PROVE IInv'
  <1>1. work[h].pc = "link" /\ work[h].user \in Users
    BY Requesting DEF forgotPassword
  <1>2. /\ End(h) /\ UNCHANGED <<users, otp, blocked, limit, locked, token, index, past>>
    BY DEF forgotPassword
  <1>3. \/ link' = link
        \/ \E k \in Codes, s \in {"gone", "live"} :
              link' = [link EXCEPT ![k] = [state |-> s, user |-> work[h].user]] /\ Exists(work[h].user)
    BY <1>1 DEF forgotPassword, Exists
  <1>4. /\ link' \in [Codes -> Link]
        /\ \A k \in Codes : link'[k].state = "live" =>
              (link[k].state = "live" /\ link'[k].user = link[k].user) \/ Exists(link'[k].user)
    <2>1. CASE link' = link
      BY <2>1 DEF IInv, Types, TypeOK
    <2>2. ASSUME NEW k \in Codes, NEW s \in {"gone", "live"}, Exists(work[h].user),
                 link' = [link EXCEPT ![k] = [state |-> s, user |-> work[h].user]]
          PROVE  <1>4!1 /\ <1>4!2
      <3>1. [state |-> s, user |-> work[h].user] \in Link
        BY <1>1 DEF Link
      <3> QED
        BY <2>2, <3>1 DEF IInv, Types, TypeOK
    <2> QED
      BY <1>3, <2>1, <2>2
  <1>5. \A u : ~Resetting(work[h], u)
    BY <1>1 DEF Resetting
  <1> QED
    BY <1>1, <1>2, <1>4, <1>5, EndStep DEF IInv, Types, TypeOK

\* The link is spent; the sessions are still to be ended.
LEMMA SpendLinkInv == ASSUME IInv, NEW h \in Handlers, spendLink(h) PROVE IInv'
  <1>1. /\ work[h] \in Local /\ Knows(work[h]) /\ work[h].pc = "spend" /\ work[h].user \in Users
        /\ work[h].link \in Codes /\ work[h].token = None
    BY Requesting DEF spendLink, Knows
  <1> DEFINE w == [work[h] EXCEPT !.pc = "list"]
  <1>2. /\ w \in Local /\ w.pc = "list" /\ w.op = work[h].op /\ w.user = work[h].user
        /\ w.token = work[h].token
    BY <1>1, GotoRecord
  <1>3. work' = [work EXCEPT ![h] = w]
    BY DEF spendLink, Goto
  <1>4. Knows(w) /\ w.token = None /\ \A u : Resetting(work[h], u) => Resetting(w, u)
    BY <1>1, <1>2 DEF Knows, Resetting
  <1> HIDE DEF w
  <1>5. UNCHANGED <<users, otp, blocked, limit, locked, token, index, past>>
    BY DEF spendLink
  <1>6. /\ link' \in [Codes -> Link]
        /\ \A k \in Codes : link'[k].state = "live" =>
              link[k].state = "live" /\ link'[k].user = link[k].user
    <2>1. CASE link' = link
      BY <2>1 DEF IInv, Types, TypeOK
    <2>2. CASE link' = [link EXCEPT ![work[h].link].state = "gone"]
      <3>1. \A k \in Codes : [link[k] EXCEPT !.state = "gone"] \in Link
        BY DEF IInv, Types, TypeOK, Link
      <3>2. link' = [link EXCEPT ![work[h].link] = [link[work[h].link] EXCEPT !.state = "gone"]]
        BY <2>2
      <3>3. [link[work[h].link] EXCEPT !.state = "gone"].state = "gone"
        BY <1>1 DEF IInv, Types, TypeOK, Link
      <3> QED
        BY <1>1, <3>1, <3>2, <3>3 DEF IInv, Types, TypeOK
    <2> QED
      BY <2>1, <2>2 DEF spendLink
  <1>7. CounterExpires'
    BY <1>1, <1>2, <1>3, <1>4, <1>5, CountersMove
  <1>8. /\ ~NeedsRow(w) /\ ~Carries(w) /\ w.token \notin Tokens /\ w.pc # "answer"
        /\ \A t \in Tokens : ~Holding(w, t)
    BY <1>2, <1>4, Numbers DEF NeedsRow, Carries, Holding
  <1> QED
    BY <1>2, <1>3, <1>4, <1>5, <1>6, <1>7, <1>8, MoveStep DEF IInv, Types, TypeOK

-----------------------------------------------------------------------------
(* Codes *)

\* A step that writes codes and no row, counter, token or link.
LEMMA CodeStep ==
  ASSUME IInv, NEW h \in Handlers, NEW w \in Local, Knows(w), work' = [work EXCEPT ![h] = w],
         UNCHANGED <<users, limit, locked, token, index, link>>,
         blocked' \in [Users -> BOOLEAN], otp' \in [Users -> Otp \cup {NoOtp}], past' \in History,
         past'.raced = past.raced, past'.shared = past.shared, past'.stuck = past.stuck,
         ~NeedsRow(w), ~Carries(w), w.token = None, work[h].pc # "expire",
         \A u : ~Resetting(work[h], u),
         CodesOK'
  PROVE  IInv'
  <1>1. /\ work' \in [Handlers -> Local] /\ work'[h] = w
        /\ \A g \in Handlers : g # h => work'[g] = work[g]
        /\ \A g \in Handlers : Knows(work'[g])
    BY OneMoves DEF IInv
  <1>2. Types'
    BY <1>1 DEF IInv, Types, TypeOK
  <1>3. PresentOK'
    <2>1. RowsStay
      BY DEF RowsStay, Exists
    <2> QED
      BY <1>1, <2>1, PresentFrame DEF IInv
  <1>4. PasswordsOK'
    BY <1>1, PasswordsFrame DEF IInv
  <1>5. TokensOK'
    <2>1. w.token \notin Tokens /\ \A t \in Tokens : ~Holding(w, t)
      BY Numbers DEF Holding
    <2> QED
      BY <1>1, <2>1, TokensFrame DEF IInv
  <1>6. CounterExpires'
    BY <1>1, CountersFrame DEF IInv
  <1> QED
    BY <1>2, <1>3, <1>4, <1>5, <1>6 DEF IInv

\* The parts of the history.
LEMMA PastTyped ==
  ASSUME IInv
  PROVE  /\ past \in History
         /\ past.sent \in [Users -> 0..MaxCodes] /\ past.wrong \in [Users -> Nat]
         /\ past.used \subseteq Users \X Codes /\ past.mixed \subseteq Users \X Codes
         /\ past.shared \subseteq Tokens /\ past.raced \subseteq Tokens
         /\ past.stuck \subseteq Users \X Counters
  BY DEF IInv, Types, TypeOK, History

\* What the requests hold, and what is stored, are codes of users.
LEMMA HeldTyped ==
  ASSUME IInv, NEW h \in Handlers, NEW u \in Users
  PROVE  /\ Held(h, u) \subseteq Users \X Codes /\ Stored(u) \subseteq Users \X Codes
         /\ \A g \in Handlers : g # h /\ work[g].pc = "answer" /\ work[g].user = u => Pair(work[g]) \in Held(h, u)
  <1>1. \A g \in Handlers : work[g].pc = "answer" => work[g].otp.code \in Codes
    BY DEF IInv, Types, Knows, Otp
  <1>2. Held(h, u) \subseteq Users \X Codes
    BY <1>1 DEF Held, Others, At
  <1>3. otp[u] # NoOtp => otp[u].code \in Codes
    BY DEF IInv, Types, TypeOK, Otp
  <1>4. \A g \in Handlers : g # h /\ work[g].pc = "answer" /\ work[g].user = u => Pair(work[g]) \in Held(h, u)
    BY DEF Held, Others, At, Pair
  <1> QED
    BY <1>2, <1>3, <1>4 DEF Stored

\* A code is sent: it has not been accepted before, and who holds another is mixed.
LEMMA DeliverOtpInv == ASSUME IInv, NEW h \in Handlers, deliverOtp(h) PROVE IInv'
  <1>1. PICK u \in Users, lost \in BOOLEAN :
           /\ u = work[h].user /\ At(h, "store") /\ past.sent[u] < MaxCodes
           /\ otp' = IF lost THEN otp ELSE [otp EXCEPT ![u] = [code |-> past.sent[u] + 1, attempts |-> 0]]
           /\ past' = [past EXCEPT !.sent[u] = @ + 1, !.wrong[u] = 0,
                                   !.mixed = @ \cup Held(h, u) \cup (IF lost THEN Stored(u) ELSE {})]
           /\ End(h)
           /\ UNCHANGED <<users, blocked, limit, locked, token, index, link, requests>>
    BY Requesting DEF deliverOtp
  <1> DEFINE n == past.sent[u] + 1
  <1>2. n \in Codes /\ n \in Nat /\ past.sent[u] \in Nat
    BY <1>1, PastTyped, Numbers DEF Codes
  <1>3. /\ past'.sent = [past.sent EXCEPT ![u] = n] /\ past'.wrong = [past.wrong EXCEPT ![u] = 0]
        /\ past'.mixed = past.mixed \cup Held(h, u) \cup (IF lost THEN Stored(u) ELSE {})
        /\ past'.used = past.used /\ past'.shared = past.shared /\ past'.raced = past.raced
        /\ past'.stuck = past.stuck /\ DOMAIN past' = DOMAIN past
    BY <1>1, PastTyped DEF History
  <1>4. past' \in History
    <2>1. past'.sent \in [Users -> 0..MaxCodes] /\ past'.wrong \in [Users -> Nat]
      BY <1>2, <1>3, PastTyped DEF Codes
    <2>2. past'.mixed \in SUBSET (Users \X Codes)
      BY <1>3, PastTyped, HeldTyped
    <2>3. past' = [past EXCEPT !.sent = past'.sent, !.wrong = past'.wrong, !.mixed = past'.mixed]
      BY <1>1, <1>3, PastTyped DEF History
    <2> HIDE DEF n
    <2> QED
      BY <2>1, <2>2, <2>3, PastTyped DEF History
  <1>5. /\ \A v \in Users : v # u => otp'[v] = otp[v] /\ past'.sent[v] = past.sent[v]
                                     /\ past'.wrong[v] = past.wrong[v]
        /\ past'.sent[u] = n /\ past'.wrong[u] = 0
        /\ lost => otp'[u] = otp[u]
        /\ ~lost => otp'[u] = [code |-> n, attempts |-> 0]
        /\ otp' \in [Users -> Otp \cup {NoOtp}]
    <2>1. [code |-> n, attempts |-> 0] \in Otp
      BY <1>2, Numbers DEF Otp
    <2> QED
      BY <1>1, <1>3, <2>1, PastTyped DEF IInv, Types, TypeOK
  <1>6. work' = [work EXCEPT ![h] = Idle] /\ work'[h] = Idle /\ work[h].pc = "store"
        /\ \A g \in Handlers : g # h => work'[g] = work[g]
    BY <1>1 DEF End, At, IInv, Types, TypeOK
  <1>7. CodesOK'
    <2>1. ASSUME NEW v \in Users, otp'[v] # NoOtp PROVE otp'[v].code <= past'.sent[v]
      <3>1. CASE v = u /\ ~lost
        BY <1>2, <1>5, <3>1
      <3>2. CASE v = u /\ lost
        <4>1. otp[u] \in Otp /\ otp[u].code <= past.sent[u]
          BY <1>5, <2>1, <3>2 DEF IInv, Types, TypeOK, CodesOK
        <4>2. otp[u].code \in Nat
          BY <4>1, Numbers DEF Otp
        <4> QED
          BY <1>2, <1>5, <3>2, <4>1, <4>2
      <3>3. CASE v # u
        BY <1>5, <2>1, <3>3 DEF IInv, CodesOK
      <3> QED
        BY <3>1, <3>2, <3>3
    <2>2. ASSUME NEW v \in Users, NEW c \in Codes, <<v, c>> \in past'.used PROVE c <= past'.sent[v]
      <3>1. c <= past.sent[v] /\ c \in Nat
        BY <1>3, <2>2, Numbers DEF IInv, CodesOK
      <3> QED
        BY <1>2, <1>5, <3>1
    <2>3. ASSUME NEW g \in Handlers PROVE HeldOK(g)'
      <3> SUFFICES ASSUME work'[g].pc = "answer" PROVE HeldOK(g)'
        BY DEF HeldOK
      <3>1. g # h /\ work'[g] = work[g] /\ work[g].pc = "answer" /\ HeldOK(g) /\ Knows(work[g])
        BY <1>6, IdleOK DEF IInv, CodesOK, Types
      <3>2. PICK v \in Users, c \in Codes : v = work[g].user /\ c = work[g].otp.code
        BY <3>1 DEF Knows, Otp
      <3>3. c <= past.sent[v] /\ c \in Nat
        BY <3>1, <3>2, Numbers DEF HeldOK
      <3>4. CASE v = u
        <4>1. Pair(work[g]) \in past'.mixed
          BY <1>3, <3>1, <3>2, <3>4, HeldTyped
        <4>2. c <= past'.sent[v]
          BY <1>2, <1>5, <3>3, <3>4
        <4> QED
          BY <3>1, <3>2, <4>1, <4>2 DEF HeldOK, Pair
      <3>5. CASE v # u
        <4>1. /\ past'.sent[v] = past.sent[v] /\ past'.wrong[v] = past.wrong[v]
              /\ past'.used = past.used /\ past.mixed \subseteq past'.mixed
          BY <1>3, <1>5, <3>5
        <4>2. \A i \in Handlers : work'[i].pc = "answer" => work'[i] = work[i]
          BY <1>6, IdleOK
        <4> QED
          BY <3>1, <3>2, <3>3, <4>1, <4>2 DEF HeldOK, Pair
      <3> QED
        BY <3>4, <3>5
    <2>4. CodeKeptUnlessMixed'
      <3> SUFFICES ASSUME NEW v \in Users
                   PROVE  \/ otp'[v] = NoOtp
                          \/ <<v, otp'[v].code>> \in past'.mixed
                          \/ /\ otp'[v] = [code |-> past'.sent[v], attempts |-> past'.wrong[v]]
                             /\ <<v, otp'[v].code>> \notin past'.used
        BY DEF CodeKeptUnlessMixed
      <3>1. CASE v # u
        BY <1>3, <1>5, <3>1 DEF IInv, CodesOK, CodeKeptUnlessMixed
      <3>2. CASE v = u /\ lost
        BY <1>3, <1>5, <3>2 DEF Stored
      <3>3. CASE v = u /\ ~lost
        <4>1. <<u, n>> \notin past.used
          BY <1>2 DEF IInv, CodesOK
        <4> QED
          BY <1>3, <1>5, <3>3, <4>1
      <3> QED
        BY <3>1, <3>2, <3>3
    <2> QED
      BY <2>1, <2>2, <2>3, <2>4 DEF CodesOK
  <1>8. \A v : ~Resetting(work[h], v)
    BY <1>6 DEF Resetting
  <1> QED
    BY <1>1, <1>3, <1>4, <1>5, <1>6, <1>7, <1>8, IdleOK, CodeStep DEF IInv, Types, TypeOK

\* A code is read: who held the same one is mixed with it.
LEMMA VerifyOtpInv == ASSUME IInv, NEW h \in Handlers, NEW u \in Users, verifyOtp(h, u) PROVE IInv'
  <1>1. PICK right \in BOOLEAN :
           /\ otp[u] # NoOtp
           /\ Receive(h, [Idle EXCEPT !.op = "verifyPhone", !.user = u, !.pc = "answer",
                                      !.otp = otp[u], !.right = right])
           /\ past' = [past EXCEPT !.mixed = @ \cup (Stored(u) \cap Held(h, u))]
           /\ UNCHANGED <<users, Redis, faults>>
    BY DEF verifyOtp
  <1> DEFINE w == [Idle EXCEPT !.op = "verifyPhone", !.user = u, !.pc = "answer",
                               !.otp = otp[u], !.right = right]
  <1>2. otp[u] \in Otp /\ otp[u].code \in Codes
    <2>1. otp[u] \in Otp
      BY <1>1 DEF IInv, Types, TypeOK
    <2> QED
      BY <2>1 DEF Otp
  <1>3. /\ w \in Local /\ w.pc = "answer" /\ w.user = u /\ w.otp = otp[u] /\ w.token = None
        /\ w.op = "verifyPhone"
    <2>1. "verifyPhone" \in Operations /\ "answer" \in Pcs
      BY DEF Operations, Pcs
    <2> HIDE DEF w
    <2>2. \A o \in Otp : [Idle EXCEPT !.op = "verifyPhone", !.user = u, !.pc = "answer",
                                      !.otp = o, !.right = right] \in Local
      BY <2>1, IdleOK DEF Local
    <2>3. w \in Local
      BY <1>2, <2>2 DEF w
    <2> QED
      BY <2>3, IdleOK DEF Local, w
  <1>4. work' = [work EXCEPT ![h] = w] /\ work[h].pc = "idle" /\ UNCHANGED <<users, Redis>>
    BY <1>1 DEF Receive, At
  <1> HIDE DEF w
  <1>5. Knows(w) /\ ~NeedsRow(w) /\ ~Carries(w) /\ \A v : ~Resetting(work[h], v)
    BY <1>2, <1>3, <1>4 DEF Knows, NeedsRow, Carries, Resetting
  <1>6. /\ past'.sent = past.sent /\ past'.wrong = past.wrong
        /\ past'.mixed = past.mixed \cup (Stored(u) \cap Held(h, u))
        /\ past'.used = past.used /\ past'.shared = past.shared /\ past'.raced = past.raced
        /\ past'.stuck = past.stuck
    BY <1>1, PastTyped DEF History
  <1>7. past' \in History
    <2>1. past.mixed \cup (Stored(u) \cap Held(h, u)) \in SUBSET (Users \X Codes)
      BY PastTyped, HeldTyped
    <2> QED
      BY <1>1, <2>1, PastTyped DEF History
  <1>8. work'[h] = w /\ \A g \in Handlers : g # h => work'[g] = work[g]
    BY <1>4 DEF IInv, Types, TypeOK
  <1>9. otp' = otp
    BY <1>4 DEF Redis
  <1>10. ASSUME NEW g \in Handlers, g # h, work[g].pc = "answer", Pair(work[g]) = Pair(w)
         PROVE  Pair(w) \in past'.mixed
    <2>1. work[g].user = u
      BY <1>3, <1>10 DEF Pair
    <2>2. Pair(w) \in Held(h, u)
      BY <1>10, <2>1, HeldTyped
    <2>3. Pair(w) \in Stored(u)
      BY <1>1, <1>3 DEF Pair, Stored
    <2> QED
      BY <1>6, <2>2, <2>3
  <1>11. CodesOK'
    <2>1. \A v \in Users : otp'[v] # NoOtp => otp'[v].code <= past'.sent[v]
      BY <1>6, <1>9 DEF IInv, CodesOK
    <2>2. \A v \in Users, c \in Codes : <<v, c>> \in past'.used => c <= past'.sent[v]
      BY <1>6 DEF IInv, CodesOK
    <2>3. ASSUME NEW g \in Handlers PROVE HeldOK(g)'
      <3>1. CASE g = h
        <4>1. otp[u].code <= past.sent[u]
          BY <1>1 DEF IInv, CodesOK
        <4>2. Pair(w) \notin past'.mixed =>
                 /\ w.otp = [code |-> past.sent[u], attempts |-> past.wrong[u]]
                 /\ Pair(w) \notin past.used
          BY <1>1, <1>3, <1>6 DEF IInv, CodesOK, CodeKeptUnlessMixed, Pair
        <4>3. Pair(w) \notin past'.mixed =>
                 \A i \in Handlers : work'[i].pc = "answer" /\ Pair(work'[i]) = Pair(w) => i = h
          BY <1>8, <1>10
        <4> QED
          BY <1>3, <1>6, <1>8, <3>1, <4>1, <4>2, <4>3 DEF HeldOK, Pair
      <3>2. CASE g # h
        <4> SUFFICES ASSUME work[g].pc = "answer" PROVE HeldOK(g)'
          BY <1>8, <3>2 DEF HeldOK
        <4>1. HeldOK(g) /\ work'[g] = work[g] /\ past.mixed \subseteq past'.mixed
          BY <1>6, <1>8, <3>2 DEF IInv, CodesOK
        <4>2. Pair(work[g]) \notin past'.mixed =>
                 \A i \in Handlers : work'[i].pc = "answer" /\ Pair(work'[i]) = Pair(work[g]) => i = g
          BY <1>8, <1>10, <3>2, <4>1 DEF HeldOK
        <4> QED
          BY <1>6, <4>1, <4>2 DEF HeldOK, Pair
      <3> QED
        BY <3>1, <3>2
    <2>4. CodeKeptUnlessMixed'
      BY <1>6, <1>9 DEF IInv, CodesOK, CodeKeptUnlessMixed
    <2> QED
      BY <2>1, <2>2, <2>3, <2>4 DEF CodesOK
  <1>12. /\ UNCHANGED <<users, limit, locked, token, index, link>>
         /\ blocked' \in [Users -> BOOLEAN] /\ otp' \in [Users -> Otp \cup {NoOtp}]
    BY <1>4 DEF IInv, Types, TypeOK, Redis
  <1> QED
    BY <1>3, <1>4, <1>5, <1>6, <1>7, <1>11, <1>12, CodeStep

\* The attempts are over: the code goes and the phone is blocked.
LEMMA ExhaustedInv == ASSUME IInv, NEW h \in Handlers, exhausted(h) PROVE IInv'
  <1>1. work[h].pc = "answer" /\ work[h].user \in Users /\ work[h] \in Local
    BY Requesting DEF exhausted
  <1>2. /\ work' = [work EXCEPT ![h] = Idle]
        /\ UNCHANGED <<users, limit, locked, token, index, link, past>>
        /\ otp' = otp \/ otp' = [otp EXCEPT ![work[h].user] = NoOtp]
        /\ blocked' = blocked \/ blocked' = [blocked EXCEPT ![work[h].user] = TRUE]
    BY DEF exhausted, End
  <1>3. /\ otp' \in [Users -> Otp \cup {NoOtp}] /\ blocked' \in [Users -> BOOLEAN]
        /\ \A u \in Users : otp'[u] = otp[u] \/ otp'[u] = NoOtp
    BY <1>1, <1>2 DEF IInv, Types, TypeOK
  <1>4. CodesOK'
    <2>1. \A g \in Handlers : work'[g].pc = "answer" => work'[g] = work[g]
      BY <1>2, IdleOK DEF IInv, Types, TypeOK
    <2> QED
      BY <1>2, <1>3, <2>1, CodesFrame DEF IInv
  <1>5. \A v : ~Resetting(work[h], v)
    BY <1>1 DEF Resetting
  <1> QED
    BY <1>1, <1>2, <1>3, <1>4, <1>5, IdleOK, CodeStep, PastTyped


\* An answer writes back, or takes away, the code it has read: who holds the same one is
\* mixed with it, and the other codes are not concerned.
LEMMA AnswerCodes ==
  ASSUME IInv, NEW h \in Handlers, NEW u \in Users, NEW c \in Codes, work[h].pc = "answer",
         u = work[h].user, c = work[h].otp.code, past' \in History,
         NEW w \in Local, w.pc # "answer", work' = [work EXCEPT ![h] = w],
         past'.sent = past.sent, past.mixed \subseteq past'.mixed,
         past.used \subseteq past'.used, past'.used \subseteq past.used \cup {<<u, c>>},
         \A v \in Users : past'.wrong[v] = past.wrong[v] \/ (v = u /\ c = past.sent[u]),
         \A v \in Users : v # u => otp'[v] = otp[v],
         \/ otp'[u] = NoOtp
         \/ otp'[u] = otp[u] /\ <<u, c>> \in past'.mixed
         \/ /\ otp'[u] = [code |-> c, attempts |-> work[h].otp.attempts + 1]
            /\ past'.used = past.used
            /\ c = past.sent[u] => past'.wrong[u] = past.wrong[u] + 1
  PROVE  CodesOK'
  <1>1. HeldOK(h) /\ \A g \in Handlers : g # h => work'[g] = work[g]
    BY DEF IInv, CodesOK, Types, TypeOK
  <1>2. work'[h].pc # "answer"
    BY DEF IInv, Types, TypeOK
  <1>3. c <= past.sent[u]
    BY <1>1 DEF HeldOK
  <1>4. \A v \in Users : otp'[v] # NoOtp => otp'[v].code <= past'.sent[v]
    <2> SUFFICES ASSUME NEW v \in Users, otp'[v] # NoOtp PROVE otp'[v].code <= past'.sent[v]
      OBVIOUS
    <2>1. CASE v # u \/ otp'[v] = otp[v]
      BY <2>1 DEF IInv, CodesOK
    <2>2. CASE v = u /\ otp'[v] # otp[v]
      BY <1>3, <2>2
    <2> QED
      BY <2>1, <2>2
  <1>5. \A v \in Users, d \in Codes : <<v, d>> \in past'.used => d <= past'.sent[v]
    BY <1>3 DEF IInv, CodesOK
  <1>6. ASSUME NEW g \in Handlers PROVE HeldOK(g)'
    <2> SUFFICES ASSUME work'[g].pc = "answer" PROVE HeldOK(g)'
      BY DEF HeldOK
    <2>1. g # h /\ work'[g] = work[g] /\ HeldOK(g) /\ Knows(work[g])
      BY <1>1, <1>2 DEF IInv, CodesOK, Types
    <2>2. PICK v \in Users, d \in Codes : v = work[g].user /\ d = work[g].otp.code
      BY <2>1 DEF Knows, Otp
    <2>3. d <= past'.sent[v]
      BY <2>1, <2>2 DEF HeldOK
    <2>4. ASSUME <<v, d>> \notin past'.mixed
          PROVE  /\ work[g].otp = [code |-> past'.sent[v], attempts |-> past'.wrong[v]]
                 /\ <<v, d>> \notin past'.used
                 /\ \A i \in Handlers : work'[i].pc = "answer" /\ Pair(work'[i]) = <<v, d>> => i = g
      <3>1. /\ work[g].otp = [code |-> past.sent[v], attempts |-> past.wrong[v]]
            /\ <<v, d>> \notin past.used
            /\ \A i \in Handlers : work[i].pc = "answer" /\ Pair(work[i]) = <<v, d>> => i = g
        BY <2>1, <2>2, <2>4 DEF HeldOK, Pair
      <3>2. d = past.sent[v]
        BY <2>2, <3>1
      <3>3. <<v, d>> # <<u, c>>
        BY <2>1, <3>1 DEF Pair
      <3>4. past'.wrong[v] = past.wrong[v]
        BY <3>2, <3>3
      <3>5. \A i \in Handlers : work'[i].pc = "answer" => work'[i] = work[i]
        BY <1>1, <1>2
      <3> QED
        BY <3>1, <3>3, <3>4, <3>5
    <2> QED
      BY <2>1, <2>2, <2>3, <2>4 DEF HeldOK, Pair
  <1>7. CodeKeptUnlessMixed'
    <2> SUFFICES ASSUME NEW v \in Users, otp'[v] # NoOtp, <<v, otp'[v].code>> \notin past'.mixed
                 PROVE  /\ otp'[v] = [code |-> past'.sent[v], attempts |-> past'.wrong[v]]
                        /\ <<v, otp'[v].code>> \notin past'.used
      BY DEF CodeKeptUnlessMixed
    <2>1. CASE otp'[v] = otp[v] /\ (v # u \/ <<u, c>> \in past'.mixed)
      <3>1. /\ otp[v] = [code |-> past.sent[v], attempts |-> past.wrong[v]]
            /\ <<v, otp[v].code>> \notin past.used
        BY <2>1 DEF IInv, CodesOK, CodeKeptUnlessMixed
      <3>2. <<v, otp[v].code>> # <<u, c>>
        BY <2>1
      <3>3. otp[v].code = past.sent[v]
        BY <3>1
      <3>4. past'.wrong[v] = past.wrong[v]
        BY <3>2, <3>3
      <3> QED
        BY <2>1, <3>1, <3>2, <3>4
    <2>2. CASE /\ v = u /\ otp'[u] = [code |-> c, attempts |-> work[h].otp.attempts + 1]
               /\ past'.used = past.used
               /\ c = past.sent[u] => past'.wrong[u] = past.wrong[u] + 1
      <3>1. otp'[u].code = c
        BY <2>2
      <3>2. /\ work[h].otp = [code |-> past.sent[u], attempts |-> past.wrong[u]]
            /\ <<u, c>> \notin past.used
        BY <1>1, <2>2, <3>1 DEF HeldOK, Pair
      <3>3. c = past.sent[u] /\ work[h].otp.attempts = past.wrong[u]
        BY <3>2
      <3> QED
        BY <2>2, <3>1, <3>2, <3>3
    <2> QED
      BY <2>1, <2>2
  <1> QED
    BY <1>4, <1>5, <1>6, <1>7 DEF CodesOK

\* A wrong answer is counted in the code that was read.
LEMMA WrongCodeInv == ASSUME IInv, NEW h \in Handlers, wrongCode(h) PROVE IInv'
  <1>1. work[h].pc = "answer" /\ work[h].user \in Users /\ work[h].otp \in Otp
    BY Requesting DEF wrongCode, Knows
  <1>2. PICK u \in Users, c \in Codes, n \in 0..MaxAttempts :
           u = work[h].user /\ c = work[h].otp.code /\ n = work[h].otp.attempts
    BY <1>1 DEF Otp
  <1>3. PICK lost \in BOOLEAN :
           /\ n < MaxAttempts
           /\ otp' = IF lost THEN otp ELSE [otp EXCEPT ![u] = [work[h].otp EXCEPT !.attempts = @ + 1]]
           /\ past' = [past EXCEPT !.wrong[u] = IF c = past.sent[u] THEN @ + 1 ELSE @,
                                   !.mixed = IF lost THEN @ \cup {<<u, c>>} ELSE @]
           /\ work' = [work EXCEPT ![h] = Idle]
           /\ UNCHANGED <<users, blocked, limit, locked, token, index, link>>
    BY <1>2 DEF wrongCode, End
  <1>4. [work[h].otp EXCEPT !.attempts = @ + 1] = [code |-> c, attempts |-> n + 1]
        /\ [code |-> c, attempts |-> n + 1] \in Otp
    <2>1. n + 1 \in 0..MaxAttempts
      BY <1>2, <1>3, Numbers
    <2> QED
      BY <1>1, <1>2, <2>1 DEF Otp
  <1>5. /\ past'.sent = past.sent /\ past'.used = past.used
        /\ past'.shared = past.shared /\ past'.raced = past.raced /\ past'.stuck = past.stuck
        /\ past'.wrong = [past.wrong EXCEPT ![u] = IF c = past.sent[u] THEN @ + 1 ELSE @]
        /\ past'.mixed = IF lost THEN past.mixed \cup {<<u, c>>} ELSE past.mixed
    BY <1>3, PastTyped DEF History
  <1>6. /\ past'.wrong \in [Users -> Nat] /\ past'.mixed \in SUBSET (Users \X Codes)
        /\ \A v \in Users : v # u => past'.wrong[v] = past.wrong[v]
        /\ past'.wrong[u] = IF c = past.sent[u] THEN past.wrong[u] + 1 ELSE past.wrong[u]
    BY <1>5, PastTyped
  <1>7. past' \in History
    <2>1. past' = [past EXCEPT !.wrong = past'.wrong, !.mixed = past'.mixed]
      BY <1>3, <1>5, PastTyped DEF History
    <2> QED
      BY <1>6, <2>1, PastTyped DEF History
  <1>8. otp' \in [Users -> Otp \cup {NoOtp}] /\ \A v \in Users : v # u => otp'[v] = otp[v]
    BY <1>3, <1>4 DEF IInv, Types, TypeOK
  <1>9. \/ otp'[u] = otp[u] /\ <<u, c>> \in past'.mixed
        \/ otp'[u] = [code |-> c, attempts |-> n + 1]
    BY <1>3, <1>4, <1>5 DEF IInv, Types, TypeOK
  <1>10. CodesOK'
    <2>1. Idle.pc # "answer" /\ Idle \in Local /\ work' = [work EXCEPT ![h] = Idle]
      BY <1>3, IdleOK
    <2>2. /\ past.mixed \subseteq past'.mixed /\ past.used \subseteq past'.used
          /\ past'.used \subseteq past.used \cup {<<u, c>>}
      BY <1>5
    <2>3. \A v \in Users : past'.wrong[v] = past.wrong[v] \/ (v = u /\ c = past.sent[u])
      BY <1>6
    <2>4. \/ otp'[u] = NoOtp
          \/ otp'[u] = otp[u] /\ <<u, c>> \in past'.mixed
          \/ /\ otp'[u] = [code |-> c, attempts |-> work[h].otp.attempts + 1]
             /\ past'.used = past.used
             /\ c = past.sent[u] => past'.wrong[u] = past.wrong[u] + 1
      BY <1>2, <1>5, <1>6, <1>9
    <2>5. /\ work[h].pc = "answer" /\ u = work[h].user /\ c = work[h].otp.code
          /\ past'.sent = past.sent
          /\ \A v \in Users : v # u => otp'[v] = otp[v]
      BY <1>1, <1>2, <1>5, <1>8
    <2> QED
      BY <1>7, <2>1, <2>2, <2>3, <2>4, <2>5, AnswerCodes, ZenonT(40)
  <1>11. \A v : ~Resetting(work[h], v)
    BY <1>1 DEF Resetting
  <1> QED
    BY <1>1, <1>3, <1>5, <1>7, <1>8, <1>10, <1>11, IdleOK, CodeStep DEF IInv, Types, TypeOK

\* A right answer takes the code away.
LEMMA RightCodeInv == ASSUME IInv, NEW h \in Handlers, rightCode(h) PROVE IInv'
  <1>1. /\ work[h].pc = "answer" /\ work[h].user \in Users /\ work[h].otp \in Otp
        /\ work[h] \in Local /\ work[h].token = None
    BY Requesting DEF rightCode, Knows
  <1>2. PICK u \in Users, c \in Codes : u = work[h].user /\ c = work[h].otp.code
    BY <1>1 DEF Otp
  <1> DEFINE w == [work[h] EXCEPT !.pc = "find"]
  <1>3. PICK lost \in BOOLEAN :
           /\ otp' = IF lost THEN otp ELSE [otp EXCEPT ![u] = NoOtp]
           /\ past' = [past EXCEPT !.used = @ \cup {<<u, c>>},
                                   !.mixed = IF lost THEN @ \cup {<<u, c>>} ELSE @]
           /\ work' = [work EXCEPT ![h] = w]
           /\ UNCHANGED <<users, blocked, limit, locked, token, index, link>>
    BY <1>2 DEF rightCode, Goto
  <1>4. w \in Local /\ w.pc = "find" /\ w.user = work[h].user /\ w.token = None
    BY <1>1, GotoRecord
  <1> HIDE DEF w
  <1>5. Knows(w) /\ ~NeedsRow(w) /\ ~Carries(w)
    BY <1>1, <1>4 DEF Knows, NeedsRow, Carries
  <1>6. /\ past'.sent = past.sent /\ past'.wrong = past.wrong
        /\ past'.shared = past.shared /\ past'.raced = past.raced /\ past'.stuck = past.stuck
        /\ past'.used = past.used \cup {<<u, c>>}
        /\ past'.mixed = IF lost THEN past.mixed \cup {<<u, c>>} ELSE past.mixed
    BY <1>3, PastTyped DEF History
  <1>7. past' \in History
    <2>1. /\ past.used \cup {<<u, c>>} \in SUBSET (Users \X Codes)
          /\ (IF lost THEN past.mixed \cup {<<u, c>>} ELSE past.mixed) \in SUBSET (Users \X Codes)
      BY PastTyped
    <2>2. past' = [past EXCEPT !.used = past.used \cup {<<u, c>>},
                               !.mixed = IF lost THEN past.mixed \cup {<<u, c>>} ELSE past.mixed]
      BY <1>3
    <2> QED
      BY <2>1, <2>2, PastTyped DEF History
  <1>8. /\ otp' \in [Users -> Otp \cup {NoOtp}] /\ \A v \in Users : v # u => otp'[v] = otp[v]
        /\ otp'[u] = NoOtp \/ (otp'[u] = otp[u] /\ <<u, c>> \in past'.mixed)
    BY <1>3, <1>6 DEF IInv, Types, TypeOK
  <1>9. CodesOK'
    <2>1. /\ past.mixed \subseteq past'.mixed /\ past.used \subseteq past'.used
          /\ past'.used \subseteq past.used \cup {<<u, c>>}
      BY <1>6
    <2>2. \A v \in Users : past'.wrong[v] = past.wrong[v] \/ (v = u /\ c = past.sent[u])
      BY <1>6
    <2>3. work' = [work EXCEPT ![h] = w] /\ w.pc # "answer"
      BY <1>3, <1>4
    <2> QED
      BY <1>1, <1>2, <1>4, <1>6, <1>7, <1>8, <2>1, <2>2, <2>3, AnswerCodes
  <1>10. \A v : ~Resetting(work[h], v)
    BY <1>1 DEF Resetting
  <1> QED
    BY <1>1, <1>3, <1>4, <1>5, <1>6, <1>7, <1>8, <1>9, <1>10, CodeStep DEF IInv, Types, TypeOK

-----------------------------------------------------------------------------
(* Rows, and the expiry of keys *)

\* The parts of the invariant that no row, key or history can disturb.
LEMMA RowStep ==
  ASSUME IInv, users' \in [Users -> User], work' \in [Handlers -> Local], RowsStay,
         \A u : Exists(u) => users'[u].password = users[u].password,
         UNCHANGED <<Redis, past>>,
         \A g \in Handlers :
            \/ work'[g] = work[g]
            \/ /\ Knows(work'[g]) /\ work'[g].token = None /\ work'[g].pc # "answer"
               /\ work[g].pc # "expire" /\ (\A u : ~Resetting(work[g], u))
               /\ NeedsRow(work'[g]) => NeedsRow(work[g]) /\ work'[g].user = work[g].user
               /\ Carries(work'[g]) =>
                     /\ Carries(work[g]) /\ work'[g].password = work[g].password
                     /\ work'[g].user = work[g].user /\ work[g].token = None
                     /\ work'[g].raced = work[g].raced
  PROVE  IInv'
  <1>1. UNCHANGED <<otp, blocked, limit, locked, token, index, link>>
    BY DEF Redis
  <1>2. Types'
    BY <1>1 DEF IInv, Types, TypeOK
  <1>3. PresentOK'
    BY <1>1, PresentFrame DEF IInv
  <1>4. PasswordsOK'
    <2>1. \A t \in Tokens : token[t].state = "live" => Exists(token[t].user)
      BY DEF IInv, PresentOK
    <2>2. \A g \in Handlers : Carries(work[g]) => Exists(work[g].user)
      BY DEF IInv, PresentOK, Carries, NeedsRow
    <2>3. \A g \in Handlers : \A u : Resetting(work[g], u) => Resetting(work'[g], u)
      OBVIOUS
    <2>4. \A g \in Handlers : Carries(work'[g]) =>
            /\ Carries(work[g]) /\ work'[g].password = work[g].password
            /\ work'[g].user = work[g].user /\ work'[g].token = work[g].token
            /\ work[g].raced => work'[g].raced
            /\ users'[work[g].user].password = users[work[g].user].password
      BY <2>2
    <2> QED
      BY <1>1, <2>1, <2>3, <2>4, PasswordsFrame DEF IInv
  <1>5. TokensOK'
    <2>1. \A g \in Handlers : work'[g].token \in Tokens => work'[g].token = work[g].token
      BY Numbers
    <2>2. \A g \in Handlers, t \in Tokens : Holding(work'[g], t) =>
             Holding(work[g], t) /\ (work[g].pc = "delete" => work'[g].pc = "delete")
      BY Numbers DEF Holding
    <2> QED
      BY <1>1, <2>1, <2>2, TokensFrame DEF IInv
  <1>6. CodesOK'
    <2>1. \A g \in Handlers : work'[g].pc = "answer" => work'[g] = work[g]
      OBVIOUS
    <2> QED
      BY <1>1, <2>1, CodesFrame DEF IInv
  <1>7. CounterExpires'
    BY <1>1, CountersFrame DEF IInv
  <1> QED
    BY <1>2, <1>3, <1>4, <1>5, <1>6, <1>7 DEF IInv

\* Registration: the row is inserted if the phone is still free.
LEMMA RegisterInv == ASSUME IInv, NEW h \in Handlers, register(h) PROVE IInv'
  <1>1. PICK u \in Users : u = work[h].user
    BY Requesting DEF register
  <1>2. /\ work[h] \in Local /\ Knows(work[h]) /\ work[h].pc = "insert" /\ work[h].token = None
        /\ UNCHANGED <<Redis, past>>
    BY Requesting DEF register, Knows
  <1>3. CASE users[u].status = "absent"
    <2> DEFINE r == [status |-> "inactive", phoneVerified |-> FALSE, password |-> 1]
               w == [work[h] EXCEPT !.pc = "block"]
    <2>1. users' = [users EXCEPT ![u] = r] /\ work' = [work EXCEPT ![h] = w]
      BY <1>1, <1>3 DEF register, Goto
    <2>2. r \in User /\ r.status # "absent"
      BY DEF User, UserStatus
    <2>3. /\ w \in Local /\ w.pc = "block" /\ w.op = work[h].op /\ w.user = work[h].user
          /\ w.token = work[h].token
      BY <1>2, GotoRecord
    <2> HIDE DEF r, w
    <2>4. /\ users' \in [Users -> User] /\ users'[u].status # "absent"
          /\ \A v \in Users : v # u => users'[v] = users[v]
      BY <2>1, <2>2 DEF IInv, Types, TypeOK
    <2>5. RowsStay /\ \A v : Exists(v) => users'[v].password = users[v].password
      BY <1>3, <2>4 DEF RowsStay, Exists
    <2>6. Knows(w) /\ ~NeedsRow(w) /\ ~Carries(w) /\ \A v : ~Resetting(work[h], v)
      BY <1>2, <2>3 DEF Knows, NeedsRow, Carries, Resetting
    <2>7. work' \in [Handlers -> Local] /\ work'[h] = w /\ \A g \in Handlers : g # h => work'[g] = work[g]
      BY <2>1, <2>3 DEF IInv, Types, TypeOK
    <2> QED
      BY <1>2, <2>3, <2>4, <2>5, <2>6, <2>7, RowStep
  <1>4. CASE users[u].status # "absent"
    <2>1. End(h) /\ users' = users
      BY <1>1, <1>4 DEF register
    <2>2. \A v : ~Resetting(work[h], v)
      BY <1>2 DEF Resetting
    <2> QED
      BY <1>2, <2>1, <2>2, EndStep DEF IInv, Types, TypeOK, Redis
  <1> QED
    BY <1>3, <1>4

\* The phone is verified: the row is active whatever it was.
LEMMA VerifyPhoneInv == ASSUME IInv, NEW h \in Handlers, verifyPhone(h) PROVE IInv'
  <1>1. PICK u \in Users : u = work[h].user
    BY Requesting DEF verifyPhone
  <1>2. /\ work[h] \in Local /\ Knows(work[h]) /\ work[h].pc = "activate" /\ work[h].token = None
        /\ UNCHANGED <<Redis, past>>
    BY Requesting DEF verifyPhone, Knows
  <1> DEFINE r == [users[u] EXCEPT !.status = "active", !.phoneVerified = TRUE]
             w == [work[h] EXCEPT !.pc = "set"]
  <1>3. users[u] \in User
    BY DEF IInv, Types, TypeOK
  <1>4. users' = [users EXCEPT ![u] = r] /\ work' = [work EXCEPT ![h] = w]
    BY <1>1, <1>3 DEF verifyPhone, Goto, IInv, Types, TypeOK
  <1>5. r \in User /\ r.status # "absent" /\ r.password = users[u].password
    BY <1>3 DEF User, UserStatus
  <1>6. /\ w \in Local /\ w.pc = "set" /\ w.op = work[h].op /\ w.user = work[h].user
        /\ w.token = work[h].token /\ w.password = work[h].password /\ w.raced = work[h].raced
    BY <1>2, GotoRecord
  <1> HIDE DEF r, w
  <1>7. /\ users' \in [Users -> User] /\ users'[u] = r
        /\ \A v \in Users : v # u => users'[v] = users[v]
    BY <1>4, <1>5 DEF IInv, Types, TypeOK
  <1>8. RowsStay /\ \A v : Exists(v) => users'[v].password = users[v].password
    BY <1>5, <1>7 DEF RowsStay, Exists
  <1>9. Knows(w) /\ NeedsRow(work[h]) /\ Carries(work[h]) /\ \A v : ~Resetting(work[h], v)
    BY <1>1, <1>2, <1>6 DEF Knows, NeedsRow, Carries, Resetting
  <1>10. work' \in [Handlers -> Local] /\ work'[h] = w /\ \A g \in Handlers : g # h => work'[g] = work[g]
    BY <1>4, <1>6 DEF IInv, Types, TypeOK
  <1> QED
    BY <1>2, <1>6, <1>7, <1>8, <1>9, <1>10, RowStep

\* An account is suspended.
LEMMA SuspendInv == ASSUME IInv, NEW u \in Users, Suspend(u) PROVE IInv'
  <1>1. /\ users[u].status = "active" /\ users' = [users EXCEPT ![u].status = "suspended"]
        /\ UNCHANGED <<Redis, past>> /\ work' = work
    BY DEF Suspend
  <1> DEFINE r == [users[u] EXCEPT !.status = "suspended"]
  <1>2. users[u] \in User
    BY DEF IInv, Types, TypeOK
  <1>3. r \in User /\ r.status # "absent" /\ r.password = users[u].password
    BY <1>2 DEF User, UserStatus
  <1>4. users' = [users EXCEPT ![u] = r]
    BY <1>1
  <1> HIDE DEF r
  <1>5. /\ users' \in [Users -> User] /\ users'[u] = r
        /\ \A v \in Users : v # u => users'[v] = users[v]
    BY <1>3, <1>4 DEF IInv, Types, TypeOK
  <1>6. RowsStay /\ \A v : Exists(v) => users'[v].password = users[v].password
    BY <1>3, <1>5 DEF RowsStay, Exists
  <1>7. work' \in [Handlers -> Local] /\ \A g \in Handlers : work'[g] = work[g]
    BY <1>1 DEF IInv, Types, TypeOK
  <1> QED
    BY <1>1, <1>5, <1>6, <1>7, RowStep

\* The row that was read is saved with the new password: until the sessions are ended,
\* the old ones are those of a reset in progress.
LEMMA ResetPasswordInv == ASSUME IInv, NEW h \in Handlers, resetPassword(h) PROVE IInv'
  <1>1. PICK u \in Users : u = work[h].user
    BY Requesting DEF resetPassword
  <1>2. /\ work[h] \in Local /\ Knows(work[h]) /\ work[h].pc = "save" /\ work[h].token = None
        /\ work[h].op = "resetPassword" /\ work[h].row.status # "absent" /\ work[h].link \in Codes
        /\ UNCHANGED <<otp, blocked, limit, locked, token, index, link, past>>
    BY Requesting DEF resetPassword, Knows, Redis
  <1> DEFINE r == [status |-> work[h].row.status, password |-> users[u].password + 1,
                   phoneVerified |-> work[h].row.phoneVerified]
             w == [work[h] EXCEPT !.pc = "spend", !.row = NoRow]
  <1>3. users[u] \in User /\ users[u].password \in Nat
    BY DEF IInv, Types, TypeOK, User
  <1>4. users' = [users EXCEPT ![u] = r] /\ work' = [work EXCEPT ![h] = w]
    BY <1>1, <1>2 DEF resetPassword, IInv, Types, TypeOK
  <1>5. r \in User /\ r.status # "absent"
    <2>1. work[h].row.status \in UserStatus /\ work[h].row.phoneVerified \in BOOLEAN
      BY <1>2 DEF Local, Pcs, Row
    <2> QED
      BY <1>2, <1>3, <2>1 DEF User
  <1>6. /\ w \in Local /\ w.pc = "spend" /\ w.op = work[h].op /\ w.user = work[h].user
        /\ w.token = work[h].token /\ w.link = work[h].link
    <2>1. NoRow \in Row /\ "spend" \in Pcs
      BY DEF NoRow, UserStatus, Row, Pcs
    <2> QED
      BY <1>2, <2>1 DEF Local
  <1> HIDE DEF r, w
  <1>7. /\ users' \in [Users -> User] /\ users'[u] = r
        /\ \A v \in Users : v # u => users'[v] = users[v]
    BY <1>4, <1>5 DEF IInv, Types, TypeOK
  <1>8. RowsStay
    BY <1>5, <1>7 DEF RowsStay, Exists
  <1>9. /\ Knows(w) /\ ~NeedsRow(w) /\ ~Carries(w) /\ Resetting(w, u)
        /\ \A v : ~Resetting(work[h], v)
    BY <1>1, <1>2, <1>6 DEF Knows, NeedsRow, Carries, Resetting
  <1>10. work' \in [Handlers -> Local] /\ work'[h] = w /\ \A g \in Handlers : g # h => work'[g] = work[g]
    BY <1>4, <1>6 DEF IInv, Types, TypeOK
  <1>11. Types'
    BY <1>2, <1>7, <1>9, <1>10 DEF IInv, Types, TypeOK
  <1>12. PresentOK'
    <2>1. \A g \in Handlers : NeedsRow(work'[g]) => NeedsRow(work[g]) /\ work'[g].user = work[g].user
      BY <1>9, <1>10
    <2> QED
      BY <1>2, <1>8, <2>1, PresentFrame DEF IInv
  <1>13. PasswordsOK'
    <2>1. InReset(u)'
      BY <1>9, <1>10 DEF InReset
    <2>2. \A v : InReset(v) => InReset(v)'
      BY <1>9, <1>10 DEF InReset
    <2>3. ASSUME NEW t \in Tokens PROVE SessionFresh(t)'
      <3>1. SessionFresh(t) /\ (token[t].state = "live" => token[t].user \in Users)
        BY DEF IInv, PasswordsOK, PresentOK, Exists
      <3>2. CASE token[t].user = u
        BY <1>2, <2>1, <3>2 DEF SessionFresh
      <3>3. CASE token[t].user # u
        BY <1>2, <1>7, <2>2, <3>1, <3>3 DEF SessionFresh
      <3> QED
        BY <3>2, <3>3
    <2>4. ASSUME NEW g \in Handlers PROVE RequestFresh(g)'
      <3> SUFFICES ASSUME g # h, Carries(work[g]) PROVE RequestFresh(g)'
        BY <1>9, <1>10 DEF RequestFresh
      <3>1. RequestFresh(g) /\ work[g].user \in Users /\ work'[g] = work[g]
        BY <1>10 DEF IInv, PasswordsOK, PresentOK, Exists, Carries, NeedsRow
      <3>2. CASE work[g].user = u
        BY <2>1, <3>1, <3>2 DEF RequestFresh
      <3>3. CASE work[g].user # u
        BY <1>2, <1>7, <2>2, <3>1, <3>3 DEF RequestFresh
      <3> QED
        BY <3>2, <3>3
    <2> QED
      BY <2>3, <2>4 DEF PasswordsOK
  <1>14. TokensOK'
    <2>1. w.token \notin Tokens /\ \A t \in Tokens : ~Holding(w, t)
      BY <1>2, <1>6, Numbers DEF Holding
    <2>2. /\ \A g \in Handlers : work'[g].token \in Tokens => work'[g] = work[g]
          /\ \A g \in Handlers, t \in Tokens : Holding(work'[g], t) => work'[g] = work[g]
      BY <1>10, <2>1
    <2> QED
      BY <1>2, <2>2, TokensFrame DEF IInv
  <1>15. CodesOK'
    <2>1. \A g \in Handlers : work'[g].pc = "answer" => work'[g] = work[g]
      BY <1>6, <1>10
    <2> QED
      BY <1>2, <2>1, CodesFrame DEF IInv
  <1>16. CounterExpires'
    BY <1>2, <1>10, CountersFrame DEF IInv
  <1> QED
    BY <1>11, <1>12, <1>13, <1>14, <1>15, <1>16 DEF IInv

\* Keys go on their own.
LEMMA KeyStep ==
  ASSUME IInv, UNCHANGED <<users, index, work, past>>,
         otp' \in [Users -> Otp \cup {NoOtp}], blocked' \in [Users -> BOOLEAN],
         limit' \in [Users -> [Counters -> Counter]], locked' \in [Users -> [Counters -> BOOLEAN]],
         token' \in [Tokens -> Token], link' \in [Codes -> Link],
         \A u \in Users : otp'[u] = otp[u] \/ otp'[u] = NoOtp,
         \A u \in Users, k \in Counters : limit'[u][k] = limit[u][k] \/ limit'[u][k].n = 0,
         \A t \in Tokens : token'[t] = token[t] \/ token'[t] = [token[t] EXCEPT !.state = "gone"],
         \A k \in Codes : link'[k].state = "live" => link'[k] = link[k]
  PROVE  IInv'
  <1>1. Types'
    BY DEF IInv, Types, TypeOK
  <1>2. \A t \in Tokens : /\ token'[t].parent = token[t].parent
                          /\ token'[t].state = "live" => token'[t] = token[t]
                          /\ token[t].state # "unused" => token'[t].state # "unused"
    BY DEF IInv, Types, TypeOK, Token
  <1>3. PresentOK'
    <2>1. RowsStay
      BY DEF RowsStay, Exists
    <2> QED
      BY <1>2, <2>1, PresentFrame DEF IInv
  <1>4. PasswordsOK'
    BY <1>2, PasswordsFrame DEF IInv
  <1>5. TokensOK'
    BY <1>2, TokensFrame DEF IInv
  <1>6. CodesOK'
    BY CodesFrame DEF IInv
  <1>7. CounterExpires'
    <2> SUFFICES ASSUME NEW u \in Users, NEW k \in Counters,
                        limit'[u][k].n > 0, ~limit'[u][k].expires
                 PROVE  \/ <<u, k>> \in past'.stuck
                        \/ \E h \in Handlers : At(h, "expire")' /\ work'[h].user = u /\ work'[h].counter = k
      BY DEF CounterExpires
    <2>1. limit'[u][k] = limit[u][k]
      OBVIOUS
    <2>2. limit[u][k].n > 0 /\ ~limit[u][k].expires
      BY <2>1
    <2>3. CounterExpires
      BY DEF IInv
    <2>4. \/ <<u, k>> \in past.stuck
          \/ \E h \in Handlers : At(h, "expire") /\ work[h].user = u /\ work[h].counter = k
      BY <2>2, <2>3, ZenonT(60) DEF CounterExpires
    <2>5. \A h \in Handlers : At(h, "expire") => At(h, "expire")'
      BY DEF At
    <2> QED
      BY <2>4, <2>5
  <1> QED
    BY <1>1, <1>3, <1>4, <1>5, <1>6, <1>7 DEF IInv

\* The keys of a user expire.
LEMMA KeyExpiresInv == ASSUME IInv, NEW u \in Users, KeyExpires(u) PROVE IInv'
  <1>1. UNCHANGED <<users, index, work, past>>
    BY DEF KeyExpires
  <1>2. TypeOK
    BY DEF IInv, Types
  <1>3. CASE otp' = [otp EXCEPT ![u] = NoOtp] /\ UNCHANGED <<blocked, limit, locked, token, link>>
    BY <1>1, <1>2, <1>3, KeyStep DEF TypeOK
  <1>4. CASE blocked' = [blocked EXCEPT ![u] = FALSE] /\ UNCHANGED <<otp, limit, locked, token, link>>
    BY <1>1, <1>2, <1>4, KeyStep DEF TypeOK
  <1>5. ASSUME NEW k \in Counters, limit' = [limit EXCEPT ![u][k] = [n |-> 0, expires |-> FALSE]],
               UNCHANGED <<otp, blocked, locked, token, link>>
        PROVE  IInv'
    <2> DEFINE c == [n |-> 0, expires |-> FALSE]
    <2>1. c \in Counter /\ c.n = 0
      BY DEF Counter
    <2> HIDE DEF c
    <2>2. limit' = [limit EXCEPT ![u] = [limit[u] EXCEPT ![k] = c]]
      BY <1>2, <1>5 DEF c, TypeOK
    <2>3. /\ limit' \in [Users -> [Counters -> Counter]]
          /\ \A v \in Users, d \in Counters : limit'[v][d] = limit[v][d] \/ limit'[v][d].n = 0
      BY <1>2, <2>1, <2>2 DEF TypeOK
    <2> QED
      BY <1>1, <1>2, <1>5, <2>3, KeyStep DEF TypeOK
  <1>6. ASSUME NEW k \in Counters, locked' = [locked EXCEPT ![u][k] = FALSE],
               UNCHANGED <<otp, blocked, limit, token, link>>
        PROVE  IInv'
    <2>1. locked' \in [Users -> [Counters -> BOOLEAN]]
      BY <1>2, <1>6 DEF TypeOK
    <2> QED
      BY <1>1, <1>2, <1>6, <2>1, KeyStep DEF TypeOK
  <1>7. ASSUME NEW t \in Tokens, token' = [token EXCEPT ![t].state = "gone"],
               UNCHANGED <<otp, blocked, limit, locked, link>>
        PROVE  IInv'
    <2> DEFINE r == [token[t] EXCEPT !.state = "gone"]
    <2>1. r \in Token
      BY <1>2 DEF TypeOK, Token
    <2>2. token' = [token EXCEPT ![t] = r]
      BY <1>7
    <2>3. token' \in [Tokens -> Token] /\ \A s \in Tokens : token'[s] = token[s] \/ (s = t /\ token'[s] = r)
      BY <1>2, <2>1, <2>2 DEF TypeOK
    <2> QED
      BY <1>1, <1>2, <1>7, <2>3, KeyStep DEF TypeOK
  <1>8. ASSUME NEW k \in Codes, link' = [link EXCEPT ![k].state = "gone"],
               UNCHANGED <<otp, blocked, limit, locked, token>>
        PROVE  IInv'
    <2> DEFINE r == [link[k] EXCEPT !.state = "gone"]
    <2>1. r \in Link /\ r.state = "gone"
      BY <1>2 DEF TypeOK, Link
    <2>2. link' = [link EXCEPT ![k] = r]
      BY <1>8
    <2> HIDE DEF r
    <2>3. link' \in [Codes -> Link] /\ \A j \in Codes : link'[j].state = "live" => link'[j] = link[j]
      BY <1>2, <2>1, <2>2 DEF TypeOK
    <2> QED
      BY <1>1, <1>2, <1>8, <2>3, KeyStep DEF TypeOK
  <1> QED
    BY <1>3, <1>4, <1>5, <1>6, <1>7, <1>8 DEF KeyExpires

-----------------------------------------------------------------------------
(* Refresh tokens *)

\* A new pair is issued: its token is new, and the token it replaces had one holder, which
\* had deleted it.
LEMMA IssueTokenPairInv == ASSUME IInv, NEW h \in Handlers, issueTokenPair(h) PROVE IInv'
  <1> DEFINE w == work[h]
  <1>1. /\ w \in Local /\ Knows(w) /\ w.pc = "set" /\ w.user \in Users /\ Exists(w.user)
        /\ w.token \in Tokens => w.op = "refresh"
    <2>1. NeedsRow(w)
      BY DEF issueTokenPair, At, NeedsRow
    <2> QED
      BY <2>1, Requesting, Numbers DEF issueTokenPair, Knows
  <1>2. PICK t \in Tokens, s \in {"gone", "live"} :
           /\ token[t] = Unused
           /\ token' = [token EXCEPT ![t] = [state |-> s, user |-> w.user, parent |-> w.token,
                                             password |-> w.password]]
           /\ past' = [past EXCEPT !.raced = IF w.raced \/ w.token \in @ THEN @ \cup {t} ELSE @]
           /\ work' = [work EXCEPT ![h].pc = "add", ![h].token = t]
           /\ UNCHANGED <<users, otp, blocked, limit, locked, index, link>>
    BY DEF issueTokenPair
  <1> DEFINE r == [state |-> s, user |-> w.user, parent |-> w.token, password |-> w.password]
             x == [w EXCEPT !.pc = "add", !.token = t]
  <1>3. r \in Token /\ r.state = s /\ r.user = w.user /\ r.parent = w.token /\ r.password = w.password
    BY <1>1 DEF Token, Local, Pcs, Row
  <1>4. /\ x \in Local /\ x.pc = "add" /\ x.token = t /\ x.user = w.user
    BY <1>1, <1>2 DEF Local, Pcs, Row
  <1>5. token' = [token EXCEPT ![t] = r] /\ work' = [work EXCEPT ![h] = x]
    BY <1>1, <1>2 DEF IInv, Types, TypeOK
  <1> HIDE DEF r, x
  <1>6. Knows(x) /\ ~NeedsRow(x) /\ ~Carries(x) /\ (\A u : ~Resetting(w, u)) /\ \A u : ~Holding(x, u)
    BY <1>1, <1>4 DEF Knows, NeedsRow, Carries, Resetting, Holding
  <1>7. /\ token' \in [Tokens -> Token] /\ token'[t] = r /\ \A u \in Tokens : u # t => token'[u] = token[u]
    BY <1>3, <1>5 DEF IInv, Types, TypeOK
  <1>8. work' \in [Handlers -> Local] /\ work'[h] = x /\ \A g \in Handlers : g # h => work'[g] = work[g]
    BY <1>4, <1>5 DEF IInv, Types, TypeOK
  <1>9. /\ past'.sent = past.sent /\ past'.wrong = past.wrong /\ past'.used = past.used
        /\ past'.mixed = past.mixed /\ past'.shared = past.shared /\ past'.stuck = past.stuck
        /\ past'.raced = IF w.raced \/ w.token \in past.raced THEN past.raced \cup {t} ELSE past.raced
    BY <1>2, PastTyped DEF History
  <1>10. past' \in History
    <2>1. past.raced \cup {t} \in SUBSET Tokens /\ past.raced \in SUBSET Tokens
      BY PastTyped
    <2>2. past' = [past EXCEPT !.raced = past'.raced] /\ past'.raced \in SUBSET Tokens
      BY <1>2, <1>9, <2>1
    <2> QED
      BY <2>2, PastTyped DEF History
  <1>11. Types'
    BY <1>2, <1>6, <1>7, <1>8, <1>10 DEF IInv, Types, TypeOK
  <1>12. PresentOK'
    <2>1. RowsStay
      BY <1>2 DEF RowsStay, Exists
    <2> QED
      BY <1>1, <1>2, <1>3, <1>6, <1>7, <1>8, <2>1, PresentFrame DEF IInv
  <1>13. PasswordsOK'
    <2>1. \A u : InReset(u) => InReset(u)'
      BY <1>6, <1>8 DEF InReset
    <2>2. past.raced \subseteq past'.raced /\ (w.raced \/ w.token \in past.raced => t \in past'.raced)
      BY <1>9
    <2>3. ASSUME NEW u \in Tokens PROVE SessionFresh(u)'
      <3>1. CASE u = t
        <4>1. RequestFresh(h)
          BY DEF IInv, PasswordsOK
        <4> QED
          BY <1>1, <1>2, <1>3, <1>7, <2>1, <2>2, <3>1, <4>1 DEF RequestFresh, SessionFresh, Carries
      <3>2. CASE u # t
        BY <1>2, <1>7, <2>1, <2>2, <3>2 DEF IInv, PasswordsOK, SessionFresh
      <3> QED
        BY <3>1, <3>2
    <2>4. ASSUME NEW g \in Handlers PROVE RequestFresh(g)'
      <3>1. CASE g = h
        BY <1>6, <1>8, <3>1 DEF RequestFresh
      <3>2. CASE g # h
        BY <1>2, <1>8, <2>1, <2>2, <3>2 DEF IInv, PasswordsOK, RequestFresh
      <3> QED
        BY <3>1, <3>2
    <2> QED
      BY <2>3, <2>4 DEF PasswordsOK
  <1>14. TokensOK'
    <2>1. token[t].state = "unused"
      BY <1>2 DEF Unused
    <2>2. \A g \in Handlers : work[g].token # t
      BY <2>1 DEF IInv, TokensOK
    <2>3. \A u \in Tokens : token[u].parent # t
      BY <2>1 DEF IInv, TokensOK
    <2>4. \A u \in Tokens : token[u].state # "unused" => token'[u].state # "unused"
      BY <1>2, <1>3, <1>7
    <2>5. \A g \in Handlers : work'[g].token \in Tokens => token'[work'[g].token].state # "unused"
      <3>1. token'[t].state # "unused"
        BY <1>2, <1>3, <1>7
      <3> QED
        BY <1>4, <1>8, <2>4, <3>1 DEF IInv, TokensOK
    <2>6. \A u \in Tokens : token'[u].parent \in Tokens => token'[token'[u].parent].state # "unused"
      <3>1. \A u \in Tokens : u # t => token'[u].parent = token[u].parent
        BY <1>7
      <3>2. w.token \in Tokens => token[w.token].state # "unused"
        BY DEF IInv, TokensOK
      <3>3. token'[t].parent = w.token
        BY <1>3, <1>7
      <3> QED
        BY <2>4, <3>1, <3>2, <3>3 DEF IInv, TokensOK
    <2>7. ASSUME NEW u \in Tokens \ past'.shared PROVE OneHolder(u)'
      <3>1. \A g \in Handlers : Holding(work'[g], u) => Holding(work[g], u) /\ work'[g] = work[g] /\ g # h
        BY <1>6, <1>8
      <3>2. CASE u = t
        <4>1. \A g \in Handlers : ~Holding(work'[g], u)
          BY <2>2, <3>1, <3>2 DEF Holding
        <4>2. \A v \in Tokens : token'[v].parent # u
          BY <1>3, <1>7, <2>2, <2>3, <3>2
        <4> QED
          BY <4>1, <4>2 DEF OneHolder
      <3>3. CASE u # t
        <4>1. OneHolder(u) /\ token'[u] = token[u]
          BY <1>7, <1>9, <3>3 DEF IInv, TokensOK
        <4>2. w.token = u =>
                 /\ Holding(w, u) /\ token[u].state # "live"
                 /\ \A g \in Handlers : g # h => ~Holding(work[g], u)
                 /\ \A v \in Tokens : token[v].parent # u
          BY <1>1, <4>1 DEF OneHolder, Holding
        <4>3. \A v \in Tokens : token'[v].parent = u => (v = t /\ w.token = u) \/ (v # t /\ token[v].parent = u)
          BY <1>3, <1>7
        <4>4. \A g, i \in Handlers : Holding(work'[g], u) /\ Holding(work'[i], u) => g = i
          BY <3>1, <4>1 DEF OneHolder
        <4>5. \A g \in Handlers : Holding(work'[g], u) /\ token'[u].state = "live" => work'[g].pc = "delete"
          BY <3>1, <4>1 DEF OneHolder
        <4>6. \A v \in Tokens : token'[v].parent = u =>
                 token'[u].state # "live" /\ \A g \in Handlers : ~Holding(work'[g], u)
          BY <3>1, <4>1, <4>2, <4>3 DEF OneHolder
        <4>7. \A v, z \in Tokens : token'[v].parent = u /\ token'[z].parent = u => v = z
          BY <4>1, <4>2, <4>3 DEF OneHolder
        <4> QED
          BY <4>4, <4>5, <4>6, <4>7 DEF OneHolder
      <3> QED
        BY <3>2, <3>3
    <2> QED
      BY <2>5, <2>6, <2>7 DEF TokensOK
  <1>15. CodesOK'
    <2>1. \A g \in Handlers : work'[g].pc = "answer" => work'[g] = work[g]
      BY <1>4, <1>8
    <2> QED
      BY <1>2, <1>9, <2>1, CodesFrame DEF IInv
  <1>16. CounterExpires'
    BY <1>1, <1>2, <1>8, <1>9, CountersFrame DEF IInv
  <1> QED
    BY <1>11, <1>12, <1>13, <1>14, <1>15, <1>16 DEF IInv

\* A live token is read: who had read it too shares it, and otherwise nobody holds it.
LEMMA ReadTokenInv == ASSUME IInv, NEW h \in Handlers, NEW t \in Tokens, readToken(h, t) PROVE IInv'
  <1>1. PICK op \in {"refresh", "logout"} :
           /\ token[t].state = "live"
           /\ Receive(h, [Idle EXCEPT !.op = op, !.user = token[t].user, !.pc = "delete",
                                      !.token = t, !.password = token[t].password])
    BY DEF readToken
  <1>2. /\ UNCHANGED <<users, otp, blocked, limit, locked, token, index, link>>
        /\ past' = IF \E g \in Handlers : At(g, "delete") /\ work[g].token = t
                   THEN [past EXCEPT !.shared = @ \cup {t}] ELSE past
    BY DEF readToken, Redis
  <1>3. PICK u \in Users, p \in Nat : u = token[t].user /\ p = token[t].password /\ Exists(u)
    BY <1>1 DEF IInv, PresentOK, Exists, Types, TypeOK, Token
  <1> DEFINE w == [Idle EXCEPT !.op = op, !.user = u, !.pc = "delete", !.token = t, !.password = p]
  <1>4. /\ w \in Local /\ w.pc = "delete" /\ w.op = op /\ w.user = u /\ w.token = t /\ w.password = p
    <2>1. op \in Operations /\ "delete" \in Pcs
      BY DEF Operations, Pcs
    <2> QED
      BY <2>1, IdleOK DEF Local
  <1>5. work' = [work EXCEPT ![h] = w] /\ work[h].pc = "idle"
    BY <1>1, <1>3 DEF Receive, At
  <1> HIDE DEF w
  <1>6. /\ Knows(w) /\ (\A v : ~Resetting(work[h], v)) /\ \A v : ~Holding(work[h], v)
        /\ \A v : Holding(w, v) => v = t
    BY <1>4, <1>5 DEF Knows, Resetting, Holding
  <1>7. work' \in [Handlers -> Local] /\ work'[h] = w /\ \A g \in Handlers : g # h => work'[g] = work[g]
    BY <1>4, <1>5 DEF IInv, Types, TypeOK
  <1>8. /\ past'.sent = past.sent /\ past'.wrong = past.wrong /\ past'.used = past.used
        /\ past'.mixed = past.mixed /\ past'.stuck = past.stuck /\ past'.raced = past.raced
        /\ past.shared \subseteq past'.shared
        /\ (\E g \in Handlers : work[g].pc = "delete" /\ work[g].token = t) => t \in past'.shared
        /\ past' \in History
    <2>1. CASE past' = [past EXCEPT !.shared = @ \cup {t}]
      BY <2>1, PastTyped DEF History
    <2>2. CASE past' = past /\ ~\E g \in Handlers : work[g].pc = "delete" /\ work[g].token = t
      BY <2>2, PastTyped
    <2> QED
      BY <1>2, <2>1, <2>2 DEF At
  <1>9. Types'
    BY <1>2, <1>6, <1>7, <1>8 DEF IInv, Types, TypeOK
  <1>10. PresentOK'
    <2>1. RowsStay
      BY <1>2 DEF RowsStay, Exists
    <2>2. Exists(u)'
      BY <1>2, <1>3 DEF Exists
    <2>3. \A g \in Handlers : NeedsRow(work'[g]) =>
             (NeedsRow(work[g]) /\ work'[g].user = work[g].user) \/ Exists(work'[g].user)
      BY <1>3, <1>4, <1>7
    <2> QED
      BY <1>2, <2>1, <2>3, PresentFrame DEF IInv
  <1>11. PasswordsOK'
    <2>1. \A v : InReset(v) => InReset(v)'
      BY <1>6, <1>7 DEF InReset
    <2>2. \A s \in Tokens : SessionFresh(s)'
      BY <1>2, <1>8, <2>1 DEF IInv, PasswordsOK, SessionFresh
    <2>3. ASSUME NEW g \in Handlers PROVE RequestFresh(g)'
      <3>1. CASE g = h
        <4>1. SessionFresh(t)
          BY DEF IInv, PasswordsOK
        <4> QED
          BY <1>1, <1>2, <1>3, <1>4, <1>7, <1>8, <2>1, <3>1, <4>1 DEF SessionFresh, RequestFresh
      <3>2. CASE g # h
        BY <1>2, <1>7, <1>8, <2>1, <3>2 DEF IInv, PasswordsOK, RequestFresh
      <3> QED
        BY <3>1, <3>2
    <2> QED
      BY <2>2, <2>3 DEF PasswordsOK
  <1>12. TokensOK'
    <2>1. \A g \in Handlers : work'[g].token \in Tokens => token'[work'[g].token].state # "unused"
      BY <1>1, <1>2, <1>4, <1>7 DEF IInv, TokensOK
    <2>2. \A r \in Tokens : token'[r].parent \in Tokens => token'[token'[r].parent].state # "unused"
      BY <1>2 DEF IInv, TokensOK
    <2>3. ASSUME NEW s \in Tokens \ past'.shared PROVE OneHolder(s)'
      <3>1. OneHolder(s) /\ token' = token
        BY <1>2, <1>8 DEF IInv, TokensOK
      <3>2. CASE s = t
        <4>1. \A g \in Handlers : ~Holding(work[g], t)
          BY <1>1, <1>8, <2>3, <3>1, <3>2 DEF OneHolder, Holding
        <4>2. \A g \in Handlers : Holding(work'[g], t) => g = h
          BY <1>7, <4>1
        <4>3. \A r \in Tokens : token[r].parent # t
          BY <1>1, <3>1, <3>2 DEF OneHolder
        <4> QED
          BY <1>4, <1>7, <3>1, <3>2, <4>2, <4>3 DEF OneHolder
      <3>3. CASE s # t
        <4>1. \A g \in Handlers : Holding(work'[g], s) => Holding(work[g], s) /\ work'[g] = work[g]
          BY <1>6, <1>7, <3>3
        <4> QED
          BY <3>1, <4>1 DEF OneHolder
      <3> QED
        BY <3>2, <3>3
    <2> QED
      BY <2>1, <2>2, <2>3 DEF TokensOK
  <1>13. CodesOK'
    <2>1. \A g \in Handlers : work'[g].pc = "answer" => work'[g] = work[g]
      BY <1>4, <1>7
    <2> QED
      BY <1>2, <1>8, <2>1, CodesFrame DEF IInv
  <1>14. CounterExpires'
    BY <1>2, <1>5, <1>7, <1>8, CountersFrame DEF IInv
  <1> QED
    BY <1>9, <1>10, <1>11, <1>12, <1>13, <1>14 DEF IInv

\* A token is deleted, or shared from now on.
LEMMA DeleteTokenInv == ASSUME IInv, NEW h \in Handlers, deleteToken(h) PROVE IInv'
  <1>1. /\ work[h] \in Local /\ Knows(work[h]) /\ work[h].pc = "delete" /\ work[h].user \in Users
    BY Requesting DEF deleteToken
  <1>2. PICK t \in Tokens : t = work[h].token
    BY <1>1 DEF Knows
  <1> DEFINE w == [work[h] EXCEPT !.pc = "remove"]
             r == [token[t] EXCEPT !.state = "gone"]
  <1>3. PICK lost \in BOOLEAN :
           /\ token' = IF lost THEN token ELSE [token EXCEPT ![t] = r]
           /\ past' = IF lost THEN [past EXCEPT !.shared = @ \cup {t}, !.raced = @ \cup {t}] ELSE past
           /\ work' = [work EXCEPT ![h] = w]
           /\ UNCHANGED <<users, otp, blocked, limit, locked, index, link>>
    BY <1>2 DEF deleteToken, Goto
  <1>4. /\ w \in Local /\ w.pc = "remove" /\ w.op = work[h].op /\ w.user = work[h].user
        /\ w.token = work[h].token /\ w.password = work[h].password /\ w.raced = work[h].raced
    BY <1>1, GotoRecord
  <1>5. /\ r \in Token /\ r.state = "gone" /\ r.parent = token[t].parent
    BY DEF IInv, Types, TypeOK, Token
  <1> HIDE DEF w, r
  <1>6. /\ Knows(w) /\ NeedsRow(work[h]) /\ Carries(work[h]) /\ (\A v : ~Resetting(work[h], v))
        /\ \A v : Holding(w, v) => Holding(work[h], v) /\ v = t
    BY <1>1, <1>2, <1>4 DEF Knows, NeedsRow, Carries, Resetting, Holding
  <1>7. /\ token' \in [Tokens -> Token] /\ (lost => token' = token) /\ (~lost => token'[t] = r)
        /\ \A s \in Tokens : s # t => token'[s] = token[s]
    BY <1>3, <1>5 DEF IInv, Types, TypeOK
  <1>8. work' \in [Handlers -> Local] /\ work'[h] = w /\ \A g \in Handlers : g # h => work'[g] = work[g]
    BY <1>3, <1>4 DEF IInv, Types, TypeOK
  <1>9. /\ past'.sent = past.sent /\ past'.wrong = past.wrong /\ past'.used = past.used
        /\ past'.mixed = past.mixed /\ past'.stuck = past.stuck
        /\ past.raced \subseteq past'.raced /\ past.shared \subseteq past'.shared
        /\ lost => t \in past'.shared
        /\ past' \in History
    <2>1. CASE past' = [past EXCEPT !.shared = @ \cup {t}, !.raced = @ \cup {t}]
      BY <2>1, PastTyped DEF History
    <2>2. CASE past' = past /\ ~lost
      BY <2>2, PastTyped
    <2> QED
      BY <1>3, <2>1, <2>2
  <1>10. Types'
    BY <1>3, <1>6, <1>7, <1>8, <1>9 DEF IInv, Types, TypeOK
  <1>11. \A s \in Tokens : /\ token'[s].parent = token[s].parent
                           /\ token'[s].state = "live" => token'[s] = token[s]
                           /\ token[s].state # "unused" => token'[s].state # "unused"
    BY <1>5, <1>7
  <1>12. PresentOK'
    <2>1. RowsStay
      BY <1>3 DEF RowsStay, Exists
    <2>2. \A g \in Handlers : NeedsRow(work'[g]) => NeedsRow(work[g]) /\ work'[g].user = work[g].user
      BY <1>4, <1>6, <1>8
    <2> QED
      BY <1>3, <1>11, <2>1, <2>2, PresentFrame DEF IInv
  <1>13. PasswordsOK'
    <2>1. \A g \in Handlers : \A v : Resetting(work[g], v) => Resetting(work'[g], v)
      BY <1>6, <1>8
    <2>2. \A g \in Handlers : Carries(work'[g]) =>
            /\ Carries(work[g]) /\ work'[g].password = work[g].password
            /\ work'[g].user = work[g].user /\ work'[g].token = work[g].token
            /\ work[g].raced => work'[g].raced
            /\ users'[work[g].user].password = users[work[g].user].password
      BY <1>3, <1>4, <1>6, <1>8
    <2> QED
      BY <1>3, <1>9, <1>11, <2>1, <2>2, PasswordsFrame DEF IInv
  <1>14. TokensOK'
    <2>1. \A g \in Handlers : work'[g].token \in Tokens => work'[g].token = work[g].token
      BY <1>4, <1>8
    <2>2. ASSUME NEW g \in Handlers, NEW s \in Tokens, Holding(work'[g], s)
          PROVE  /\ Holding(work[g], s)
                 /\ \/ work[g].pc = "delete" => work'[g].pc = "delete"
                    \/ token'[s].state # "live"
                    \/ s \in past'.shared
      <3>1. CASE g = h
        BY <1>5, <1>6, <1>7, <1>8, <1>9, <2>2, <3>1
      <3>2. CASE g # h
        BY <1>8, <2>2, <3>2
      <3> QED
        BY <3>1, <3>2
    <2> QED
      BY <1>9, <1>11, <2>1, <2>2, TokensFrame DEF IInv
  <1>15. CodesOK'
    <2>1. \A g \in Handlers : work'[g].pc = "answer" => work'[g] = work[g]
      BY <1>4, <1>8
    <2> QED
      BY <1>3, <1>9, <2>1, CodesFrame DEF IInv
  <1>16. CounterExpires'
    BY <1>1, <1>3, <1>8, <1>9, CountersFrame DEF IInv
  <1> QED
    BY <1>10, <1>12, <1>13, <1>14, <1>15, <1>16 DEF IInv

-----------------------------------------------------------------------------
(* The end of all sessions, and of a request that fails *)

\* A request after a revocation has met it.
Alike(x, w) ==
    /\ x.pc = w.pc /\ x.op = w.op /\ x.user = w.user /\ x.counter = w.counter /\ x.otp = w.otp
    /\ x.token = w.token /\ x.link = w.link /\ x.password = w.password /\ x.row = w.row
    /\ w.raced => x.raced

\* The requests after one of them, h, met the others.
LEMMA RacedOthers ==
  ASSUME IInv, NEW h \in Handlers, NEW x \in Local, NEW S,
         work' = [g \in Handlers |-> work'[g]], work'[h] = x,
         \A g \in Handlers : g # h =>
            work'[g] = IF g \in S THEN [work[g] EXCEPT !.raced = TRUE] ELSE work[g]
  PROVE  /\ work' \in [Handlers -> Local]
         /\ \A g \in Handlers : g # h => Alike(work'[g], work[g])
         /\ \A g \in Handlers : g # h /\ g \in S => work'[g].raced
  <1>1. ASSUME NEW g \in Handlers
        PROVE  /\ [work[g] EXCEPT !.raced = TRUE] \in Local /\ [work[g] EXCEPT !.raced = TRUE].raced
               /\ Alike([work[g] EXCEPT !.raced = TRUE], work[g])
    <2>1. work[g] \in Local
      BY DEF IInv, Types, TypeOK
    <2> DEFINE y == [work[g] EXCEPT !.raced = TRUE]
    <2>2. y \in Local /\ y.raced
      <3>1. \A z \in Local : [z EXCEPT !.raced = TRUE] \in Local /\ [z EXCEPT !.raced = TRUE].raced
        BY DEF Local
      <3> QED
        BY <2>1, <3>1
    <2>3. /\ y.pc = work[g].pc /\ y.op = work[g].op /\ y.user = work[g].user
          /\ y.counter = work[g].counter /\ y.otp = work[g].otp
      BY <2>1 DEF Local
    <2>4. /\ y.token = work[g].token /\ y.link = work[g].link /\ y.password = work[g].password
          /\ y.row = work[g].row
      BY <2>1 DEF Local
    <2> HIDE DEF y
    <2>5. Alike(y, work[g])
      BY <2>2, <2>3, <2>4 DEF Alike
    <2> QED
      BY <2>2, <2>5 DEF y
  <1>2. ASSUME NEW g \in Handlers PROVE work[g] \in Local /\ Alike(work[g], work[g])
    BY DEF IInv, Types, TypeOK, Alike
  <1>3. \A g \in Handlers : g # h => work'[g] \in Local /\ Alike(work'[g], work[g])
    BY <1>1, <1>2
  <1>4. \A g \in Handlers : g # h /\ g \in S => work'[g].raced
    BY <1>1
  <1>5. work' \in [Handlers -> Local]
    BY <1>3
  <1> QED
    BY <1>3, <1>4, <1>5

\* A request ends, or goes on to end the sessions it has listed: a reset of u is over only
\* when every session of u is ended or met, and so is every request for u.
LEMMA RaceStep ==
  ASSUME IInv, NEW h \in Handlers, NEW x \in Local, Knows(x), ~NeedsRow(x), ~Carries(x),
         x.token = None, x.pc # "answer", work' \in [Handlers -> Local], work'[h] = x,
         \A g \in Handlers : g # h => Alike(work'[g], work[g]),
         UNCHANGED <<users, otp, blocked, limit, locked, link>>,
         index' \in [Users -> SUBSET Tokens], token' \in [Tokens -> Token],
         \A t \in Tokens : token'[t] = token[t] \/ token'[t] = [token[t] EXCEPT !.state = "gone"],
         past' \in History, past'.sent = past.sent, past'.wrong = past.wrong, past'.used = past.used,
         past'.mixed = past.mixed, past'.shared = past.shared, past.raced \subseteq past'.raced,
         \/ \A u : Resetting(work[h], u) => Resetting(x, u)
         \/ /\ \A t \in Tokens : token'[t].state = "live" /\ token[t].user = work[h].user => t \in past'.raced
            /\ \A g \in Handlers : g # h /\ work[g].user = work[h].user => work'[g].raced,
         CounterExpires'
  PROVE  IInv'
  <1>1. Types'
    <2>1. \A g \in Handlers : Knows(work'[g])
      BY DEF IInv, Types, Knows, Alike
    <2> QED
      BY <2>1 DEF IInv, Types, TypeOK
  <1>2. \A t \in Tokens : /\ token'[t].parent = token[t].parent
                          /\ token'[t].state = "live" => token'[t] = token[t]
                          /\ token[t].state # "unused" => token'[t].state # "unused"
    BY DEF IInv, Types, TypeOK, Token
  <1>3. PresentOK'
    <2>1. RowsStay
      BY DEF RowsStay, Exists
    <2>2. \A g \in Handlers : NeedsRow(work'[g]) => NeedsRow(work[g]) /\ work'[g].user = work[g].user
      BY DEF NeedsRow, Alike
    <2> QED
      BY <1>2, <2>1, <2>2, PresentFrame DEF IInv
  <1>4. PasswordsOK'
    <2>1. \A g \in Handlers : \A u : g # h /\ Resetting(work[g], u) => Resetting(work'[g], u)
      BY DEF Resetting, Alike
    <2>2. \A g \in Handlers : Carries(work'[g]) =>
            /\ g # h /\ Carries(work[g]) /\ work'[g].password = work[g].password
            /\ work'[g].user = work[g].user /\ work'[g].token = work[g].token
            /\ work[g].raced => work'[g].raced
            /\ users'[work[g].user].password = users[work[g].user].password
      BY DEF Carries, Alike
    <2>3. CASE \A u : Resetting(work[h], u) => Resetting(x, u)
      <3>1. \A g \in Handlers : \A u : Resetting(work[g], u) => Resetting(work'[g], u)
        BY <2>1, <2>3
      <3> QED
        BY <1>2, <2>2, <3>1, PasswordsFrame DEF IInv
    <2>4. CASE /\ \A t \in Tokens : token'[t].state = "live" /\ token[t].user = work[h].user => t \in past'.raced
               /\ \A g \in Handlers : g # h /\ work[g].user = work[h].user => work'[g].raced
      <3>1. \A u : u # work[h].user /\ InReset(u) => InReset(u)'
        BY <2>1 DEF InReset, Resetting
      <3>2. ASSUME NEW t \in Tokens PROVE SessionFresh(t)'
        BY <1>2, <2>4, <3>1 DEF IInv, PasswordsOK, SessionFresh
      <3>3. ASSUME NEW g \in Handlers PROVE RequestFresh(g)'
        <4> SUFFICES ASSUME Carries(work'[g]) PROVE RequestFresh(g)'
          BY DEF RequestFresh
        <4>1. CASE work[g].user = work[h].user
          BY <2>2, <2>4, <4>1 DEF RequestFresh
        <4>2. CASE work[g].user # work[h].user
          BY <2>2, <3>1, <4>2 DEF IInv, PasswordsOK, RequestFresh
        <4> QED
          BY <4>1, <4>2
      <3> QED
        BY <3>2, <3>3 DEF PasswordsOK
    <2> QED
      BY <2>3, <2>4
  <1>5. TokensOK'
    <2>1. x.token \notin Tokens /\ \A t \in Tokens : ~Holding(x, t)
      BY Numbers DEF Holding
    <2>2. \A g \in Handlers : work'[g].token \in Tokens => work'[g].token = work[g].token
      BY <2>1 DEF Alike
    <2>3. \A g \in Handlers, t \in Tokens : Holding(work'[g], t) =>
             Holding(work[g], t) /\ (work[g].pc = "delete" => work'[g].pc = "delete")
      BY <2>1 DEF Holding, Alike
    <2> QED
      BY <1>2, <2>2, <2>3, TokensFrame DEF IInv
  <1>6. CodesOK'
    <2>1. \A g \in Handlers : work'[g].pc = "answer" =>
             work[g].pc = "answer" /\ work'[g].user = work[g].user /\ work'[g].otp = work[g].otp
      BY DEF Alike
    <2> QED
      BY <2>1, CodesFrame DEF IInv
  <1> QED
    BY <1>1, <1>3, <1>4, <1>5, <1>6 DEF IInv

\* What a revocation leaves in the history, and in the requests.
LEMMA Meets ==
  ASSUME IInv, NEW h \in Handlers, NEW u, u = work[h].user, NEW tokens \in SUBSET Tokens,
         NEW x \in Local, RevokeMeets(h, u, tokens, x)
  PROVE  /\ work' \in [Handlers -> Local] /\ work'[h] = x
         /\ \A g \in Handlers : g # h => Alike(work'[g], work[g])
         /\ \A g \in Handlers : g # h /\ work[g].user = work[h].user => work'[g].raced
         /\ past' \in History /\ past'.sent = past.sent /\ past'.wrong = past.wrong
         /\ past'.used = past.used /\ past'.mixed = past.mixed /\ past'.shared = past.shared
         /\ past'.stuck = past.stuck /\ past'.raced = past.raced \cup tokens
  <1>1. /\ work' \in [Handlers -> Local] /\ work'[h] = x
        /\ \A g \in Handlers : g # h => Alike(work'[g], work[g])
        /\ \A g \in Handlers : g # h /\ g \in Others(h, u) => work'[g].raced
    <2>1. PICK S : S = Others(h, u)
      OBVIOUS
    <2>2. /\ work' = [g \in Handlers |-> work'[g]] /\ work'[h] = x
          /\ \A g \in Handlers : g # h =>
                work'[g] = IF g \in S THEN [work[g] EXCEPT !.raced = TRUE] ELSE work[g]
      BY <2>1 DEF RevokeMeets
    <2>3. /\ work' \in [Handlers -> Local]
          /\ \A g \in Handlers : g # h => Alike(work'[g], work[g])
          /\ \A g \in Handlers : g # h /\ g \in S => work'[g].raced
      BY <2>2, RacedOthers, SMTT(40)
    <2> QED
      BY <2>1, <2>2, <2>3
  <1>2. \A g \in Handlers : g # h /\ work[g].user = u => g \in Others(h, u)
    BY DEF Others
  <1>3. past' = [past EXCEPT !.raced = @ \cup tokens]
    BY DEF RevokeMeets
  <1>4. past.raced \cup tokens \in SUBSET Tokens
    BY PastTyped
  <1> QED
    BY <1>1, <1>2, <1>3, <1>4, PastTyped DEF History

\* The sessions of a user are listed: if there are none in the set, what is live is met.
LEMMA RevokeAllInv == ASSUME IInv, NEW h \in Handlers, revokeAll(h) PROVE IInv'
  <1>1. PICK u \in Users : u = work[h].user
    BY Requesting DEF revokeAll
  <1>2. /\ work[h] \in Local /\ Knows(work[h]) /\ work[h].pc = "list" /\ work[h].token = None
        /\ UNCHANGED <<users, otp, blocked, limit, locked, token, index, link>>
        /\ index[u] \in SUBSET Tokens
    BY Requesting DEF revokeAll, Knows, Redis, IInv, Types, TypeOK
  <1> DEFINE w == [work[h] EXCEPT !.pc = "purge", !.listed = index[u]]
  <1>3. /\ w \in Local /\ w.pc = "purge" /\ w.op = work[h].op /\ w.user = u /\ w.token = None
    <2>1. "purge" \in Pcs
      BY DEF Pcs
    <2> QED
      BY <1>1, <1>2, <2>1 DEF Local
  <1>4. PICK x \in Local :
           /\ x.token = None /\ x.pc \in {"idle", "purge"} /\ Knows(x)
           /\ (index[u] = {}) \/ (\A v : Resetting(work[h], v) => Resetting(x, v))
           /\ RevokeMeets(h, u, Racing(u), x)
    <2>1. CASE index[u] = {}
      BY <1>1, <2>1, IdleOK DEF revokeAll
    <2>2. CASE index[u] # {}
      <3>1. RevokeMeets(h, u, Racing(u), w)
        BY <1>1, <2>2 DEF revokeAll
      <3>2. Knows(w) /\ \A v : Resetting(work[h], v) => Resetting(w, v)
        BY <1>1, <1>3 DEF Knows, Resetting
      <3> HIDE DEF w
      <3> QED
        BY <1>3, <3>1, <3>2
    <2> QED
      BY <2>1, <2>2
  <1>5. Racing(u) \in SUBSET Tokens
    BY DEF Racing
  <1>6. /\ work' \in [Handlers -> Local] /\ work'[h] = x
        /\ \A g \in Handlers : g # h => Alike(work'[g], work[g])
        /\ \A g \in Handlers : g # h /\ work[g].user = work[h].user => work'[g].raced
        /\ past' \in History /\ past'.sent = past.sent /\ past'.wrong = past.wrong
        /\ past'.used = past.used /\ past'.mixed = past.mixed /\ past'.shared = past.shared
        /\ past'.stuck = past.stuck /\ past'.raced = past.raced \cup Racing(u)
    BY <1>1, <1>4, <1>5, Meets
  <1>7. \/ \A v : Resetting(work[h], v) => Resetting(x, v)
        \/ /\ \A t \in Tokens : token'[t].state = "live" /\ token[t].user = work[h].user => t \in past'.raced
           /\ \A g \in Handlers : g # h /\ work[g].user = work[h].user => work'[g].raced
    BY <1>1, <1>2, <1>4, <1>6 DEF Racing
  <1>8. CounterExpires'
    <2>1. \A g \in Handlers : work[g].pc = "expire" =>
            /\ work'[g].pc = "expire" /\ work'[g].user = work[g].user
            /\ work'[g].counter = work[g].counter
      BY <1>2, <1>6 DEF Alike
    <2> QED
      BY <1>2, <1>6, <2>1, CountersFrame DEF IInv
  <1>9. ~NeedsRow(x) /\ ~Carries(x) /\ x.pc # "answer"
    BY <1>4 DEF NeedsRow, Carries
  <1>10. index' \in [Users -> SUBSET Tokens] /\ token' \in [Tokens -> Token] /\ token' = token
    BY <1>2 DEF IInv, Types, TypeOK
  <1> QED
    BY <1>2, <1>4, <1>6, <1>7, <1>8, <1>9, <1>10, RaceStep

\* The listed sessions end; what joined the set since, or was never in it, is met.
LEMMA PurgeInv == ASSUME IInv, NEW h \in Handlers, purge(h) PROVE IInv'
  <1>1. PICK u \in Users : u = work[h].user
    BY Requesting DEF purge
  <1>2. /\ work[h] \in Local /\ work[h].pc = "purge"
        /\ UNCHANGED <<users, otp, blocked, limit, locked, link>>
    BY Requesting DEF purge
  <1> DEFINE S == work[h].listed
             met == Racing(u) \cup (index[u] \ S)
  <1>3. /\ token' = [t \in Tokens |-> IF t \in S THEN [token[t] EXCEPT !.state = "gone"] ELSE token[t]]
        /\ index' = [index EXCEPT ![u] = {}]
        /\ RevokeMeets(h, u, met, Idle)
    BY <1>1 DEF purge
  <1>4. met \in SUBSET Tokens
    BY <1>1 DEF Racing, IInv, Types, TypeOK
  <1> HIDE DEF met
  <1>5. /\ work' \in [Handlers -> Local] /\ work'[h] = Idle
        /\ \A g \in Handlers : g # h => Alike(work'[g], work[g])
        /\ \A g \in Handlers : g # h /\ work[g].user = work[h].user => work'[g].raced
        /\ past' \in History /\ past'.sent = past.sent /\ past'.wrong = past.wrong
        /\ past'.used = past.used /\ past'.mixed = past.mixed /\ past'.shared = past.shared
        /\ past'.stuck = past.stuck /\ past'.raced = past.raced \cup met
    BY <1>1, <1>3, <1>4, IdleOK, Meets
  <1>6. \A t \in Tokens : [token[t] EXCEPT !.state = "gone"] \in Token
                          /\ [token[t] EXCEPT !.state = "gone"].state = "gone" /\ token[t] \in Token
    BY DEF IInv, Types, TypeOK, Token
  <1>7. /\ token' \in [Tokens -> Token]
        /\ \A t \in Tokens : token'[t] = token[t] \/ token'[t] = [token[t] EXCEPT !.state = "gone"]
        /\ \A t \in Tokens : token'[t].state = "live" => t \notin S /\ token'[t] = token[t]
    BY <1>3, <1>6
  <1>8. index' \in [Users -> SUBSET Tokens]
    BY <1>3 DEF IInv, Types, TypeOK
  <1>9. \A t \in Tokens : token'[t].state = "live" /\ token[t].user = work[h].user => t \in past'.raced
    BY <1>1, <1>5, <1>7 DEF met, Racing
  <1>10. CounterExpires'
    <2>1. \A g \in Handlers : work[g].pc = "expire" =>
            /\ work'[g].pc = "expire" /\ work'[g].user = work[g].user
            /\ work'[g].counter = work[g].counter
      BY <1>2, <1>5 DEF Alike
    <2> QED
      BY <1>2, <1>5, <2>1, CountersFrame DEF IInv
  <1>11. past.raced \subseteq past'.raced /\ Idle.pc # "answer"
    BY <1>5, IdleOK
  <1> QED
    BY <1>2, <1>5, <1>7, <1>8, <1>9, <1>10, <1>11, IdleOK, RaceStep

\* A request fails: the counter it was to give an expiry is stuck, the token it was to put
\* in the set has raced, and a reset that is cut short has met all it was to end.
LEMMA FailInv == ASSUME IInv, NEW h \in Handlers, Fail(h) PROVE IInv'
  <1> DEFINE w == work[h]
             cut == w.op = "resetPassword" /\ w.pc # "save"
             S == {g \in Handlers : cut /\ g \in Others(h, w.user)}
  <1>1. /\ w \in Local /\ Knows(w) /\ w.user \in Users /\ w.pc # "idle"
    BY Requesting DEF Fail, At
  <1>2. /\ UNCHANGED <<users, otp, blocked, limit, locked, token, index, link>>
        /\ work' = [g \in Handlers |->
                      IF g = h THEN Idle
                      ELSE IF g \in S THEN [work[g] EXCEPT !.raced = TRUE] ELSE work[g]]
    BY DEF Fail, Redis
  <1>3. PICK s, r :
           /\ past' = [past EXCEPT !.stuck = s, !.raced = r]
           /\ s = IF w.pc = "expire" THEN past.stuck \cup {<<w.user, w.counter>>} ELSE past.stuck
           /\ r = CASE w.pc = "add" -> past.raced \cup {w.token}
                    [] cut -> past.raced \cup {t \in Tokens : token[t].user = w.user}
                    [] OTHER -> past.raced
    BY DEF Fail, At
  <1>4. r \in SUBSET Tokens /\ past.raced \subseteq r /\ s \in SUBSET (Users \X Counters)
    <2>1. w.pc = "add" => w.token \in Tokens
      BY <1>1 DEF Knows
    <2>2. w.counter \in Counters
      BY <1>1 DEF Local, Pcs, Row
    <2> QED
      BY <1>1, <1>3, <2>1, <2>2, PastTyped
  <1>5. /\ past' \in History /\ past'.sent = past.sent /\ past'.wrong = past.wrong
        /\ past'.used = past.used /\ past'.mixed = past.mixed /\ past'.shared = past.shared
        /\ past'.stuck = s /\ past'.raced = r
    BY <1>3, <1>4, PastTyped DEF History
  <1>6. /\ work' \in [Handlers -> Local] /\ work'[h] = Idle
        /\ \A g \in Handlers : g # h => Alike(work'[g], work[g])
        /\ \A g \in Handlers : g # h /\ g \in S => work'[g].raced
    <2> HIDE DEF S
    <2>1. /\ work' = [g \in Handlers |-> work'[g]] /\ work'[h] = Idle
          /\ \A g \in Handlers : g # h =>
                work'[g] = IF g \in S THEN [work[g] EXCEPT !.raced = TRUE] ELSE work[g]
      BY <1>2
    <2> QED
      BY <2>1, IdleOK, RacedOthers
  <1>7. \/ \A v : Resetting(w, v) => Resetting(Idle, v)
        \/ /\ \A t \in Tokens : token'[t].state = "live" /\ token[t].user = w.user => t \in past'.raced
           /\ \A g \in Handlers : g # h /\ work[g].user = w.user => work'[g].raced
    <2>1. CASE cut /\ w.pc # "add"
      <3>1. r = past.raced \cup {t \in Tokens : token[t].user = w.user}
        BY <1>3, <2>1
      <3>2. \A g \in Handlers : g # h /\ work[g].user = w.user => g \in S
        BY <2>1 DEF Others
      <3> QED
        BY <1>5, <1>6, <3>1, <3>2
    <2>2. CASE ~cut \/ w.pc = "add"
      BY <2>2 DEF Resetting
    <2> QED
      BY <2>1, <2>2
  <1>8. CounterExpires'
    <2> SUFFICES ASSUME NEW u \in Users, NEW k \in Counters,
                        limit[u][k].n > 0, ~limit[u][k].expires
                 PROVE  \/ <<u, k>> \in s
                        \/ \E g \in Handlers : /\ work'[g].pc = "expire"
                                               /\ work'[g].user = u /\ work'[g].counter = k
      BY <1>2, <1>5 DEF CounterExpires, At
    <2>1. CASE <<u, k>> \in past.stuck
      BY <1>3, <2>1
    <2>2. ASSUME NEW g \in Handlers, work[g].pc = "expire", work[g].user = u, work[g].counter = k
          PROVE  \/ <<u, k>> \in s
                 \/ work'[g].pc = "expire" /\ work'[g].user = u /\ work'[g].counter = k
      <3>1. CASE g = h
        BY <1>3, <2>2, <3>1
      <3>2. CASE g # h
        BY <1>6, <2>2, <3>2 DEF Alike
      <3> QED
        BY <3>1, <3>2
    <2> QED
      BY <2>1, <2>2 DEF IInv, CounterExpires, At
  <1> HIDE DEF S, cut
  <1>9. /\ past.raced \subseteq past'.raced /\ Idle.pc # "answer"
        /\ index' \in [Users -> SUBSET Tokens] /\ token' \in [Tokens -> Token] /\ token' = token
    BY <1>2, <1>4, <1>5, IdleOK DEF IInv, Types, TypeOK
  <1> QED
    BY <1>2, <1>5, <1>6, <1>7, <1>8, <1>9, IdleOK, RaceStep

-----------------------------------------------------------------------------
(* The invariant, and what it shows *)

\* At the start the users that have verified their phone have one session each, under the
\* password of now, and nothing is in progress.
LEMMA InitInv == Init => IInv
  <1> SUFFICES
        ASSUME NEW Open \in SUBSET Users, NEW session \in [Open -> Tokens],
               users = [u \in Users |-> IF u \in Open
                          THEN [status |-> "active", phoneVerified |-> TRUE, password |-> 1]
                          ELSE [status |-> "absent", phoneVerified |-> FALSE, password |-> 0]],
               otp = [u \in Users |-> NoOtp],
               blocked = [u \in Users |-> FALSE],
               limit = [u \in Users |-> [k \in Counters |-> [n |-> 0, expires |-> FALSE]]],
               locked = [u \in Users |-> [k \in Counters |-> FALSE]],
               token = [t \in Tokens |->
                          IF \E u \in Open : session[u] = t
                          THEN [state |-> "live", user |-> CHOOSE u \in Open : session[u] = t,
                                parent |-> None, password |-> 1]
                          ELSE Unused],
               index = [u \in Users |-> IF u \in Open THEN {session[u]} ELSE {}],
               link = [k \in Codes |-> [state |-> "unused", user |-> None]],
               work = [h \in Handlers |-> Idle],
               past = [sent |-> [u \in Users |-> 0], wrong |-> [u \in Users |-> 0],
                       used |-> {}, mixed |-> {}, shared |-> {}, raced |-> {}, stuck |-> {}]
        PROVE  IInv
    BY ZenonT(60) DEF Init
  <1>2. \A t \in Tokens :
           \/ token[t] = Unused
           \/ \E u \in Open : token[t] = [state |-> "live", user |-> u, parent |-> None, password |-> 1]
    OBVIOUS
  <1>3. \A t \in Tokens :
           /\ token[t] \in Token /\ token[t].parent = None
           /\ token[t].state = "live" => token[t].user \in Open /\ token[t].password = 1
    BY <1>2 DEF Token, Unused
  <1>4. users \in [Users -> User] /\ \A u \in Open : users[u].password = 1 /\ users[u].status # "absent"
    <2>1. /\ [status |-> "active", phoneVerified |-> TRUE, password |-> 1] \in User
          /\ [status |-> "absent", phoneVerified |-> FALSE, password |-> 0] \in User
      BY DEF User, UserStatus
    <2> QED
      BY <2>1
  <1>5. \A h \in Handlers : work[h] = Idle
    OBVIOUS
  <1>6. Types
    <2>1. token \in [Tokens -> Token]
      <3>1. token = [t \in Tokens |-> token[t]]
        OBVIOUS
      <3> QED
        BY <1>3, <3>1
    <2>2. limit \in [Users -> [Counters -> Counter]]
      <3>1. [n |-> 0, expires |-> FALSE] \in Counter
        BY DEF Counter
      <3> QED
        BY <3>1
    <2>3. link \in [Codes -> Link]
      BY DEF Link
    <2>4. past \in History
      <3>1. [u \in Users |-> 0] \in [Users -> 0..MaxCodes] /\ [u \in Users |-> 0] \in [Users -> Nat]
        BY Numbers
      <3> QED
        BY <3>1 DEF History
    <2>5. index \in [Users -> SUBSET Tokens]
      OBVIOUS
    <2>6. work \in [Handlers -> Local] /\ \A h \in Handlers : Knows(work[h])
      BY IdleOK
    <2>7. /\ otp \in [Users -> Otp \cup {NoOtp}] /\ blocked \in [Users -> BOOLEAN]
          /\ locked \in [Users -> [Counters -> BOOLEAN]]
      OBVIOUS
    <2> QED
      BY <1>4, <2>1, <2>2, <2>3, <2>4, <2>5, <2>6, <2>7 DEF Types, TypeOK
  <1>7. PresentOK
    <2>1. \A k \in Codes : link[k].state # "live"
      OBVIOUS
    <2> QED
      BY <1>3, <1>4, <1>5, <2>1, IdleOK DEF PresentOK, Exists
  <1>8. PasswordsOK
    BY <1>3, <1>4, <1>5, IdleOK DEF PasswordsOK, SessionFresh, RequestFresh
  <1>9. TokensOK
    <2>1. \A h \in Handlers : work[h].token \notin Tokens /\ \A t \in Tokens : ~Holding(work[h], t)
      BY <1>5, IdleOK, Numbers
    <2>2. \A r \in Tokens : token[r].parent \notin Tokens
      BY <1>3, Numbers
    <2>3. \A t \in Tokens : OneHolder(t)
      BY <2>1, <2>2 DEF OneHolder
    <2> QED
      BY <2>1, <2>2, <2>3 DEF TokensOK
  <1>10. CodesOK
    <2>1. (\A u \in Users : otp[u] = NoOtp) /\ past.used = {}
      OBVIOUS
    <2>2. \A h \in Handlers : HeldOK(h)
      BY <1>5, IdleOK DEF HeldOK
    <2> QED
      BY <2>1, <2>2 DEF CodesOK, CodeKeptUnlessMixed
  <1>11. CounterExpires
    BY DEF CounterExpires
  <1> QED
    BY <1>6, <1>7, <1>8, <1>9, <1>10, <1>11 DEF IInv

\* Every step keeps the invariant.
LEMMA StepInv == IInv /\ [Next]_vars => IInv'
  <1> SUFFICES ASSUME IInv, [Next]_vars PROVE IInv'
    OBVIOUS
  <1>1. CASE UNCHANGED vars
    <2>1. UNCHANGED <<users, otp, blocked, limit, locked, token, index, link, work, past>>
      BY <1>1 DEF vars
    <2>2. \A g \in Handlers : work'[g] = work[g]
      BY <2>1
    <2>3. RowsStay
      BY <2>1 DEF RowsStay, Exists
    <2>4. users' \in [Users -> User] /\ work' \in [Handlers -> Local]
      BY <2>1 DEF IInv, Types, TypeOK
    <2> QED
      BY <2>1, <2>2, <2>3, <2>4, RowStep DEF Redis
  <1>2. ASSUME NEW h \in Handlers, NEW u \in Users, canActivate(h, u) \/ Request(h, u) \/ verifyOtp(h, u)
        PROVE  IInv'
    BY <1>2, CanActivateInv, RequestInv, VerifyOtpInv
  <1>3. ASSUME NEW h \in Handlers, NEW t \in Tokens, readToken(h, t) PROVE IInv'
    BY <1>3, ReadTokenInv
  <1>4. ASSUME NEW h \in Handlers, NEW k \in Codes, readLink(h, k) PROVE IInv'
    BY <1>4, ReadLinkInv
  <1>5. ASSUME NEW h \in Handlers,
               \/ increment(h) \/ expire(h) \/ registerCheck(h) \/ register(h)
               \/ sendOtp(h) \/ deliverOtp(h)
        PROVE  IInv'
    BY <1>5, IncrementInv, ExpireInv, RegisterCheckInv, RegisterInv, SendOtpInv, DeliverOtpInv
  <1>6. ASSUME NEW h \in Handlers,
               exhausted(h) \/ wrongCode(h) \/ rightCode(h) \/ findUser(h) \/ verifyPhone(h)
        PROVE  IInv'
    BY <1>6, ExhaustedInv, WrongCodeInv, RightCodeInv, FindUserInv, VerifyPhoneInv
  <1>7. ASSUME NEW h \in Handlers,
               \/ login(h) \/ issueTokenPair(h) \/ addToIndex(h)
               \/ deleteToken(h) \/ refresh(h) \/ revokeAll(h) \/ purge(h)
        PROVE  IInv'
    BY <1>7, LoginInv, IssueTokenPairInv, AddToIndexInv, DeleteTokenInv, RefreshInv, RevokeAllInv, PurgeInv
  <1>8. ASSUME NEW h \in Handlers, forgotPassword(h) \/ resetPassword(h) \/ spendLink(h) \/ Fail(h)
        PROVE  IInv'
    BY <1>8, ForgotPasswordInv, ResetPasswordInv, SpendLinkInv, FailInv
  <1>9. ASSUME NEW u \in Users, KeyExpires(u) \/ Suspend(u) PROVE IInv'
    BY <1>9, KeyExpiresInv, SuspendInv
  <1> QED
    BY <1>1, <1>2, <1>3, <1>4, <1>5, <1>6, <1>7, <1>8, <1>9 DEF Next

\* The invariant holds in every reachable state.
THEOREM Invariance == Spec => []IInv
  BY InitInv, StepInv, PTL DEF Spec

\* The variables have their types.
THEOREM TypeCorrect == Spec => []TypeOK
  <1>1. IInv => TypeOK
    BY DEF IInv, Types
  <1> QED
    BY <1>1, Invariance, PTL

\* TokenService: a refresh token is exchanged for one new pair, unless two requests had read
\* it before either deleted it, or its deletion was lost.
THEOREM RefreshOnceTheorem == Spec => []RefreshOnce
  <1>1. IInv => RefreshOnce
    BY DEF IInv, TokensOK, OneHolder, RefreshOnce
  <1> QED
    BY <1>1, Invariance, PTL

\* A session opened under an old password is over once the reset that replaced it has
\* returned, unless a revocation or a reset cut short met its issue.
THEOREM SessionsEndTheorem == Spec => []SessionsEndAtReset
  <1>1. IInv => SessionsEndAtReset
    BY DEF IInv, PasswordsOK, SessionFresh, InReset, Resetting, SessionsEndAtReset
  <1> QED
    BY <1>1, Invariance, PTL

\* otp.service: the code kept for a phone is the last one sent, was not accepted before and
\* has counted its wrong answers, unless two requests held it at once or a write was lost.
THEOREM CodeKeptTheorem == Spec => []CodeKeptUnlessMixed
  <1>1. IInv => CodeKeptUnlessMixed
    BY DEF IInv, CodesOK
  <1> QED
    BY <1>1, Invariance, PTL

\* BruteForceGuard: a counter without an expiry is one that a request is about to give it,
\* or one that a failure has left there.
THEOREM CounterExpiresTheorem == Spec => []CounterExpires
  <1>1. IInv => CounterExpires
    BY DEF IInv
  <1> QED
    BY <1>1, Invariance, PTL
=============================================================================
