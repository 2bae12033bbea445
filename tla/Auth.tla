-------------------------------- MODULE Auth --------------------------------
(***************************************************************************)
(* Accounts as a client meets them: registration, login, one-time codes,   *)
(* refresh tokens and the reset of a password, with the counters that      *)
(* limit the attempts.  Rows are in PostgreSQL; codes, tokens, counters    *)
(* and locks are keys of Redis, read and written by separate commands.     *)
(*                                                                         *)
(* A phone is its user: the column is unique.  Each user has an address of *)
(* its own.  A key that expires may expire at any time.  The wrapper of    *)
(* Redis swallows the errors of get, set and del: such a write may be lost *)
(* in silence, while a failing raw command or query ends the request.      *)
(***************************************************************************)
EXTENDS Integers, FiniteSets

CONSTANTS
    Users,
    Admins,         \* the users with a role
    Handlers,       \* requests that can run at the same time
    Limits,         \* the most attempts under each kind of counter
    MaxAttempts,    \* wrong answers to one code (MAX_ATTEMPTS)
    MaxTokens,      \* bound of the refresh tokens
    MaxCodes,       \* bound of the codes and of the reset links
    MaxRequests,    \* bound of the requests
    MaxFaults,      \* bound of the failures
    None

ASSUME AuthAssumption ==
    /\ Admins \subseteq Users
    /\ Limits \in [{"ip", "id", "rate"} -> Nat \ {0}]
    /\ \A n \in {MaxAttempts, MaxTokens, MaxCodes, MaxRequests, MaxFaults} : n \in Nat
    /\ None \notin Nat

VARIABLES
    users,          \* the rows
    otp,            \* otp:{phone}
    blocked,        \* otp:block:{phone}
    limit,          \* the counters, and whether they have an expiry
    locked,         \* bf:lock:ip and bf:lock:id
    token,          \* rt:{token}, and what each token stood for
    index,          \* rt:user:{id}
    link,           \* the links to reset a password
    work,           \* the local state of each request
    requests, faults,
    past            \* history: see History

vars == <<users, otp, blocked, limit, locked, token, index, link, work, requests, faults, past>>

UserStatus == {"absent", "active", "inactive", "suspended", "pending_kyc"}
User == [status : UserStatus, phoneVerified : BOOLEAN, password : Nat]

Tokens == 1..MaxTokens
Codes == 1..MaxCodes
Token == [state : {"unused", "live", "gone"}, user : Users \cup {None},
          parent : Tokens \cup {None}, password : Nat]
Unused == [state |-> "unused", user |-> None, parent |-> None, password |-> 0]

Otp == [code : Codes, attempts : 0..MaxAttempts]
NoOtp == [code |-> None, attempts |-> 0]
Link == [state : {"unused", "live", "gone"}, user : Users \cup {None}]

Counters == {"ip", "id", "rate"}
Counter == [n : Nat, expires : BOOLEAN]

Operations == {"register", "login", "adminLogin", "sendOtp", "verifyPhone", "refresh",
               "logout", "logoutAll", "forgotPassword", "resetPassword"}
Pcs == {"idle", "count", "expire", "check", "insert", "block", "store",
        "answer", "find", "activate", "credentials", "set", "add", "delete", "remove",
        "list", "purge", "link", "save", "spend"}
Row == [status : UserStatus, phoneVerified : BOOLEAN]
Local == [pc : Pcs, op : Operations \cup {"none"}, user : Users \cup {None},
          counter : Counters, otp : Otp \cup {NoOtp}, right : BOOLEAN,
          token : Tokens \cup {None}, link : Codes \cup {None}, password : Nat,
          row : Row, listed : SUBSET Tokens, raced : BOOLEAN]
NoRow == [status |-> "absent", phoneVerified |-> FALSE]
Idle == [pc |-> "idle", op |-> "none", user |-> None, counter |-> "ip", otp |-> NoOtp,
         right |-> FALSE, token |-> None, link |-> None, password |-> 0,
         row |-> NoRow, listed |-> {}, raced |-> FALSE]

\* sent, wrong: the codes sent to each user, the wrong answers to the last one;
\* used: the codes accepted.  mixed: codes two requests held at once, or whose
\* write was lost; shared: the same of refresh tokens; raced: tokens whose issue
\* met a revocation of all tokens, or one cut short; stuck: counters left
\* without an expiry by a failure.
History == [sent : [Users -> 0..MaxCodes], wrong : [Users -> Nat],
            used : SUBSET (Users \X Codes), mixed : SUBSET (Users \X Codes),
            shared : SUBSET Tokens, raced : SUBSET Tokens, stuck : SUBSET (Users \X Counters)]

-----------------------------------------------------------------------------

Redis == <<otp, blocked, limit, locked, token, index, link>>

\* A write through the wrapper, lost or not.
Write(lost) ==
    /\ lost => faults < MaxFaults
    /\ faults' = IF lost THEN faults + 1 ELSE faults

Goto(h, pc) == work' = [work EXCEPT ![h].pc = pc]
End(h) == work' = [work EXCEPT ![h] = Idle]

At(h, pc) == work[h].pc = pc

\* The requests other than h that work for u.
Others(h, u) == {g \in Handlers \ {h} : work[g].user = u}

Guarded == {"register", "login", "sendOtp"}

\* Where an operation begins once the guard has let it through.
Start(op) ==
    CASE op = "register" -> "check"
      [] op \in {"login", "adminLogin"} -> "credentials"
      [] op = "sendOtp" -> "block"
      [] op = "logoutAll" -> "list"
      [] op = "forgotPassword" -> "link"

Receive(h, w) ==
    /\ At(h, "idle") /\ requests < MaxRequests
    /\ requests' = requests + 1
    /\ work' = [work EXCEPT ![h] = w]

\* A request without a guard and with nothing to read first.
Request(h, u) ==
    /\ \E op \in {"adminLogin", "logoutAll", "forgotPassword"} :
           /\ op = "logoutAll" => users[u].status # "absent"
           /\ Receive(h, [Idle EXCEPT !.op = op, !.user = u, !.pc = Start(op)])
    /\ UNCHANGED <<users, Redis, faults, past>>

-----------------------------------------------------------------------------
(* BruteForceGuard, and the limit of the codes sent: INCR, then EXPIRE for  *)
(* the first of a window.  The lock is set with the INCR that passes Max.   *)

canActivate(h, u) ==
    /\ ~locked[u]["ip"] /\ ~locked[u]["id"]
    /\ \E op \in Guarded : Receive(h, [Idle EXCEPT !.op = op, !.user = u, !.pc = "count"])
    /\ UNCHANGED <<users, Redis, faults, past>>

\* What follows a counter that has not passed its limit.
Passed(w) ==
    CASE w.counter = "ip" -> [w EXCEPT !.pc = "count", !.counter = "id"]
      [] w.counter = "id" -> [w EXCEPT !.pc = Start(w.op)]
      [] OTHER -> [w EXCEPT !.pc = "store"]

\* Mutant: the expiry is set by the second of a window.
incrementLate(h) ==
    LET w == work[h]
        u == w.user
        n == limit[u][w.counter].n + 1
    IN  /\ At(h, "count")
        /\ limit' = [limit EXCEPT ![u][w.counter].n = n]
        /\ locked' = [locked EXCEPT ![u][w.counter] =
                         @ \/ (n > Limits[w.counter] /\ w.counter # "rate")]
        /\ work' = [work EXCEPT ![h] = IF n > Limits[w.counter] THEN Idle
                                       ELSE IF n = 2 THEN [w EXCEPT !.pc = "expire"]
                                       ELSE Passed(w)]
        /\ UNCHANGED <<users, otp, blocked, token, index, link, requests, faults, past>>

increment(h) ==
    LET w == work[h]
        u == w.user
        n == limit[u][w.counter].n + 1
    IN  /\ At(h, "count")
        /\ limit' = [limit EXCEPT ![u][w.counter].n = n]
        /\ locked' = [locked EXCEPT ![u][w.counter] =
                         @ \/ (n > Limits[w.counter] /\ w.counter # "rate")]
        /\ work' = [work EXCEPT ![h] = IF n > Limits[w.counter] THEN Idle
                                       ELSE IF n = 1 THEN [w EXCEPT !.pc = "expire"]
                                       ELSE Passed(w)]
        /\ UNCHANGED <<users, otp, blocked, token, index, link, requests, faults, past>>

expire(h) ==
    /\ At(h, "expire")
    /\ limit' = [limit EXCEPT ![work[h].user][work[h].counter].expires = TRUE]
    /\ work' = [work EXCEPT ![h] = Passed(work[h])]
    /\ UNCHANGED <<users, otp, blocked, locked, token, index, link, requests, faults, past>>

-----------------------------------------------------------------------------
(* Registration: the phone is looked up, the password hashed, the row       *)
(* inserted under the unique phone, and the first code sent.                *)

registerCheck(h) ==
    /\ At(h, "check")
    /\ IF users[work[h].user].status = "absent" THEN Goto(h, "insert") ELSE End(h)
    /\ UNCHANGED <<users, Redis, requests, faults, past>>

register(h) ==
    LET u == work[h].user IN
    /\ At(h, "insert")
    /\ IF users[u].status = "absent"
       THEN /\ users' = [users EXCEPT ![u] = [status |-> "inactive", phoneVerified |-> FALSE, password |-> 1]]
            /\ Goto(h, "block")
       ELSE End(h) /\ UNCHANGED users
    /\ UNCHANGED <<Redis, requests, faults, past>>

-----------------------------------------------------------------------------
(* One-time codes. *)

sendOtp(h) ==
    /\ At(h, "block")
    /\ IF blocked[work[h].user] THEN End(h)
       ELSE work' = [work EXCEPT ![h].pc = "count", ![h].counter = "rate"]
    /\ UNCHANGED <<users, Redis, requests, faults, past>>

\* The codes the other requests for u hold, to be written back.
Held(h, u) == {<<u, work[g].otp.code>> : g \in {g \in Others(h, u) : At(g, "answer")}}

Stored(u) == IF otp[u] = NoOtp THEN {} ELSE {<<u, otp[u].code>>}

deliverOtp(h) ==
    LET u == work[h].user IN
    \E lost \in BOOLEAN :
        /\ At(h, "store") /\ past.sent[u] < MaxCodes
        /\ Write(lost)
        /\ otp' = IF lost THEN otp ELSE [otp EXCEPT ![u] = [code |-> past.sent[u] + 1, attempts |-> 0]]
        /\ past' = [past EXCEPT !.sent[u] = @ + 1, !.wrong[u] = 0,
                                !.mixed = @ \cup Held(h, u) \cup (IF lost THEN Stored(u) ELSE {})]
        /\ End(h)
        /\ UNCHANGED <<users, blocked, limit, locked, token, index, link, requests>>

\* The code is read; "right" says whether the answer is this code.
verifyOtp(h, u) ==
    \E right \in BOOLEAN :
        /\ otp[u] # NoOtp
        /\ Receive(h, [Idle EXCEPT !.op = "verifyPhone", !.user = u, !.pc = "answer",
                                   !.otp = otp[u], !.right = right])
        /\ past' = [past EXCEPT !.mixed = @ \cup (Stored(u) \cap Held(h, u))]
        /\ UNCHANGED <<users, Redis, faults>>

exhausted(h) ==
    LET w == work[h] IN
    \E lost \in BOOLEAN :
        /\ At(h, "answer") /\ w.otp.attempts >= MaxAttempts
        /\ Write(lost)
        /\ otp' = IF lost THEN otp ELSE [otp EXCEPT ![w.user] = NoOtp]
        /\ blocked' = IF lost THEN blocked ELSE [blocked EXCEPT ![w.user] = TRUE]
        /\ End(h)
        /\ UNCHANGED <<users, limit, locked, token, index, link, requests, past>>

\* Mutant: one answer more than allowed.
wrongCodeOnceMore(h) ==
    LET w == work[h] IN
    /\ At(h, "answer") /\ w.otp.attempts <= MaxAttempts /\ ~w.right
    /\ otp' = [otp EXCEPT ![w.user] = [w.otp EXCEPT !.attempts = @ + 1]]
    /\ past' = [past EXCEPT !.wrong[w.user] = @ + 1]
    /\ End(h)
    /\ UNCHANGED <<users, blocked, limit, locked, token, index, link, requests, faults>>

wrongCode(h) ==
    LET w == work[h]
        c == <<w.user, w.otp.code>>
    IN  \E lost \in BOOLEAN :
        /\ At(h, "answer") /\ w.otp.attempts < MaxAttempts /\ ~w.right
        /\ Write(lost)
        /\ otp' = IF lost THEN otp ELSE [otp EXCEPT ![w.user] = [w.otp EXCEPT !.attempts = @ + 1]]
        /\ past' = [past EXCEPT !.wrong[w.user] = IF w.otp.code = past.sent[w.user] THEN @ + 1 ELSE @,
                                !.mixed = IF lost THEN @ \cup {c} ELSE @]
        /\ End(h)
        /\ UNCHANGED <<users, blocked, limit, locked, token, index, link, requests>>

\* Mutant: an accepted code is kept until it expires.
rightCodeKept(h) ==
    LET w == work[h] IN
    /\ At(h, "answer") /\ w.otp.attempts < MaxAttempts /\ w.right
    /\ past' = [past EXCEPT !.used = @ \cup {<<w.user, w.otp.code>>}]
    /\ Goto(h, "find")
    /\ UNCHANGED <<users, Redis, requests, faults>>

rightCode(h) ==
    LET w == work[h]
        c == <<w.user, w.otp.code>>
    IN  \E lost \in BOOLEAN :
        /\ At(h, "answer") /\ w.otp.attempts < MaxAttempts /\ w.right
        /\ Write(lost)
        /\ otp' = IF lost THEN otp ELSE [otp EXCEPT ![w.user] = NoOtp]
        /\ past' = [past EXCEPT !.used = @ \cup {c}, !.mixed = IF lost THEN @ \cup {c} ELSE @]
        /\ Goto(h, "find")
        /\ UNCHANGED <<users, blocked, limit, locked, token, index, link, requests>>

\* The row is read, then written active whatever its status was.
findUser(h) ==
    LET u == work[h].user IN
    /\ At(h, "find")
    /\ IF users[u].status = "absent" THEN End(h)
       ELSE work' = [work EXCEPT ![h].pc = "activate", ![h].password = users[u].password]
    /\ UNCHANGED <<users, Redis, requests, faults, past>>

verifyPhone(h) ==
    /\ At(h, "activate")
    /\ users' = [users EXCEPT ![work[h].user].status = "active", ![work[h].user].phoneVerified = TRUE]
    /\ Goto(h, "set")
    /\ UNCHANGED <<Redis, requests, faults, past>>

-----------------------------------------------------------------------------
(* Refresh tokens: rt:{token} is written first, its place in the set of the *)
(* user second.                                                             *)

\* Active, or waiting for its KYC; "right" is the answer of bcrypt.
login(h) ==
    LET u == work[h].user IN
    /\ At(h, "credentials")
    /\ \E right \in BOOLEAN :
           IF /\ right /\ users[u].status \notin {"absent", "inactive", "suspended"}
              /\ work[h].op = "adminLogin" => u \in Admins
           THEN work' = [work EXCEPT ![h].pc = "set", ![h].password = users[u].password]
           ELSE End(h)
    /\ UNCHANGED <<users, Redis, requests, faults, past>>

issueTokenPair(h) ==
    LET w == work[h] IN
    \E t \in Tokens, lost \in BOOLEAN :
        /\ At(h, "set")
        /\ token[t] = Unused /\ \A s \in Tokens : s < t => token[s] # Unused
        /\ Write(lost)
        /\ token' = [token EXCEPT ![t] = [state |-> IF lost THEN "gone" ELSE "live", user |-> w.user,
                                          parent |-> w.token, password |-> w.password]]
        /\ past' = [past EXCEPT !.raced = IF w.raced \/ w.token \in @ THEN @ \cup {t} ELSE @]
        /\ work' = [work EXCEPT ![h].pc = "add", ![h].token = t]
        /\ UNCHANGED <<users, otp, blocked, limit, locked, index, link, requests>>

addToIndex(h) ==
    /\ At(h, "add")
    /\ index' = [index EXCEPT ![work[h].user] = @ \cup {work[h].token}]
    /\ End(h)
    /\ UNCHANGED <<users, otp, blocked, limit, locked, token, link, requests, faults, past>>

\* refresh and revoke read the token; what else holds it is remembered.
readToken(h, t) ==
    \E op \in {"refresh", "logout"} :
        /\ token[t].state = "live"
        /\ Receive(h, [Idle EXCEPT !.op = op, !.user = token[t].user, !.pc = "delete",
                                   !.token = t, !.password = token[t].password])
        /\ past' = IF \E g \in Handlers : At(g, "delete") /\ work[g].token = t
                   THEN [past EXCEPT !.shared = @ \cup {t}] ELSE past
        /\ UNCHANGED <<users, Redis, faults>>

\* Mutant: the old token is only taken out of the set.
deleteTokenNot(h) ==
    /\ At(h, "delete")
    /\ Goto(h, "remove")
    /\ UNCHANGED <<users, Redis, requests, faults, past>>

deleteToken(h) ==
    LET t == work[h].token IN
    \E lost \in BOOLEAN :
        /\ At(h, "delete")
        /\ Write(lost)
        /\ token' = IF lost THEN token ELSE [token EXCEPT ![t].state = "gone"]
        /\ past' = IF lost THEN [past EXCEPT !.shared = @ \cup {t}, !.raced = @ \cup {t}] ELSE past
        /\ Goto(h, "remove")
        /\ UNCHANGED <<users, otp, blocked, limit, locked, index, link, requests>>

\* A refresh goes on with a new pair in the place of the old one.
refresh(h) ==
    LET w == work[h] IN
    /\ At(h, "remove")
    /\ index' = [index EXCEPT ![w.user] = @ \ {w.token}]
    /\ IF w.op = "refresh" THEN Goto(h, "set") ELSE End(h)
    /\ UNCHANGED <<users, otp, blocked, limit, locked, token, link, requests, faults, past>>

\* The issues in progress for u, and the tokens live but not in its set.
Racing(u) == {t \in Tokens : token[t].state = "live" /\ token[t].user = u /\ t \notin index[u]}

RevokeMeets(h, u, tokens, next) ==
    /\ past' = [past EXCEPT !.raced = @ \cup tokens]
    /\ work' = [g \in Handlers |->
                  IF g = h THEN next
                  ELSE IF g \in Others(h, u) THEN [work[g] EXCEPT !.raced = TRUE] ELSE work[g]]

revokeAll(h) ==
    LET w == work[h] IN
    /\ At(h, "list")
    /\ RevokeMeets(h, w.user, Racing(w.user),
                   IF index[w.user] = {} THEN Idle
                   ELSE [w EXCEPT !.pc = "purge", !.listed = index[w.user]])
    /\ UNCHANGED <<users, Redis, requests, faults>>

\* The whole set goes, with the tokens added to it since it was listed.
purge(h) ==
    LET w == work[h] IN
    /\ At(h, "purge")
    /\ token' = [t \in Tokens |-> IF t \in w.listed THEN [token[t] EXCEPT !.state = "gone"] ELSE token[t]]
    /\ index' = [index EXCEPT ![w.user] = {}]
    /\ RevokeMeets(h, w.user, Racing(w.user) \cup (index[w.user] \ w.listed), Idle)
    /\ UNCHANGED <<users, otp, blocked, limit, locked, link, requests, faults>>

-----------------------------------------------------------------------------
(* The reset of a password by a link, for administrators.                   *)

forgotPassword(h) ==
    LET u == work[h].user
        k == Cardinality({c \in Codes : link[c].state # "unused"}) + 1
    IN  \E lost \in BOOLEAN :
        /\ At(h, "link")
        /\ IF users[u].status # "absent" /\ u \in Admins
           THEN /\ k \in Codes
                /\ Write(lost)
                /\ link' = [link EXCEPT ![k] = [state |-> IF lost THEN "gone" ELSE "live", user |-> u]]
           ELSE UNCHANGED <<link, faults>>
        /\ End(h)
        /\ UNCHANGED <<users, otp, blocked, limit, locked, token, index, requests, past>>

readLink(h, k) ==
    /\ link[k].state = "live"
    /\ Receive(h, [Idle EXCEPT !.op = "resetPassword", !.user = link[k].user, !.pc = "save", !.link = k,
                               !.row = [f \in DOMAIN NoRow |-> users[link[k].user][f]]])
    /\ UNCHANGED <<users, Redis, faults, past>>

\* The row that was read is saved with the new hash: what changed meanwhile is lost.
resetPassword(h) ==
    LET w == work[h] IN
    /\ At(h, "save")
    /\ users' = [users EXCEPT ![w.user] = [status |-> w.row.status, password |-> @.password + 1,
                                           phoneVerified |-> w.row.phoneVerified]]
    /\ work' = [work EXCEPT ![h].pc = "spend", ![h].row = NoRow]
    /\ UNCHANGED <<Redis, requests, faults, past>>

\* Mutant: the sessions are left open.
spendLinkOnly(h) ==
    /\ At(h, "spend")
    /\ link' = [link EXCEPT ![work[h].link].state = "gone"]
    /\ End(h)
    /\ UNCHANGED <<users, otp, blocked, limit, locked, token, index, requests, faults, past>>

spendLink(h) ==
    \E lost \in BOOLEAN :
        /\ At(h, "spend")
        /\ Write(lost)
        /\ link' = IF lost THEN link ELSE [link EXCEPT ![work[h].link].state = "gone"]
        /\ Goto(h, "list")
        /\ UNCHANGED <<users, otp, blocked, limit, locked, token, index, requests, past>>

-----------------------------------------------------------------------------
(* Expiries, the administration of accounts, and failures.                  *)

\* The keys with an expiry; the set of a user outlives its tokens.
KeyExpires(u) ==
    /\ \/ /\ otp[u] # NoOtp
          /\ otp' = [otp EXCEPT ![u] = NoOtp]
          /\ UNCHANGED <<blocked, limit, locked, token, link>>
       \/ /\ blocked[u]
          /\ blocked' = [blocked EXCEPT ![u] = FALSE]
          /\ UNCHANGED <<otp, limit, locked, token, link>>
       \/ \E k \in Counters :
              \/ /\ limit[u][k].expires
                 /\ limit' = [limit EXCEPT ![u][k] = [n |-> 0, expires |-> FALSE]]
                 /\ UNCHANGED <<otp, blocked, locked, token, link>>
              \/ /\ locked[u][k]
                 /\ locked' = [locked EXCEPT ![u][k] = FALSE]
                 /\ UNCHANGED <<otp, blocked, limit, token, link>>
       \/ \E t \in Tokens :
              /\ token[t].state = "live" /\ token[t].user = u
              /\ token' = [token EXCEPT ![t].state = "gone"]
              /\ UNCHANGED <<otp, blocked, limit, locked, link>>
       \/ \E k \in Codes :
              /\ link[k].state = "live" /\ link[k].user = u
              /\ link' = [link EXCEPT ![k].state = "gone"]
              /\ UNCHANGED <<otp, blocked, limit, locked, token>>
    /\ UNCHANGED <<users, index, work, requests, faults, past>>

Suspend(u) ==
    /\ users[u].status = "active"
    /\ users' = [users EXCEPT ![u].status = "suspended"]
    /\ UNCHANGED <<Redis, work, requests, faults, past>>

\* A crash, or a failing query or raw command, ends a request where it is.
Fail(h) ==
    LET w == work[h]
        cut == w.op = "resetPassword" /\ w.pc # "save"
    IN
    /\ ~At(h, "idle") /\ faults < MaxFaults
    /\ faults' = faults + 1
    /\ work' = [g \in Handlers |->
                  IF g = h THEN Idle
                  ELSE IF cut /\ g \in Others(h, w.user) THEN [work[g] EXCEPT !.raced = TRUE] ELSE work[g]]
    /\ past' = [past EXCEPT
           !.stuck = IF At(h, "expire") THEN @ \cup {<<w.user, w.counter>>} ELSE @,
           !.raced = CASE At(h, "add") -> @ \cup {w.token}
                       [] cut -> @ \cup {t \in Tokens : token[t].user = w.user}
                       [] OTHER -> @]
    /\ UNCHANGED <<users, Redis, requests>>

-----------------------------------------------------------------------------

\* A user of Open has verified its phone and has the session it was given then; the
\* sessions are numbered from 1.
Init ==
    \E Open \in SUBSET Users : \E session \in [Open -> Tokens] :
        /\ \A u, v \in Open : session[u] = session[v] => u = v
        /\ \A u \in Open, t \in Tokens : t < session[u] => \E v \in Open : session[v] = t
        /\ users = [u \in Users |-> IF u \in Open
                       THEN [status |-> "active", phoneVerified |-> TRUE, password |-> 1]
                       ELSE [status |-> "absent", phoneVerified |-> FALSE, password |-> 0]]
        /\ otp = [u \in Users |-> NoOtp]
        /\ blocked = [u \in Users |-> FALSE]
        /\ limit = [u \in Users |-> [k \in Counters |-> [n |-> 0, expires |-> FALSE]]]
        /\ locked = [u \in Users |-> [k \in Counters |-> FALSE]]
        /\ token = [t \in Tokens |->
                      IF \E u \in Open : session[u] = t
                      THEN [state |-> "live", user |-> CHOOSE u \in Open : session[u] = t,
                            parent |-> None, password |-> 1]
                      ELSE Unused]
        /\ index = [u \in Users |-> IF u \in Open THEN {session[u]} ELSE {}]
        /\ link = [k \in Codes |-> [state |-> "unused", user |-> None]]
        /\ work = [h \in Handlers |-> Idle]
        /\ requests = 0 /\ faults = 0
        /\ past = [sent |-> [u \in Users |-> 0], wrong |-> [u \in Users |-> 0],
                   used |-> {}, mixed |-> {}, shared |-> {}, raced |-> {}, stuck |-> {}]

Next ==
    \/ \E h \in Handlers :
           \/ \E u \in Users : canActivate(h, u) \/ Request(h, u) \/ verifyOtp(h, u)
           \/ \E t \in Tokens : readToken(h, t)
           \/ \E k \in Codes : readLink(h, k)
           \/ increment(h) \/ expire(h) \/ registerCheck(h) \/ register(h)
           \/ sendOtp(h) \/ deliverOtp(h)
           \/ exhausted(h) \/ wrongCode(h) \/ rightCode(h) \/ findUser(h) \/ verifyPhone(h)
           \/ login(h) \/ issueTokenPair(h) \/ addToIndex(h)
           \/ deleteToken(h) \/ refresh(h) \/ revokeAll(h) \/ purge(h)
           \/ forgotPassword(h) \/ resetPassword(h) \/ spendLink(h)
           \/ Fail(h)
    \/ \E u \in Users : KeyExpires(u) \/ Suspend(u)

Spec == Init /\ [][Next]_vars

-----------------------------------------------------------------------------

\* The variables have their types.
TypeOK ==
    /\ users \in [Users -> User]
    /\ otp \in [Users -> Otp \cup {NoOtp}]
    /\ blocked \in [Users -> BOOLEAN]
    /\ limit \in [Users -> [Counters -> Counter]]
    /\ locked \in [Users -> [Counters -> BOOLEAN]]
    /\ token \in [Tokens -> Token]
    /\ index \in [Users -> SUBSET Tokens]
    /\ link \in [Codes -> Link]
    /\ work \in [Handlers -> Local]
    /\ past \in History

\* A refresh token is exchanged for one new pair ("one-time use"), unless two
\* requests had read it before either deleted it, or its deletion was lost:
\* TokenService reads and deletes it in two commands.
RefreshOnce ==
    \A t \in Tokens \ past.shared :
        \A r, s \in Tokens : token[r].parent = t /\ token[s].parent = t => r = s

\* A session opened under an old password is over once the reset that replaced
\* it has returned ("Tous les appareils seront deconnectes"), unless it was
\* being issued while the reset listed the sessions, an overlapping
\* revocation took it out of the set, the reset was cut short, or it was
\* refreshed from such a one.
SessionsEndAtReset ==
    \A t \in Tokens :
        /\ token[t].state = "live"
        /\ token[t].password # users[token[t].user].password
        => \/ t \in past.raced
           \/ \E h \in Handlers : /\ work[h].op = "resetPassword" /\ work[h].user = token[t].user
                                 /\ work[h].pc \in {"spend", "list", "purge"}

\* The code kept for a phone is the last one sent, it has not been accepted
\* before, and its attempts are the wrong answers it has had, unless two
\* requests held it at once or one of its writes was lost: otp.service reads the
\* code and writes it back in separate commands, so an overlapping answer
\* can lose a count, revive an accepted code or undo the sending of a new one.
CodeKeptUnlessMixed ==
    \A u \in Users :
        \/ otp[u] = NoOtp
        \/ <<u, otp[u].code>> \in past.mixed
        \/ /\ otp[u] = [code |-> past.sent[u], attempts |-> past.wrong[u]]
           /\ <<u, otp[u].code>> \notin past.used

\* A counter without an expiry would refuse its user for ever: it exists only
\* between the INCR and the EXPIRE of a request, or after a failure there.
CounterExpires ==
    \A u \in Users, k \in Counters :
        limit[u][k].n > 0 /\ ~limit[u][k].expires =>
            \/ <<u, k>> \in past.stuck
            \/ \E h \in Handlers : At(h, "expire") /\ work[h].user = u /\ work[h].counter = k

\* "One-time use": a refresh token is exchanged for one new pair, whatever overlaps.
OneTimeUse ==
    \A t, r, s \in Tokens : token[r].parent = t /\ token[s].parent = t => r = s
=============================================================================
