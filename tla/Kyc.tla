-------------------------------- MODULE Kyc --------------------------------
(***************************************************************************)
(* The identity documents of the users: submission, review by an           *)
(* administrator of the user's city, and the invitations to submit.        *)
(*                                                                         *)
(* Submission and review read the row of a user and later save the whole   *)
(* entity they read; the flag kycVerified is in another table, written     *)
(* after it.  The client learns of it from a listener of the event, whose  *)
(* notifications may come in any order or not at all, for notify() logs    *)
(* every error and a rate limit skips it.  A set of documents is a number, *)
(* the reason of a rejection and the text of an invitation are left out.   *)
(***************************************************************************)
EXTENDS Integers, FiniteSets

CONSTANTS
    Users,
    UserCity,       \* the city of each user
    Admins,
    Globals,        \* the administrators with a global role
    Managed,        \* the cities of the other administrators
    Handlers,       \* requests that can run at the same time
    BatchSize,      \* invitations sent at a time (500 in the code)
    MaxDocs,        \* bound of the submissions of a user
    MaxRequests,    \* bound of the requests
    MaxFaults,      \* bound of the failures
    None

ASSUME KycAssumption ==
    /\ IsFiniteSet(Users) /\ Globals \subseteq Admins
    /\ DOMAIN UserCity = Users /\ DOMAIN Managed = Admins
    /\ BatchSize \in Nat \ {0}
    /\ \A n \in {MaxDocs, MaxRequests, MaxFaults} : n \in Nat

VARIABLES
    kyc,            \* the table user_kyc, a row per user
    kycVerified,    \* the column of users
    files,          \* the documents on the disk
    notices,        \* what the listener is about to tell each user
    told,           \* what the user was shown last
    work,           \* the local state of each request
    answered,       \* the last campaign answered
    requests, faults,
    past            \* history: the last submission, and the rows held by two

vars == <<kyc, kycVerified, files, notices, told, work, answered, requests, faults, past>>

UserKycStatus == {"pending", "approved", "rejected"}
Docs == 0..MaxDocs
Decisions == {"approved", "rejected"}

UserKyc == [status : UserKycStatus, docs : Docs \ {0}, reviewedBy : Admins \cup {None}]
NoKyc == [status |-> "absent", docs |-> 0, reviewedBy |-> None]

Local == [pc : {"idle", "upload", "read", "find", "save", "flag", "emit", "invite"},
          user : Users \cup {None}, admin : Admins \cup {None}, docs : Docs,
          decision : Decisions \cup {"pending"}, row : UserKyc \cup {NoKyc},
          new : BOOLEAN, chosen : SUBSET Users, todo : SUBSET Users, batch : SUBSET Users,
          calls : [Users -> Nat], reached : SUBSET Users]
NoCalls == [u \in Users |-> 0]
Idle == [pc |-> "idle", user |-> None, admin |-> None, docs |-> 0, decision |-> "pending",
         row |-> NoKyc, new |-> FALSE, chosen |-> {}, todo |-> {}, batch |-> {},
         calls |-> NoCalls, reached |-> {}]

\* What a campaign answers, and, as history, what it did: how many times it
\* called notify() for each user, and the users that got a notification.
Answer == [notified : Nat, calls : [Users -> Nat], reached : SUBSET Users]
NoAnswer == [notified |-> 0, calls |-> NoCalls, reached |-> {}]

-----------------------------------------------------------------------------

At(h, pc) == work[h].pc = pc
Goto(h, pc) == work' = [work EXCEPT ![h].pc = pc]
End(h) == work' = [work EXCEPT ![h] = Idle]

\* h is between its read of the row of u and the end of the request.
Holds(h, u) == work[h].user = u /\ work[h].pc \in {"save", "flag", "emit"}

\* From the moment two requests hold the row of u, nothing is said of it.
Meeting(h, u) == IF \E g \in Handlers \ {h} : Holds(g, u) THEN {u} ELSE {}

\* The cities an administrator sees; a global role sees them all.
InScope(a, u) == a \in Globals \/ UserCity[u] \in Managed[a]

Receive(h, w) ==
    /\ At(h, "idle") /\ requests < MaxRequests
    /\ requests' = requests + 1
    /\ work' = [work EXCEPT ![h] = w]
    /\ UNCHANGED <<kyc, kycVerified, files, notices, told, answered, faults, past>>

-----------------------------------------------------------------------------
(* Submission: the files first, then the row.                               *)

\* The front of the card and the selfie are there, each of an accepted type.
submit(h, u) ==
    /\ past.sent[u] < MaxDocs
    /\ Receive(h, [Idle EXCEPT !.pc = "upload", !.user = u])

saveFiles(h) ==
    LET u == work[h].user IN
    /\ At(h, "upload") /\ past.sent[u] < MaxDocs
    /\ past' = [past EXCEPT !.sent[u] = @ + 1]
    /\ files' = [files EXCEPT ![u] = @ \cup {past.sent[u] + 1}]
    /\ work' = [work EXCEPT ![h].pc = "read", ![h].docs = past.sent[u] + 1]
    /\ UNCHANGED <<kyc, kycVerified, notices, told, answered, requests, faults>>

\* Mutant: an approved file can be submitted again.
submitKycAlways(h) ==
    LET u == work[h].user IN
    /\ At(h, "read")
    /\ work' = [work EXCEPT ![h].pc = "save", ![h].new = (kyc[u] = NoKyc),
                            ![h].row = [status |-> "pending", docs |-> work[h].docs, reviewedBy |-> None]]
    /\ past' = [past EXCEPT !.mixed = @ \cup Meeting(h, u)]
    /\ UNCHANGED <<kyc, kycVerified, files, notices, told, answered, requests, faults>>

submitKyc(h) ==
    LET u == work[h].user IN
    /\ At(h, "read")
    /\ IF kyc[u].status = "approved"
       THEN End(h) /\ UNCHANGED past
       ELSE /\ work' = [work EXCEPT ![h].pc = "save", ![h].new = (kyc[u] = NoKyc),
                            ![h].row = [status |-> "pending", docs |-> work[h].docs, reviewedBy |-> None]]
            /\ past' = [past EXCEPT !.mixed = @ \cup Meeting(h, u)]
    /\ UNCHANGED <<kyc, kycVerified, files, notices, told, answered, requests, faults>>

-----------------------------------------------------------------------------
(* Review.                                                                  *)

review(h, a, u) ==
    \E decision \in Decisions :
        /\ InScope(a, u)
        /\ Receive(h, [Idle EXCEPT !.pc = "find", !.user = u, !.admin = a, !.decision = decision])

\* Mutant: a file that was never submitted can be reviewed.
reviewKycAnyway(h) ==
    LET w == work[h]
        u == w.user
    IN  /\ At(h, "find")
        /\ IF kyc[u].status = "approved"
           THEN End(h) /\ UNCHANGED past
           ELSE /\ work' = [work EXCEPT ![h].pc = "save",
                              ![h].row = [kyc[u] EXCEPT !.status = w.decision, !.reviewedBy = w.admin]]
                /\ past' = [past EXCEPT !.mixed = @ \cup Meeting(h, u)]
        /\ UNCHANGED <<kyc, kycVerified, files, notices, told, answered, requests, faults>>

reviewKyc(h) ==
    LET w == work[h]
        u == w.user
    IN  /\ At(h, "find")
        /\ IF kyc[u].status \in {"absent", "approved"}
           THEN End(h) /\ UNCHANGED past
           ELSE /\ work' = [work EXCEPT ![h].pc = "save",
                              ![h].row = [kyc[u] EXCEPT !.status = w.decision, !.reviewedBy = w.admin]]
                /\ past' = [past EXCEPT !.mixed = @ \cup Meeting(h, u)]
        /\ UNCHANGED <<kyc, kycVerified, files, notices, told, answered, requests, faults>>

\* Both save the entity they read; a second insert breaks the unique index.
save(h) ==
    LET w == work[h] IN
    /\ At(h, "save")
    /\ IF w.new /\ kyc[w.user] # NoKyc
       THEN End(h) /\ UNCHANGED kyc
       ELSE /\ kyc' = [kyc EXCEPT ![w.user] = w.row]
            /\ Goto(h, IF w.decision = "pending" THEN "emit" ELSE "flag")
    /\ UNCHANGED <<kycVerified, files, notices, told, answered, requests, faults, past>>

flag(h) ==
    /\ At(h, "flag")
    /\ kycVerified' = [kycVerified EXCEPT ![work[h].user] = (work[h].decision = "approved")]
    /\ Goto(h, "emit")
    /\ UNCHANGED <<kyc, files, notices, told, answered, requests, faults, past>>

\* The event is emitted, and its listener runs on its own.
emit(h) ==
    /\ At(h, "emit")
    /\ notices' = [notices EXCEPT ![work[h].user] = @ \cup {work[h].decision}]
    /\ End(h)
    /\ UNCHANGED <<kyc, kycVerified, files, told, answered, requests, faults, past>>

\* One of the notifications under way is shown, or it is never queued.
notify(u) ==
    \E n \in notices[u], shown \in BOOLEAN :
        /\ notices' = [notices EXCEPT ![u] = @ \ {n}]
        /\ told' = IF shown THEN [told EXCEPT ![u] = n] ELSE told
        /\ UNCHANGED <<kyc, kycVerified, files, work, answered, requests, faults, past>>

-----------------------------------------------------------------------------
(* Invitations: the users are chosen once, in no order, then called slice   *)
(* by slice, those of a slice side by side.  notify() rejects nothing: a     *)
(* failing queue, a rate limit or an empty list of channels leaves a user    *)
(* without a notification, and the campaign goes on.                         *)

Batches(todo) ==
    LET size == IF Cardinality(todo) <= BatchSize THEN Cardinality(todo) ELSE BatchSize
    IN  {b \in SUBSET todo : Cardinality(b) = size}

\* One user, a city, or everybody without a verified identity.
SendKycInvitationDto ==
    [target : {"single_user"}, userId : Users]
    \cup [target : {"city"}, cityId : {UserCity[u] : u \in Users}]
    \cup [target : {"all_without_kyc"}]

\* An administrator of cities names a user or a city of theirs.
Permitted(dto, a) ==
    CASE dto.target = "single_user" -> InScope(a, dto.userId)
      [] dto.target = "city" -> a \in Globals \/ dto.cityId \in Managed[a]
      [] OTHER -> TRUE

Targets(dto, a) ==
    CASE dto.target = "single_user" -> {dto.userId}
      [] dto.target = "city" -> {u \in Users : ~kycVerified[u] /\ UserCity[u] = dto.cityId}
      [] OTHER -> {u \in Users : ~kycVerified[u] /\ InScope(a, u)}

sendKycInvitation(h, a) ==
    \E chosen \in {Targets(dto, a) : dto \in {d \in SendKycInvitationDto : Permitted(d, a)}} :
        \E batch \in Batches(chosen) :
            Receive(h, [Idle EXCEPT !.pc = "invite", !.admin = a, !.chosen = chosen,
                                    !.todo = chosen \ batch, !.batch = batch])

\* The call for a user returns, with or without a notification in a queue.
notifyUser(h, u) ==
    \E queued \in BOOLEAN :
        /\ At(h, "invite") /\ u \in work[h].batch
        /\ work' = [work EXCEPT ![h].batch = @ \ {u}, ![h].calls[u] = @ + 1,
                                ![h].reached = IF queued THEN @ \cup {u} ELSE @]
        /\ UNCHANGED <<kyc, kycVerified, files, notices, told, answered, requests, faults, past>>

\* Mutant: the next slice begins one user too far.
continueInvitationTooFar(h) ==
    /\ At(h, "invite") /\ work[h].batch = {} /\ work[h].todo # {}
    /\ \E skipped \in work[h].todo : \E batch \in Batches(work[h].todo \ {skipped}) :
           work' = [work EXCEPT ![h].todo = @ \ (batch \cup {skipped}), ![h].batch = batch]
    /\ UNCHANGED <<kyc, kycVerified, files, notices, told, answered, requests, faults, past>>

continueInvitation(h) ==
    /\ At(h, "invite") /\ work[h].batch = {} /\ work[h].todo # {}
    /\ \E batch \in Batches(work[h].todo) :
           work' = [work EXCEPT ![h].todo = @ \ batch, ![h].batch = batch]
    /\ UNCHANGED <<kyc, kycVerified, files, notices, told, answered, requests, faults, past>>

answerInvitation(h) ==
    /\ At(h, "invite") /\ work[h].batch = {} /\ work[h].todo = {}
    /\ answered' = [notified |-> Cardinality(work[h].chosen), calls |-> work[h].calls,
                    reached |-> work[h].reached]
    /\ End(h)
    /\ UNCHANGED <<kyc, kycVerified, files, notices, told, requests, faults, past>>

\* A crash, or a failing query, ends a request where it is.
Fail(h) ==
    /\ ~At(h, "idle") /\ faults < MaxFaults
    /\ faults' = faults + 1
    /\ past' = IF At(h, "flag") THEN [past EXCEPT !.mixed = @ \cup {work[h].user}] ELSE past
    /\ End(h)
    /\ UNCHANGED <<kyc, kycVerified, files, notices, told, answered, requests>>

-----------------------------------------------------------------------------

Init ==
    /\ kyc = [u \in Users |-> NoKyc]
    /\ kycVerified = [u \in Users |-> FALSE]
    /\ files = [u \in Users |-> {}]
    /\ notices = [u \in Users |-> {}]
    /\ told = [u \in Users |-> "none"]
    /\ work = [h \in Handlers |-> Idle]
    /\ answered = NoAnswer
    /\ requests = 0 /\ faults = 0
    /\ past = [sent |-> [u \in Users |-> 0], mixed |-> {}]

Next ==
    \/ \E h \in Handlers :
           \/ \E u \in Users : submit(h, u) \/ notifyUser(h, u)
           \/ \E a \in Admins : sendKycInvitation(h, a) \/ \E u \in Users : review(h, a, u)
           \/ saveFiles(h) \/ submitKyc(h) \/ reviewKyc(h) \/ save(h) \/ flag(h) \/ emit(h)
           \/ continueInvitation(h) \/ answerInvitation(h) \/ Fail(h)
    \/ \E u \in Users : notify(u)

Spec == Init /\ [][Next]_vars

-----------------------------------------------------------------------------

\* The variables have their types.
TypeOK ==
    /\ kyc \in [Users -> UserKyc \cup {NoKyc}]
    /\ kycVerified \in [Users -> BOOLEAN]
    /\ files \in [Users -> SUBSET Docs]
    /\ notices \in [Users -> SUBSET (Decisions \cup {"pending"})]
    /\ told \in [Users -> Decisions \cup {"none", "pending"}]
    /\ work \in [Handlers -> Local]
    /\ answered \in Answer
    /\ past \in [sent : [Users -> Docs], mixed : SUBSET Users]
    /\ faults \in 0..MaxFaults

\* An identity is verified on documents: the flag is set only for a user with
\* a file, and the documents a row names are on the disk, whatever requests
\* meet and whatever fails.
Documented ==
    \A u \in Users : /\ kycVerified[u] => kyc[u].status # "absent"
                     /\ kyc[u].status = "absent" \/ kyc[u].docs \in files[u]

\* When no request holds the row of a user, the flag says whether the file is
\* approved, unless two requests once held the row together or one stopped
\* between the two writes.
FlagAgrees ==
    \A u \in Users :
        \/ u \in past.mixed
        \/ \E h \in Handlers : Holds(h, u)
        \/ kycVerified[u] <=> kyc[u].status = "approved"

\* A user who is told of an approval has it and keeps it, in whatever order
\* the notifications come, outside the same meetings of two requests.
ApprovalStands ==
    \A u \in Users \ past.mixed :
        "approved" \in notices[u] \cup {told[u]} => kycVerified[u] /\ kyc[u].status = "approved"

\* The two tables, the disk and what the client is told agree, although
\* submitKyc and reviewKyc save the whole row they read and the flag is
\* written apart.
KycAgrees == Documented /\ FlagAgrees /\ ApprovalStands

\* A campaign calls notify() once for each user it counts: the slices of the
\* unordered list leave nobody out and take nobody twice.
EachCalledOnce ==
    /\ \A u \in Users : answered.calls[u] <= 1
    /\ answered.notified = Cardinality({u \in Users : answered.calls[u] = 1})

\* The documented result of a campaign, "the number of users notified": the
\* code counts the users it chose, and notify() answers nothing.
InvitationHonest == answered.notified = Cardinality(answered.reached)

\* The documented effect of an approval, "user.kycVerified becomes true", in a
\* run without failures: of two reviews that meet, the flag can be the one of
\* the rejection and the row the one of the approval.
ApprovedIsVerified ==
    faults = 0 => \A u \in Users :
        \/ \E h \in Handlers : Holds(h, u)
        \/ kyc[u].status = "approved" => kycVerified[u]
=============================================================================
