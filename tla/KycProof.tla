------------------------------ MODULE KycProof ------------------------------
(***************************************************************************)
(* Proofs about Kyc for every finite set of users, every set of cities,    *)
(* administrators and requests, every size of a batch and any number of    *)
(* submissions and failures: typing, the agreement of the two tables with  *)
(* the files and with what the user is told, and the one call a campaign   *)
(* makes for each user it counts.                                          *)
(***************************************************************************)
EXTENDS Kyc, FiniteSetTheorems, TLAPS

\* A campaign has called once whom it has not before it any more.
Campaign(w) ==
    /\ w.todo \cup w.batch \subseteq w.chosen
    /\ w.todo \cap w.batch = {}
    /\ \A u \in Users :
          w.calls[u] = IF u \in w.chosen /\ u \notin w.todo /\ u \notin w.batch THEN 1 ELSE 0

\* What a request knows by the place it is at.
Knows(w) ==
    /\ w.pc \in {"upload", "read", "find", "save", "flag", "emit"} => w.user \in Users
    /\ w.pc \in {"upload", "read"} => w.decision = "pending"
    /\ w.pc = "read" => w.docs \in files[w.user] \ {0}
    /\ w.pc = "save" => /\ w.row \in UserKyc
                        /\ w.row.docs \in files[w.user]
                        /\ w.row.status = w.decision
    /\ w.pc \in {"flag", "emit"} => kyc[w.user].status # "absent"
    /\ w.pc = "invite" => Campaign(w)

KnowsOK == \A h \in Handlers : Knows(work[h])

\* The flag follows the row.
Settled(u) == kycVerified[u] <=> kyc[u].status = "approved"

Held(w, u) == w.user = u /\ w.pc \in {"save", "flag", "emit"}
Saved(w, u) == w.user = u /\ w.pc \in {"flag", "emit"}

\* What has been written by the time a request is at its place.
Reached(w, u) ==
    /\ w.pc = "save" => kyc[u].status # "approved"
    /\ w.pc \in {"flag", "emit"} => kyc[u].status = w.decision
    /\ w.pc = "emit" => (kycVerified[u] <=> w.decision = "approved")

\* One request holds the row of a user, and until it saves, the rest follows the row.
Agrees(u) ==
    /\ \A g, h \in Handlers : Held(work[g], u) /\ Held(work[h], u) => g = h
    /\ (\A h \in Handlers : ~Saved(work[h], u)) => Settled(u)
    /\ \A h \in Handlers : Held(work[h], u) => Reached(work[h], u)

AgreesOK == \A u \in Users \ past.mixed : Agrees(u)

IInv == TypeOK /\ KnowsOK /\ Documented /\ AgreesOK /\ ApprovalStands /\ EachCalledOnce

-----------------------------------------------------------------------------
(* What is typed *)

\* The bounds are numbers, and there are finitely many users.
LEMMA Numbers == /\ BatchSize \in Nat \ {0} /\ MaxDocs \in Nat /\ MaxFaults \in Nat
                 /\ IsFiniteSet(Users)
  <1>1. \A n \in {MaxDocs, MaxRequests, MaxFaults} : n \in Nat
    BY KycAssumption DEF KycAssumption
  <1> QED
    BY <1>1, KycAssumption DEF KycAssumption

\* A request at rest.
LEMMA IdleLocal == /\ Idle \in Local /\ Idle.pc = "idle" /\ Knows(Idle)
                   /\ \A u : ~Held(Idle, u) /\ ~Saved(Idle, u)
  <1>1. Idle \in Local
    BY Numbers DEF Idle, Local, Docs, NoCalls
  <1> QED
    BY <1>1 DEF Idle, Knows, Held, Saved

\* A row that is not "absent" is one of the table.
LEMMA Rows ==
  ASSUME TypeOK, NEW u \in Users
  PROVE  /\ kyc[u].status # "absent" => kyc[u] \in UserKyc
         /\ kyc[u].status # "absent" <=> kyc[u] # NoKyc
         /\ kyc[u] \in UserKyc => kyc[u].status \in UserKycStatus
  BY DEF TypeOK, UserKyc, NoKyc, UserKycStatus

\* A slice is taken from what is left to do.
LEMMA BatchInTodo == ASSUME NEW todo, NEW b \in Batches(todo) PROVE b \subseteq todo
  BY DEF Batches

\* A campaign chooses among the users.
LEMMA TargetsAreUsers ==
  ASSUME NEW a \in Admins, NEW dto \in SendKycInvitationDto
  PROVE  Targets(dto, a) \subseteq Users
  <1>1. dto.target = "single_user" => dto.userId \in Users
    BY DEF SendKycInvitationDto
  <1> QED
    BY <1>1 DEF Targets

-----------------------------------------------------------------------------
(* Steps of one request h, whose local state becomes w *)

\* What a request knows stays true, for the files are only added to.
LEMMA KnowsFrame ==
  ASSUME TypeOK, KnowsOK, NEW h \in Handlers, NEW w, work' = [work EXCEPT ![h] = w],
         \A u \in Users : files[u] \subseteq files'[u],
         \A u \in Users : kyc[u].status # "absent" => kyc'[u].status # "absent", Knows(w)'
  PROVE  KnowsOK'
  <1> SUFFICES ASSUME NEW g \in Handlers PROVE Knows(work[g])'
    BY DEF KnowsOK
  <1>1. CASE g = h
    BY <1>1 DEF TypeOK, Knows, Campaign
  <1>2. CASE g # h
    <2>1. work'[g] = work[g] /\ Knows(work[g])
      BY <1>2 DEF TypeOK, KnowsOK
    <2> QED
      BY <2>1 DEF Knows, Campaign
  <1> QED
    BY <1>1, <1>2

\* A user of whom nothing is written, and whom nobody new holds.
LEMMA AgreesFrame ==
  ASSUME TypeOK, AgreesOK, NEW h \in Handlers, NEW w, work' = [work EXCEPT ![h] = w],
         NEW u \in Users, u \notin past.mixed,
         kyc'[u] = kyc[u], kycVerified'[u] = kycVerified[u],
         Held(w, u) => Held(work[h], u) /\ w.pc = work[h].pc /\ w.decision = work[h].decision,
         Saved(work[h], u) => Saved(w, u)
  PROVE  Agrees(u)'
  <1>1. Agrees(u)
    BY DEF AgreesOK
  <1>2. ASSUME NEW g \in Handlers
        PROVE  /\ Held(work'[g], u) => Held(work[g], u) /\ work'[g].pc = work[g].pc
                                       /\ work'[g].decision = work[g].decision
               /\ Saved(work[g], u) => Saved(work'[g], u)
    <2>1. work'[g] = IF g = h THEN w ELSE work[g]
      BY DEF TypeOK
    <2> QED
      BY <2>1
  <1>3. (\A g \in Handlers : ~Saved(work'[g], u)) => Settled(u)'
    BY <1>1, <1>2 DEF Agrees, Settled
  <1>4. ASSUME NEW g \in Handlers, Held(work'[g], u) PROVE Reached(work[g], u)'
    BY <1>1, <1>2, <1>4 DEF Agrees, Reached
  <1>5. \A f, g \in Handlers : Held(work'[f], u) /\ Held(work'[g], u) => f = g
    BY <1>1, <1>2 DEF Agrees
  <1> QED
    BY <1>3, <1>4, <1>5 DEF Agrees, Held, Saved

\* The users h has nothing to do with.
LEMMA AgreesOthers ==
  ASSUME TypeOK, AgreesOK, NEW h \in Handlers, NEW w, work' = [work EXCEPT ![h] = w],
         past.mixed \subseteq past'.mixed, NEW v,
         \A u \in Users : u # v => /\ kyc'[u] = kyc[u] /\ kycVerified'[u] = kycVerified[u]
                                   /\ ~Held(w, u) /\ ~Saved(work[h], u),
         v \in Users /\ v \notin past'.mixed => Agrees(v)'
  PROVE  AgreesOK'
  <1> SUFFICES ASSUME NEW u \in Users, u \notin past'.mixed PROVE Agrees(u)'
    BY DEF AgreesOK
  <1>1. CASE u = v
    BY <1>1
  <1>2. CASE u # v
    BY <1>2, AgreesFrame
  <1> QED
    BY <1>1, <1>2

\* A request that neither takes up nor leaves a row it has saved, and writes nothing
\* but new files.
LEMMA Quiet ==
  ASSUME IInv, NEW h \in Handlers, NEW w \in Local, work' = [work EXCEPT ![h] = w],
         UNCHANGED <<kyc, kycVerified, notices, told>>, past'.mixed = past.mixed,
         faults' \in 0..MaxFaults, answered' \in Answer,
         \A u \in Users : files[u] \subseteq files'[u],
         files' \in [Users -> SUBSET Docs],
         past' \in [sent : [Users -> Docs], mixed : SUBSET Users], Knows(w)',
         \A u \in Users : ~Held(w, u) /\ ~Saved(work[h], u),
         EachCalledOnce'
  PROVE  IInv'
  <1>1. TypeOK'
    BY DEF IInv, TypeOK
  <1>2. KnowsOK'
    BY KnowsFrame DEF IInv
  <1>3. Documented' /\ ApprovalStands'
    BY DEF IInv, Documented, ApprovalStands
  <1>4. AgreesOK'
    <2> SUFFICES ASSUME NEW u \in Users, u \notin past.mixed PROVE Agrees(u)'
      BY DEF AgreesOK
    <2> QED
      BY AgreesFrame DEF IInv
  <1> QED
    BY <1>1, <1>2, <1>3, <1>4 DEF IInv

-----------------------------------------------------------------------------
(* Submission and review *)

\* The history keeps its type when a user is added to those that are mixed up.
LEMMA MixedTyped ==
  ASSUME TypeOK, NEW S \in SUBSET Users, past' = [past EXCEPT !.mixed = @ \cup S]
  PROVE  /\ past' \in [sent : [Users -> Docs], mixed : SUBSET Users]
         /\ past'.mixed = past.mixed \cup S
  BY DEF TypeOK

\* A request begins.
LEMMA ReceiveInv ==
  ASSUME IInv, NEW h \in Handlers, NEW w \in Local,
         w.pc \notin {"read", "save", "flag", "emit"},
         Knows(w), Receive(h, w)
  PROVE  IInv'
  <1>1. /\ work' = [work EXCEPT ![h] = w] /\ work[h].pc = "idle"
        /\ UNCHANGED <<kyc, kycVerified, files, notices, told, answered, faults, past>>
    BY DEF Receive, At
  <1>2. Knows(w)'
    BY <1>1 DEF Knows, Campaign
  <1>3. EachCalledOnce'
    BY <1>1 DEF IInv, EachCalledOnce
  <1>4. \A u \in Users : ~Held(w, u) /\ ~Saved(work[h], u)
    BY <1>1 DEF Held, Saved
  <1>5. /\ files' \in [Users -> SUBSET Docs] /\ answered' \in Answer
        /\ past' \in [sent : [Users -> Docs], mixed : SUBSET Users] /\ faults' \in 0..MaxFaults
    BY <1>1 DEF IInv, TypeOK
  <1> QED
    BY <1>1, <1>2, <1>3, <1>4, <1>5, Quiet

\* A submission begins.
LEMMA SubmitInv == ASSUME IInv, NEW h \in Handlers, NEW u \in Users, submit(h, u) PROVE IInv'
  <1> PICK w : w = [Idle EXCEPT !.pc = "upload", !.user = u]
    OBVIOUS
  <1>1. w \in Local /\ w.pc = "upload" /\ Knows(w)
    BY IdleLocal DEF Local, Idle, Knows
  <1> QED
    BY <1>1, ReceiveInv DEF submit

\* A review begins.
LEMMA ReviewInv ==
  ASSUME IInv, NEW h \in Handlers, NEW a \in Admins, NEW u \in Users, review(h, a, u)
  PROVE  IInv'
  <1> PICK d \in Decisions :
        Receive(h, [Idle EXCEPT !.pc = "find", !.user = u, !.admin = a, !.decision = d])
    BY DEF review
  <1> PICK w : w = [Idle EXCEPT !.pc = "find", !.user = u, !.admin = a, !.decision = d]
    OBVIOUS
  <1>1. w \in Local /\ w.pc = "find" /\ Knows(w)
    BY IdleLocal DEF Local, Idle, Knows
  <1> QED
    BY <1>1, ReceiveInv

\* A request that ends without a word.
LEMMA EndInv ==
  ASSUME IInv, NEW h \in Handlers, End(h), work[h].pc \notin {"flag", "emit"},
         UNCHANGED <<kyc, kycVerified, files, notices, told, answered, past>>,
         faults' \in 0..MaxFaults
  PROVE  IInv'
  <1> PICK w : w = Idle
    OBVIOUS
  <1>1. /\ w \in Local /\ work' = [work EXCEPT ![h] = w] /\ w.pc = "idle"
        /\ \A u : ~Held(w, u)
    BY IdleLocal DEF End
  <1>2. Knows(w)'
    BY <1>1 DEF Knows
  <1>3. EachCalledOnce'
    BY DEF IInv, EachCalledOnce
  <1>4. \A u \in Users : ~Saved(work[h], u)
    BY DEF Saved
  <1>5. /\ files' \in [Users -> SUBSET Docs] /\ answered' \in Answer
        /\ past' \in [sent : [Users -> Docs], mixed : SUBSET Users]
    BY DEF IInv, TypeOK
  <1> QED
    BY <1>1, <1>2, <1>3, <1>4, <1>5, Quiet

\* The documents are written to the disk, under a new number.
LEMMA SaveFilesInv == ASSUME IInv, NEW h \in Handlers, saveFiles(h) PROVE IInv'
  <1> DEFINE u == work[h].user
             d == past.sent[u] + 1
  <1>1. /\ work[h] \in Local /\ work[h].pc = "upload" /\ u \in Users /\ work[h].decision = "pending"
        /\ UNCHANGED <<kyc, kycVerified, notices, told, answered, requests, faults>>
    BY DEF saveFiles, At, IInv, TypeOK, KnowsOK, Knows
  <1>2. d \in Docs \ {0} /\ past.sent \in [Users -> Docs]
    <2>1. past.sent \in [Users -> Docs] /\ past.sent[u] < MaxDocs
      BY DEF saveFiles, IInv, TypeOK
    <2> QED
      BY <1>1, <2>1, Numbers DEF Docs
  <1>3. /\ files' = [files EXCEPT ![u] = @ \cup {d}]
        /\ past' = [past EXCEPT !.sent[u] = @ + 1]
        /\ work' = [work EXCEPT ![h].pc = "read", ![h].docs = d]
    BY DEF saveFiles
  <1> PICK w : w = [work[h] EXCEPT !.pc = "read", !.docs = d]
    OBVIOUS
  <1>4. /\ w \in Local /\ w.pc = "read" /\ w.docs = d /\ w.user = u /\ w.decision = "pending"
        /\ work' = [work EXCEPT ![h] = w]
    BY <1>1, <1>2, <1>3 DEF Local
  <1> HIDE DEF d
  <1>5. /\ files' \in [Users -> SUBSET Docs] /\ d \in files'[u]
        /\ \A v \in Users : files[v] \subseteq files'[v]
    BY <1>1, <1>2, <1>3 DEF IInv, TypeOK
  <1>6. /\ past' \in [sent : [Users -> Docs], mixed : SUBSET Users] /\ past'.mixed = past.mixed
    <2>1. /\ past'.sent = [past.sent EXCEPT ![u] = d] /\ past'.mixed = past.mixed
          /\ past' = [sent |-> past'.sent, mixed |-> past'.mixed]
      BY <1>3 DEF IInv, TypeOK, d
    <2> QED
      BY <1>2, <2>1 DEF IInv, TypeOK
  <1>7. Knows(w)'
    BY <1>1, <1>2, <1>4, <1>5 DEF Knows
  <1>8. EachCalledOnce'
    BY <1>1 DEF IInv, EachCalledOnce
  <1>9. \A v \in Users : ~Held(w, v) /\ ~Saved(work[h], v)
    BY <1>1, <1>4 DEF Held, Saved
  <1>10. faults' \in 0..MaxFaults /\ answered' \in Answer
    BY <1>1 DEF IInv, TypeOK
  <1> QED
    BY <1>1, <1>4, <1>5, <1>6, <1>7, <1>8, <1>9, <1>10, Quiet

\* A request that takes up the row of u, to save w.row.
LEMMA TakeUpInv ==
  ASSUME IInv, NEW h \in Handlers, NEW w \in Local, NEW u \in Users,
         work' = [work EXCEPT ![h] = w], w.pc = "save", w.user = u, work[h].pc \in {"read", "find"},
         Knows(w)', kyc[u].status # "approved",
         past' \in [sent : [Users -> Docs], mixed : SUBSET Users],
         past'.mixed = past.mixed \cup Meeting(h, u),
         UNCHANGED <<kyc, kycVerified, files, notices, told, answered, requests, faults>>
  PROVE  IInv'
  <1>3. TypeOK'
    BY DEF IInv, TypeOK
  <1>4. KnowsOK'
    BY KnowsFrame DEF IInv
  <1>5. Documented' /\ EachCalledOnce'
    BY DEF IInv, Documented, EachCalledOnce
  <1>6. ApprovalStands'
    BY DEF IInv, ApprovalStands
  <1>7. ASSUME u \notin past'.mixed PROVE Agrees(u)'
    <2>1. Agrees(u) /\ \A g \in Handlers \ {h} : ~Held(work[g], u)
      BY <1>7 DEF IInv, AgreesOK, Meeting, Holds, Held
    <2>2. \A g \in Handlers : work'[g] = IF g = h THEN w ELSE work[g]
      BY DEF IInv, TypeOK
    <2>3. ~Saved(work[h], u)
      BY DEF Saved
    <2>4. Settled(u)
      <3>1. \A g \in Handlers : ~Saved(work[g], u)
        BY <2>1, <2>3 DEF Held, Saved
      <3> QED
        BY <2>1, <3>1 DEF Agrees
    <2>5. Settled(u)'
      BY <2>4 DEF Settled
    <2>6. \A g \in Handlers : Held(work'[g], u) => g = h
      BY <2>1, <2>2
    <2>7. Reached(work[h], u)'
      BY <2>2 DEF Reached
    <2> QED
      BY <2>5, <2>6, <2>7 DEF Agrees, Held
  <1>8. \A v \in Users : v # u => ~Held(w, v) /\ ~Saved(work[h], v)
    BY DEF Held, Saved
  <1>9. AgreesOK'
    BY <1>7, <1>8, AgreesOthers DEF IInv
  <1> QED
    BY <1>3, <1>4, <1>5, <1>6, <1>9 DEF IInv

\* A submission ends at an approved row, or takes it up.
LEMMA SubmitKycInv == ASSUME IInv, NEW h \in Handlers, submitKyc(h) PROVE IInv'
  <1>0. work[h].user \in Users
    BY DEF submitKyc, At, IInv, KnowsOK, Knows
  <1> PICK u \in Users : u = work[h].user
    BY <1>0
  <1> DEFINE r == [status |-> "pending", docs |-> work[h].docs, reviewedBy |-> None]
  <1>1. /\ work[h] \in Local /\ work[h].pc = "read" /\ u \in Users /\ work[h].decision = "pending"
        /\ work[h].docs \in files[u] \ {0} /\ work[h].docs \in Docs
    BY DEF submitKyc, At, IInv, TypeOK, KnowsOK, Knows, Local
  <1>2. CASE kyc[u].status = "approved"
    <2>1. End(h) /\ UNCHANGED <<kyc, kycVerified, files, notices, told, answered, past, faults>>
      BY <1>2 DEF submitKyc
    <2>2. faults' \in 0..MaxFaults
      BY <2>1 DEF IInv, TypeOK
    <2> QED
      BY <1>1, <2>1, <2>2, EndInv
  <1>3. CASE kyc[u].status # "approved"
    <2>1. /\ work' = [work EXCEPT ![h].pc = "save", ![h].new = (kyc[u] = NoKyc), ![h].row = r]
          /\ past' = [past EXCEPT !.mixed = @ \cup Meeting(h, u)]
          /\ UNCHANGED <<kyc, kycVerified, files, notices, told, answered, requests, faults>>
      BY <1>3 DEF submitKyc
    <2>2. r \in UserKyc /\ r.docs \in files[u] /\ r.status = "pending"
      BY <1>1 DEF UserKyc, UserKycStatus
    <2> HIDE DEF r
    <2> PICK new \in BOOLEAN : new <=> kyc[u] = NoKyc
      OBVIOUS
    <2> PICK w : w = [work[h] EXCEPT !.pc = "save", !.new = new, !.row = r]
      OBVIOUS
    <2>3. /\ w \in Local /\ w.pc = "save" /\ w.user = u /\ w.row = r /\ w.decision = "pending"
          /\ work' = [work EXCEPT ![h] = w]
      <3>1. w \in Local
        BY <1>1, <2>2 DEF Local
      <3>2. w.pc = "save" /\ w.user = u /\ w.row = r /\ w.decision = "pending"
        BY <1>1 DEF Local
      <3>3. (kyc[u] = NoKyc) = new
        OBVIOUS
      <3>4. work' = [work EXCEPT ![h] = w]
        BY <2>1, <3>3 DEF IInv, TypeOK
      <3> QED
        BY <3>1, <3>2, <3>4
    <2>4. Meeting(h, u) \in SUBSET Users
      BY DEF Meeting
    <2>5. /\ past' \in [sent : [Users -> Docs], mixed : SUBSET Users]
          /\ past'.mixed = past.mixed \cup Meeting(h, u)
      BY <2>1, <2>4, MixedTyped DEF IInv
    <2>6. Knows(w)' /\ work[h].pc \in {"read", "find"} /\ kyc[u].status # "approved"
      BY <1>1, <1>3, <2>1, <2>2, <2>3 DEF Knows
    <2> QED
      BY <2>1, <2>2, <2>3, <2>5, <2>6, TakeUpInv
  <1> QED
    BY <1>2, <1>3

\* A review takes up a row that waits or was rejected.
LEMMA ReviewKycInv == ASSUME IInv, NEW h \in Handlers, reviewKyc(h) PROVE IInv'
  <1>0. work[h].user \in Users
    BY DEF reviewKyc, At, IInv, KnowsOK, Knows
  <1> PICK u \in Users : u = work[h].user
    BY <1>0
  <1> DEFINE r == [kyc[u] EXCEPT !.status = work[h].decision, !.reviewedBy = work[h].admin]
  <1>1. /\ work[h] \in Local /\ work[h].pc = "find" /\ u \in Users
        /\ work[h].decision \in UserKycStatus /\ work[h].admin \in Admins \cup {None}
    BY DEF reviewKyc, At, IInv, TypeOK, KnowsOK, Knows, Local, Decisions, UserKycStatus
  <1>2. CASE kyc[u].status \in {"absent", "approved"}
    <2>1. End(h) /\ UNCHANGED <<kyc, kycVerified, files, notices, told, answered, past, faults>>
      BY <1>2 DEF reviewKyc
    <2>2. faults' \in 0..MaxFaults
      BY <2>1 DEF IInv, TypeOK
    <2> QED
      BY <1>1, <2>1, <2>2, EndInv
  <1>3. CASE kyc[u].status \notin {"absent", "approved"}
    <2>1. /\ work' = [work EXCEPT ![h].pc = "save", ![h].row = r]
          /\ past' = [past EXCEPT !.mixed = @ \cup Meeting(h, u)]
          /\ UNCHANGED <<kyc, kycVerified, files, notices, told, answered, requests, faults>>
      BY <1>3 DEF reviewKyc
    <2>2. kyc[u] \in UserKyc /\ kyc[u].docs \in files[u]
      BY <1>1, <1>3, Rows DEF IInv, Documented
    <2>3. r \in UserKyc /\ r.docs \in files[u] /\ r.status = work[h].decision
      BY <1>1, <2>2 DEF UserKyc
    <2> HIDE DEF r
    <2> PICK w : w = [work[h] EXCEPT !.pc = "save", !.row = r]
      OBVIOUS
    <2>4. /\ w \in Local /\ w.pc = "save" /\ w.user = u /\ w.row = r
          /\ w.decision = work[h].decision
          /\ work' = [work EXCEPT ![h] = w]
      BY <1>1, <2>1, <2>3 DEF Local
    <2>5. Meeting(h, u) \in SUBSET Users
      BY DEF Meeting
    <2>6. /\ past' \in [sent : [Users -> Docs], mixed : SUBSET Users]
          /\ past'.mixed = past.mixed \cup Meeting(h, u)
      BY <2>1, <2>5, MixedTyped DEF IInv
    <2>7. Knows(w)' /\ work[h].pc \in {"read", "find"} /\ kyc[u].status # "approved"
      BY <1>1, <1>3, <2>1, <2>3, <2>4, <2>6 DEF Knows
    <2> QED
      BY <2>1, <2>3, <2>4, <2>6, <2>7, TakeUpInv
  <1> QED
    BY <1>2, <1>3

-----------------------------------------------------------------------------
(* The three writes of a request that holds the row of u *)

\* Only what is said of u has to be looked at.
LEMMA WriteInv ==
  ASSUME IInv, NEW h \in Handlers, NEW w \in Local, NEW u \in Users, work' = [work EXCEPT ![h] = w],
         Held(work[h], u), \A v \in Users : v # u => ~Held(w, v), w.pc # "invite", Knows(w)',
         \A v \in Users : v # u => /\ kyc'[v] = kyc[v] /\ kycVerified'[v] = kycVerified[v],
         UNCHANGED <<files, answered>>, past.mixed \subseteq past'.mixed,
         kyc[u].status # "absent" => kyc'[u].status # "absent",
         TypeOK', Documented', ApprovalStands', u \notin past'.mixed => Agrees(u)'
  PROVE  IInv'
  <1>1. KnowsOK'
    BY KnowsFrame DEF IInv
  <1>2. \A v \in Users : v # u => ~Saved(work[h], v)
    BY DEF Held, Saved
  <1>3. AgreesOK'
    BY <1>2, AgreesOthers DEF IInv
  <1>4. EachCalledOnce'
    BY DEF IInv, EachCalledOnce
  <1> QED
    BY <1>1, <1>3, <1>4 DEF IInv

\* The holder is alone.
LEMMA HolderAlone ==
  ASSUME IInv, NEW h \in Handlers, NEW u \in Users, Held(work[h], u), u \notin past.mixed
  PROVE  /\ Agrees(u) /\ Reached(work[h], u)
         /\ \A g \in Handlers : g # h => ~Held(work[g], u) /\ ~Saved(work[g], u)
  <1>1. Agrees(u)
    BY DEF IInv, AgreesOK
  <1> QED
    BY <1>1 DEF Agrees, Held, Saved

\* The row is saved whole, with documents that are on the disk.
LEMMA SaveInv == ASSUME IInv, NEW h \in Handlers, save(h) PROVE IInv'
  <1>0. work[h].user \in Users
    BY DEF save, At, IInv, KnowsOK, Knows
  <1> PICK u \in Users : u = work[h].user
    BY <1>0
  <1>1. /\ work[h] \in Local /\ work[h].pc = "save" /\ Knows(work[h]) /\ Held(work[h], u)
        /\ UNCHANGED <<kycVerified, files, notices, told, answered, requests, faults, past>>
    BY DEF save, At, IInv, TypeOK, KnowsOK, Held
  <1>2. CASE work[h].new /\ kyc[u] # NoKyc
    <2>1. End(h) /\ UNCHANGED kyc
      BY <1>2 DEF save
    <2>2. faults' \in 0..MaxFaults
      BY <1>1 DEF IInv, TypeOK
    <2> QED
      BY <1>1, <2>1, <2>2, EndInv
  <1>3. CASE ~(work[h].new /\ kyc[u] # NoKyc)
    <2> PICK pc : pc = IF work[h].decision = "pending" THEN "emit" ELSE "flag"
      OBVIOUS
    <2> PICK w : w = [work[h] EXCEPT !.pc = pc]
      OBVIOUS
    <2>1. /\ kyc' = [kyc EXCEPT ![u] = work[h].row] /\ work' = [work EXCEPT ![h] = w]
      BY <1>3 DEF save, Goto
    <2>2. /\ w \in Local /\ w.pc \in {"flag", "emit"} /\ w.user = u /\ w.decision = work[h].decision
          /\ w.pc = "emit" => w.decision = "pending"
      BY <1>1 DEF Local
    <2>3. /\ kyc' \in [Users -> UserKyc \cup {NoKyc}]
          /\ kyc'[u] = work[h].row /\ kyc'[u].status = w.decision
          /\ \A v \in Users : v # u => kyc'[v] = kyc[v]
      BY <1>1, <2>1, <2>2 DEF IInv, TypeOK, Knows
    <2>4. TypeOK'
      BY <1>1, <2>1, <2>2, <2>3 DEF IInv, TypeOK
    <2>5. /\ kyc'[u].status # "absent" /\ kyc'[u].docs \in files[u]
      BY <1>1, <2>3 DEF Knows, UserKyc, UserKycStatus
    <2>6. Documented' /\ Knows(w)'
      BY <1>1, <2>2, <2>3, <2>5 DEF IInv, Documented, Knows
    <2>7. ASSUME u \notin past'.mixed PROVE Agrees(u)'
      <3>1. /\ Agrees(u) /\ Reached(work[h], u)
            /\ \A g \in Handlers : g # h => ~Held(work[g], u) /\ ~Saved(work[g], u)
        BY <1>1, <2>7, HolderAlone
      <3>2. \A g \in Handlers : work'[g] = IF g = h THEN w ELSE work[g]
        BY <2>1 DEF IInv, TypeOK
      <3>3. ~kycVerified[u]
        <4>1. ~Saved(work[h], u)
          BY <1>1 DEF Saved
        <4> QED
          BY <1>1, <3>1, <4>1 DEF Agrees, Settled, Reached
      <3>4. Saved(w, u) /\ \A g \in Handlers : Held(work'[g], u) => g = h
        BY <2>2, <3>1, <3>2 DEF Saved
      <3>5. work'[h] = w
        BY <3>2
      <3>6. ~kycVerified'[u]
        BY <1>1, <3>3
      <3>7. Reached(work[h], u)'
        BY <2>2, <2>3, <3>5, <3>6 DEF Reached
      <3> QED
        BY <3>4, <3>7, <3>5 DEF Agrees, Held, Saved
    <2>8. \A v \in Users : v # u => ~Held(w, v)
      BY <2>2 DEF Held
    <2>9. ApprovalStands'
      <3> SUFFICES ASSUME NEW v \in Users, v \notin past.mixed,
                          "approved" \in notices[v] \cup {told[v]}
                   PROVE  kycVerified[v] /\ kyc'[v].status = "approved"
        BY <1>1 DEF ApprovalStands
      <3>1. kycVerified[v] /\ kyc[v].status = "approved"
        BY DEF IInv, ApprovalStands
      <3>2. CASE v = u
        <4>1. kyc[u].status # "approved"
          BY <1>1, <3>2, HolderAlone DEF Reached
        <4> QED
          BY <3>1, <3>2, <4>1
      <3>3. CASE v # u
        BY <2>3, <3>1, <3>3
      <3> QED
        BY <3>2, <3>3
    <2> QED
      <3>1. /\ \A v \in Users : v # u => /\ kyc'[v] = kyc[v] /\ kycVerified'[v] = kycVerified[v]
            /\ UNCHANGED <<files, answered>> /\ past.mixed \subseteq past'.mixed
        BY <1>1, <2>3
      <3> QED
        BY <1>1, <2>1, <2>2, <2>4, <2>5, <2>6, <2>7, <2>8, <2>9, <3>1, WriteInv
  <1> QED
    BY <1>2, <1>3

\* The flag follows the decision.
LEMMA FlagInv == ASSUME IInv, NEW h \in Handlers, flag(h) PROVE IInv'
  <1>0. work[h].user \in Users
    BY DEF flag, At, IInv, KnowsOK, Knows
  <1> PICK u \in Users : u = work[h].user
    BY <1>0
  <1> PICK w : w = [work[h] EXCEPT !.pc = "emit"]
    OBVIOUS
  <1>1. /\ work[h] \in Local /\ work[h].pc = "flag" /\ Held(work[h], u)
        /\ UNCHANGED <<kyc, files, notices, told, answered, requests, faults, past>>
        /\ kycVerified' = [kycVerified EXCEPT ![u] = (work[h].decision = "approved")]
        /\ work' = [work EXCEPT ![h] = w]
    BY DEF flag, At, Goto, IInv, TypeOK, Held
  <1>2. w \in Local /\ w.pc = "emit" /\ w.user = u /\ w.decision = work[h].decision
    BY <1>1 DEF Local
  <1>3. TypeOK'
    BY <1>1, <1>2 DEF IInv, TypeOK
  <1>4. Knows(w)' /\ kyc[u].status # "absent"
    BY <1>1, <1>2 DEF IInv, KnowsOK, Knows
  <1>5. /\ kycVerified'[u] <=> w.decision = "approved"
        /\ \A v \in Users : v # u => kycVerified'[v] = kycVerified[v]
    BY <1>1, <1>2 DEF IInv, TypeOK
  <1>6. ASSUME u \notin past'.mixed PROVE Agrees(u)'
    <2>1. /\ Agrees(u) /\ Reached(work[h], u)
          /\ \A g \in Handlers : g # h => ~Held(work[g], u) /\ ~Saved(work[g], u)
      BY <1>1, <1>6, HolderAlone
    <2>2. \A g \in Handlers : work'[g] = IF g = h THEN w ELSE work[g]
      BY <1>1 DEF IInv, TypeOK
    <2>3. Saved(w, u) /\ \A g \in Handlers : Held(work'[g], u) => g = h
      BY <1>2, <2>1, <2>2 DEF Saved
    <2>4. Reached(work[h], u)'
      BY <1>1, <1>2, <1>5, <2>1, <2>2 DEF Reached
    <2> QED
      BY <2>3, <2>4, <2>2 DEF Agrees, Held, Saved
  <1>7. \A v \in Users : v # u => ~Held(w, v)
    BY <1>2 DEF Held
  <1>8. /\ \A v \in Users : v # u => /\ kyc'[v] = kyc[v] /\ kycVerified'[v] = kycVerified[v]
        /\ UNCHANGED <<files, answered>> /\ past.mixed \subseteq past'.mixed
    BY <1>1, <1>5
  <1>9. Documented'
    BY <1>1, <1>4, <1>5 DEF IInv, Documented
  <1>10. ApprovalStands'
    <2> SUFFICES ASSUME NEW v \in Users, v \notin past.mixed,
                        "approved" \in notices[v] \cup {told[v]}
                 PROVE  kycVerified'[v] /\ kyc[v].status = "approved"
      BY <1>1 DEF ApprovalStands
    <2>1. kycVerified[v] /\ kyc[v].status = "approved"
      BY DEF IInv, ApprovalStands
    <2>2. CASE v = u
      <3>1. kyc[u].status = work[h].decision
        BY <1>1, <2>2, HolderAlone DEF Reached
      <3> QED
        BY <1>2, <1>5, <2>1, <2>2, <3>1
    <2>3. CASE v # u
      BY <1>5, <2>1, <2>3
    <2> QED
      BY <2>2, <2>3
  <1> QED
    BY <1>1, <1>2, <1>3, <1>4, <1>6, <1>7, <1>8, <1>9, <1>10, WriteInv

\* A request whose writes are done leaves the row, whatever it says of it.
LEMMA LeaveInv ==
  ASSUME IInv, NEW h \in Handlers, NEW u \in Users, u = work[h].user, End(h),
         work[h].pc = "emit",
         UNCHANGED <<kyc, kycVerified, files, told, answered, past>>,
         notices' \in [Users -> SUBSET (Decisions \cup {"pending"})], faults' \in 0..MaxFaults,
         \A v \in Users : \A d \in notices'[v] : d \in notices[v] \/ (v = u /\ d = work[h].decision)
  PROVE  IInv'
  <1>1. PICK w : w = Idle
    OBVIOUS
  <1>2. /\ w \in Local /\ w.pc = "idle" /\ \A v : ~Held(w, v) /\ ~Saved(w, v)
        /\ work' = [work EXCEPT ![h] = w] /\ Held(work[h], u)
    BY <1>1, IdleLocal DEF End, Held
  <1>3. TypeOK' /\ Documented'
    BY <1>2 DEF IInv, TypeOK, Documented
  <1>4. Knows(w)'
    BY <1>2 DEF Knows
  <1>5. ASSUME u \notin past.mixed
        PROVE  /\ Agrees(u) /\ Reached(work[h], u)
               /\ \A g \in Handlers : g # h => ~Held(work[g], u)
    BY <1>2, <1>5, HolderAlone
  <1>6. ASSUME u \notin past'.mixed PROVE Agrees(u)'
    <2>1. \A g \in Handlers : work'[g] = IF g = h THEN w ELSE work[g]
      BY <1>2 DEF IInv, TypeOK
    <2>2. Settled(u)'
      BY <1>5, <1>6 DEF Settled, Reached
    <2>3. \A g \in Handlers : ~Held(work'[g], u)
      BY <1>2, <1>5, <1>6, <2>1
    <2> QED
      BY <2>2, <2>3 DEF Agrees, Held
  <1>7. ApprovalStands'
    <2> SUFFICES ASSUME NEW v \in Users, v \notin past.mixed,
                        "approved" \in notices'[v] \cup {told[v]}
                 PROVE  kycVerified[v] /\ kyc[v].status = "approved"
      BY DEF ApprovalStands
    <2>1. CASE "approved" \in notices[v] \cup {told[v]}
      BY <2>1 DEF IInv, ApprovalStands
    <2>2. CASE v = u /\ work[h].decision = "approved"
      BY <1>5, <2>2 DEF Reached
    <2> QED
      BY <2>1, <2>2
  <1> QED
    BY <1>2, <1>3, <1>4, <1>6, <1>7, WriteInv

\* The event says what stands.
LEMMA EmitInv == ASSUME IInv, NEW h \in Handlers, emit(h) PROVE IInv'
  <1>0. work[h].user \in Users
    BY DEF emit, At, IInv, KnowsOK, Knows
  <1>1. PICK u \in Users : u = work[h].user
    BY <1>0
  <1>2. /\ work[h].pc = "emit" /\ End(h) /\ work[h].decision \in Decisions \cup {"pending"}
        /\ notices' = [notices EXCEPT ![u] = @ \cup {work[h].decision}]
        /\ UNCHANGED <<kyc, kycVerified, files, told, answered, past, faults>>
    BY <1>1 DEF emit, At, IInv, TypeOK, Local
  <1>3. /\ notices' \in [Users -> SUBSET (Decisions \cup {"pending"})] /\ faults' \in 0..MaxFaults
        /\ \A v \in Users : \A d \in notices'[v] :
              d \in notices[v] \/ (v = u /\ d = work[h].decision)
    BY <1>2 DEF IInv, TypeOK
  <1> QED
    BY <1>1, <1>2, <1>3, LeaveInv

\* A notification is shown, or lost.
LEMMA NotifyInv == ASSUME IInv, NEW u \in Users, notify(u) PROVE IInv'
  <1>1. PICK n \in notices[u], shown \in BOOLEAN :
          /\ notices' = [notices EXCEPT ![u] = @ \ {n}]
          /\ told' = IF shown THEN [told EXCEPT ![u] = n] ELSE told
          /\ UNCHANGED <<kyc, kycVerified, files, work, answered, requests, faults, past>>
    BY DEF notify
  <1>2. TypeOK'
    BY <1>1 DEF IInv, TypeOK
  <1>3. \A v \in Users : notices'[v] \cup {told'[v]} \subseteq notices[v] \cup {told[v]}
    BY <1>1 DEF IInv, TypeOK
  <1>4. ApprovalStands'
    BY <1>1, <1>3 DEF IInv, ApprovalStands
  <1>5. Documented' /\ EachCalledOnce'
    BY <1>1 DEF IInv, Documented, EachCalledOnce
  <1>6. KnowsOK' /\ AgreesOK'
    BY <1>1 DEF IInv, KnowsOK, Knows, Campaign, AgreesOK, Agrees, Settled, Reached, Held, Saved
  <1> QED
    BY <1>2, <1>4, <1>5, <1>6 DEF IInv

\* A failure between the two writes is one of those the history names.
LEMMA FailInv == ASSUME IInv, NEW h \in Handlers, Fail(h) PROVE IInv'
  <1>1. /\ End(h) /\ faults' \in 0..MaxFaults
        /\ UNCHANGED <<kyc, kycVerified, files, notices, told, answered, requests>>
    <2>1. faults \in 0..MaxFaults /\ faults < MaxFaults /\ faults' = faults + 1
      BY DEF Fail, IInv, TypeOK
    <2>2. faults' \in 0..MaxFaults
      BY <2>1, Numbers
    <2> QED
      BY <2>2 DEF Fail
  <1>2. CASE work[h].pc \notin {"flag", "emit"}
    <2>1. past' = past
      BY <1>2 DEF Fail, At
    <2> QED
      BY <1>1, <1>2, <2>1, EndInv
  <1>3. CASE work[h].pc = "emit"
    <2>1. past' = past /\ work[h].user \in Users
      BY <1>3 DEF Fail, At, IInv, KnowsOK, Knows
    <2>2. PICK u \in Users : u = work[h].user
      BY <2>1
    <2>3. /\ notices' \in [Users -> SUBSET (Decisions \cup {"pending"})]
          /\ \A v \in Users : notices'[v] = notices[v]
      BY <1>1 DEF IInv, TypeOK
    <2> QED
      BY <1>1, <1>3, <2>1, <2>2, <2>3, LeaveInv
  <1>4. CASE work[h].pc = "flag"
    <2>0. work[h].user \in Users
      BY <1>4 DEF IInv, KnowsOK, Knows
    <2> PICK u \in Users : u = work[h].user
      BY <2>0
    <2> PICK w : w = Idle
      OBVIOUS
    <2>1. /\ w \in Local /\ w.pc = "idle" /\ \A v : ~Held(w, v)
      BY IdleLocal
    <2>2. /\ work' = [work EXCEPT ![h] = w] /\ past' = [past EXCEPT !.mixed = @ \cup {u}]
          /\ Held(work[h], u)
      BY <1>1, <1>4 DEF Fail, At, End, Held
    <2>3. /\ past' \in [sent : [Users -> Docs], mixed : SUBSET Users]
          /\ past'.mixed = past.mixed \cup {u}
      <3>1. {u} \in SUBSET Users
        OBVIOUS
      <3> QED
        BY <2>2, <3>1, MixedTyped DEF IInv
    <2>4. TypeOK' /\ Documented' /\ ApprovalStands'
      BY <1>1, <2>1, <2>2, <2>3 DEF IInv, TypeOK, Documented, ApprovalStands
    <2>5. Knows(w)'
      BY <2>1 DEF Knows
    <2> QED
      BY <1>1, <2>1, <2>2, <2>3, <2>4, <2>5, WriteInv
  <1> QED
    BY <1>2, <1>3, <1>4

-----------------------------------------------------------------------------
(* The campaigns *)

\* A campaign begins with nobody called.
LEMMA SendInv ==
  ASSUME IInv, NEW h \in Handlers, NEW a \in Admins, sendKycInvitation(h, a)
  PROVE  IInv'
  <1>1. PICK dto \in SendKycInvitationDto : \E b \in Batches(Targets(dto, a)) :
          Receive(h, [Idle EXCEPT !.pc = "invite", !.admin = a, !.chosen = Targets(dto, a),
                                  !.todo = Targets(dto, a) \ b, !.batch = b])
    BY DEF sendKycInvitation
  <1>2. Targets(dto, a) \in SUBSET Users
    BY TargetsAreUsers
  <1>3. PICK chosen \in SUBSET Users : chosen = Targets(dto, a)
    BY <1>2
  <1>4. PICK b \in Batches(chosen) :
          Receive(h, [Idle EXCEPT !.pc = "invite", !.admin = a, !.chosen = chosen,
                                  !.todo = chosen \ b, !.batch = b])
    BY <1>1, <1>3
  <1>5. PICK rest : rest = chosen \ b
    OBVIOUS
  <1>6. PICK w : w = [Idle EXCEPT !.pc = "invite", !.admin = a, !.chosen = chosen,
                                  !.todo = rest, !.batch = b]
    OBVIOUS
  <1>7. Receive(h, w)
    BY <1>4, <1>5, <1>6
  <1>8. b \subseteq chosen /\ b \in SUBSET Users /\ rest \in SUBSET Users
    BY <1>5, BatchInTodo
  <1>9. /\ w \in Local /\ w.pc = "invite" /\ w.chosen = chosen /\ w.todo = rest /\ w.batch = b
        /\ w.calls = NoCalls /\ w.decision = "pending"
    BY <1>6, <1>8, IdleLocal DEF Local, Idle
  <1>10. Campaign(w)
    BY <1>5, <1>8, <1>9 DEF Campaign, NoCalls
  <1>11. Knows(w)
    BY <1>9, <1>10 DEF Knows
  <1> QED
    BY <1>7, <1>9, <1>11, ReceiveInv

\* A step of a campaign.
LEMMA CampaignInv ==
  ASSUME IInv, NEW h \in Handlers, NEW w \in Local, work' = [work EXCEPT ![h] = w],
         work[h].pc = "invite", w.pc \in {"idle", "invite"},
         UNCHANGED <<kyc, kycVerified, files, notices, told, past, faults>>,
         answered' \in Answer, w.pc = "invite" => Campaign(w), EachCalledOnce'
  PROVE  IInv'
  <1>1. Knows(w)' /\ \A u \in Users : ~Held(w, u) /\ ~Saved(work[h], u)
    BY DEF Knows, Campaign, Held, Saved
  <1>2. /\ files' \in [Users -> SUBSET Docs] /\ faults' \in 0..MaxFaults
        /\ past' \in [sent : [Users -> Docs], mixed : SUBSET Users]
    BY DEF IInv, TypeOK
  <1> QED
    BY <1>1, <1>2, Quiet

\* A user leaves the slice, called once.
LEMMA NotifyUserInv ==
  ASSUME IInv, NEW h \in Handlers, NEW u \in Users, notifyUser(h, u)
  PROVE  IInv'
  <1>1. PICK queued \in BOOLEAN :
        /\ At(h, "invite") /\ u \in work[h].batch
        /\ work' = [work EXCEPT ![h].batch = @ \ {u}, ![h].calls[u] = @ + 1,
                                ![h].reached = IF queued THEN @ \cup {u} ELSE @]
        /\ UNCHANGED <<kyc, kycVerified, files, notices, told, answered, requests, faults, past>>
    BY DEF notifyUser
  <1>2. /\ work[h] \in Local /\ work[h].pc = "invite" /\ Campaign(work[h])
        /\ work[h].calls \in [Users -> Nat] /\ work[h].reached \in SUBSET Users
        /\ work[h].batch \in SUBSET Users
    BY <1>1 DEF At, IInv, TypeOK, KnowsOK, Knows, Local
  <1>3. PICK calls : calls = [work[h].calls EXCEPT ![u] = @ + 1]
    OBVIOUS
  <1>4. PICK reached : reached = IF queued THEN work[h].reached \cup {u} ELSE work[h].reached
    OBVIOUS
  <1>5. PICK rest : rest = work[h].batch \ {u}
    OBVIOUS
  <1>6. calls \in [Users -> Nat] /\ reached \in SUBSET Users /\ rest \in SUBSET Users
    BY <1>2, <1>3, <1>4, <1>5
  <1>7. PICK w : w = [work[h] EXCEPT !.batch = rest, !.calls = calls, !.reached = reached]
    OBVIOUS
  <1>8. work' = [work EXCEPT ![h] = w]
    BY <1>1, <1>3, <1>4, <1>5, <1>7
  <1>9. /\ w.pc = "invite" /\ w.chosen = work[h].chosen /\ w.todo = work[h].todo
        /\ w.batch = rest /\ w.calls = calls /\ w \in Local
    BY <1>2, <1>6, <1>7 DEF Local
  <1>10. Campaign(w)
    <2>1. u \in w.chosen /\ u \notin w.todo
      BY <1>1, <1>2, <1>9 DEF Campaign
    <2>2. work[h].calls[u] = 0
      BY <1>1, <1>2 DEF Campaign
    <2>3. calls[u] = 1 /\ \A v \in Users : v # u => calls[v] = work[h].calls[v]
      BY <1>2, <1>3, <2>2
    <2>4. w.todo \cup w.batch \subseteq w.chosen /\ w.todo \cap w.batch = {}
      BY <1>2, <1>5, <1>9 DEF Campaign
    <2>5. ASSUME NEW v \in Users
          PROVE  w.calls[v] = IF v \in w.chosen /\ v \notin w.todo /\ v \notin w.batch THEN 1 ELSE 0
      <3>1. CASE v = u
        BY <1>5, <1>9, <2>1, <2>3, <3>1
      <3>2. CASE v # u
        BY <1>2, <1>5, <1>9, <2>3, <3>2 DEF Campaign
      <3> QED
        BY <3>1, <3>2
    <2> QED
      BY <2>4, <2>5 DEF Campaign
  <1>11. EachCalledOnce' /\ answered' \in Answer
    BY <1>1 DEF IInv, TypeOK, EachCalledOnce
  <1> QED
    BY <1>1, <1>2, <1>8, <1>9, <1>10, <1>11, CampaignInv

\* The next slice is taken from those left.
LEMMA ContinueInv == ASSUME IInv, NEW h \in Handlers, continueInvitation(h) PROVE IInv'
  <1>1. PICK b \in Batches(work[h].todo) :
          work' = [work EXCEPT ![h].todo = @ \ b, ![h].batch = b]
    BY DEF continueInvitation
  <1>2. /\ work[h] \in Local /\ work[h].pc = "invite" /\ work[h].batch = {} /\ Campaign(work[h])
        /\ work[h].todo \in SUBSET Users
        /\ UNCHANGED <<kyc, kycVerified, files, notices, told, answered, requests, faults, past>>
    BY DEF continueInvitation, At, IInv, TypeOK, KnowsOK, Knows, Local
  <1>3. b \subseteq work[h].todo
    BY BatchInTodo
  <1>4. PICK rest : rest = work[h].todo \ b
    OBVIOUS
  <1>5. PICK w : w = [work[h] EXCEPT !.todo = rest, !.batch = b]
    OBVIOUS
  <1>6. b \in SUBSET Users /\ rest \in SUBSET Users
    BY <1>2, <1>3, <1>4
  <1>7. /\ w \in Local /\ w.pc = "invite" /\ w.chosen = work[h].chosen /\ w.todo = rest
        /\ w.batch = b /\ w.calls = work[h].calls /\ work' = [work EXCEPT ![h] = w]
    BY <1>1, <1>2, <1>4, <1>5, <1>6 DEF Local
  <1>8. Campaign(w)
    BY <1>2, <1>3, <1>4, <1>7 DEF Campaign
  <1>9. EachCalledOnce' /\ answered' \in Answer
    BY <1>2 DEF IInv, TypeOK, EachCalledOnce
  <1> QED
    BY <1>2, <1>7, <1>8, <1>9, CampaignInv

\* The answer counts whom the campaign chose, and it called each of them once.
LEMMA AnswerInv == ASSUME IInv, NEW h \in Handlers, answerInvitation(h) PROVE IInv'
  <1>1. PICK w : w = Idle
    OBVIOUS
  <1>2. /\ work[h] \in Local /\ work[h].pc = "invite" /\ Campaign(work[h])
        /\ work[h].batch = {} /\ work[h].todo = {} /\ work' = [work EXCEPT ![h] = w]
        /\ answered' = [notified |-> Cardinality(work[h].chosen), calls |-> work[h].calls,
                        reached |-> work[h].reached]
        /\ UNCHANGED <<kyc, kycVerified, files, notices, told, requests, faults, past>>
    BY <1>1 DEF answerInvitation, At, End, IInv, TypeOK, KnowsOK, Knows
  <1>3. w \in Local /\ w.pc = "idle"
    BY <1>1, IdleLocal
  <1>4. /\ work[h].chosen \in SUBSET Users /\ work[h].calls \in [Users -> Nat]
        /\ work[h].reached \in SUBSET Users
    BY <1>2 DEF Local
  <1>5. Cardinality(work[h].chosen) \in Nat
    BY <1>4, Numbers, FS_Subset, FS_CardinalityType
  <1>6. answered' \in Answer
    BY <1>2, <1>4, <1>5 DEF Answer
  <1>7. EachCalledOnce'
    <2>1. \A u \in Users : work[h].calls[u] = IF u \in work[h].chosen THEN 1 ELSE 0
      BY <1>2 DEF Campaign
    <2>2. {u \in Users : work[h].calls[u] = 1} = work[h].chosen
      BY <1>4, <2>1
    <2>3. \A u \in Users : work[h].calls[u] <= 1
      BY <2>1
    <2>4. answered'.calls = work[h].calls /\ answered'.notified = Cardinality(work[h].chosen)
      BY <1>2
    <2> QED
      BY <2>2, <2>3, <2>4 DEF EachCalledOnce
  <1> QED
    BY <1>2, <1>3, <1>6, <1>7, CampaignInv

-----------------------------------------------------------------------------
(* The theorems *)

\* The initial states satisfy the invariant.
LEMMA InitInv == Init => IInv
  <1> SUFFICES ASSUME Init PROVE IInv
    OBVIOUS
  <1>1. TypeOK
    BY IdleLocal, Numbers DEF Init, TypeOK, Docs, Answer, NoAnswer, NoCalls
  <1>2. KnowsOK /\ Documented
    BY IdleLocal DEF Init, KnowsOK, Knows, Documented, NoKyc
  <1>3. AgreesOK
    BY IdleLocal DEF Init, AgreesOK, Agrees, Settled, NoKyc
  <1>4. ApprovalStands
    BY DEF Init, ApprovalStands
  <1>5. EachCalledOnce
    <2>1. answered.notified = 0 /\ \A u \in Users : answered.calls[u] = 0
      BY DEF Init, NoAnswer, NoCalls
    <2>2. {u \in Users : answered.calls[u] = 1} = {}
      BY <2>1
    <2>3. \A u \in Users : answered.calls[u] <= 1
      BY <2>1
    <2> QED
      BY <2>1, <2>2, <2>3, FS_EmptySet DEF EachCalledOnce
  <1> QED
    BY <1>1, <1>2, <1>3, <1>4, <1>5 DEF IInv

\* Every action keeps the invariant.
LEMMA NextInv == IInv /\ [Next]_vars => IInv'
  <1> SUFFICES ASSUME IInv, [Next]_vars PROVE IInv'
    OBVIOUS
  <1>1. CASE UNCHANGED vars
    <2>1. TypeOK' /\ Documented' /\ ApprovalStands' /\ EachCalledOnce'
      BY <1>1 DEF vars, IInv, TypeOK, Documented, ApprovalStands, EachCalledOnce
    <2>2. KnowsOK' /\ AgreesOK'
      BY <1>1 DEF vars, IInv, KnowsOK, Knows, Campaign, AgreesOK, Agrees, Settled, Reached
    <2> QED
      BY <2>1, <2>2 DEF IInv
  <1>2. CASE Next
    <2>1. ASSUME NEW h \in Handlers, NEW u \in Users, submit(h, u) \/ notifyUser(h, u) PROVE IInv'
      BY <2>1, SubmitInv, NotifyUserInv
    <2>2. ASSUME NEW h \in Handlers, NEW a \in Admins,
                 sendKycInvitation(h, a) \/ \E u \in Users : review(h, a, u)
          PROVE  IInv'
      BY <2>2, SendInv, ReviewInv
    <2>3. ASSUME NEW h \in Handlers,
                 \/ saveFiles(h) \/ submitKyc(h) \/ reviewKyc(h) \/ save(h) \/ flag(h) \/ emit(h)
                 \/ continueInvitation(h) \/ answerInvitation(h) \/ Fail(h)
          PROVE  IInv'
      BY <2>3, SaveFilesInv, SubmitKycInv, ReviewKycInv, SaveInv, FlagInv, EmitInv,
         ContinueInv, AnswerInv, FailInv
    <2>4. ASSUME NEW u \in Users, notify(u) PROVE IInv'
      BY <2>4, NotifyInv
    <2> QED
      BY <1>2, <2>1, <2>2, <2>3, <2>4 DEF Next
  <1> QED
    BY <1>1, <1>2

\* The invariant holds in every reachable state.
THEOREM Invariance == Spec => []IInv
  BY InitInv, NextInv, PTL DEF Spec

\* The variables have their types.
THEOREM TypeCorrect == Spec => []TypeOK
  <1>1. IInv => TypeOK
    BY DEF IInv
  <1> QED
    BY <1>1, Invariance, PTL

\* A verified user has a file and the documents of a row are on the disk, always;
\* the flag says whether the file is approved, and a user told of an approval, in
\* whatever order the listener's notifications come, has it and keeps it, unless
\* two requests held the row together or one stopped between its two writes
\* (submitKyc, reviewKyc).
THEOREM KycAgreesTheorem == Spec => []KycAgrees
  <1>1. IInv => FlagAgrees
    <2> SUFFICES ASSUME IInv, NEW u \in Users, u \notin past.mixed,
                        \A h \in Handlers : ~Holds(h, u)
                 PROVE  kycVerified[u] <=> kyc[u].status = "approved"
      BY DEF FlagAgrees
    <2>1. \A h \in Handlers : ~Saved(work[h], u)
      BY DEF Holds, Saved
    <2> QED
      BY <2>1 DEF IInv, AgreesOK, Agrees, Settled
  <1>2. IInv => KycAgrees
    BY <1>1 DEF IInv, KycAgrees
  <1> QED
    BY <1>2, Invariance, PTL

\* A campaign that answers has called notify() once for each user it counts, and
\* for nobody else, however its unordered list was sliced (sendKycInvitation).
THEOREM InvitationTheorem == Spec => []EachCalledOnce
  <1>1. IInv => EachCalledOnce
    BY DEF IInv
  <1> QED
    BY <1>1, Invariance, PTL
=============================================================================
