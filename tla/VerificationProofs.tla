------------------------- MODULE VerificationProofs -------------------------
(***************************************************************************)
(* Proofs about Verification, for any number of people, contents and       *)
(* submissions.                                                            *)
(***************************************************************************)
EXTENDS Verification, SequenceTheorems, FiniteSetTheorems, TLAPS

-----------------------------------------------------------------------------
(* Type correctness                                                        *)

\* The requests of each kind, as VerificationTypeOK describes them.
AtForm == [pc : {"createProfile", "resubmitProfile", "insertPage", "rewritePage", "submitPage"},
           person : People, content : Contents, row : {0}, choice : {Null}]
AtPage == [pc : {"findRow"}, person : People, content : Contents, row : {0}, choice : Verdict]
AtDecision == [pc : {"decidePage", "decideProfile"}, person : People, content : Contents,
               row : Nat \ {0}, choice : Verdict]
AtRow == [pc : {"findEntity", "mail"}, person : People, content : {Null},
          row : Nat \ {0}, choice : Verdict]
AtOnboarding == [pc : {"onboard"}, person : People, content : {Null}, row : {0},
                 choice : {"AGENT", "LANDLORD"}]

LEMMA Kinds ==
    Request = AtForm \cup AtPage \cup AtDecision \cup AtRow \cup AtOnboarding
BY DEF Request, AtForm, AtPage, AtDecision, AtRow, AtOnboarding

\* The await a request is at tells its kind.
LEMMA KindAt ==
    ASSUME VerificationTypeOK, NEW r \in Reqs
    PROVE  /\ call[r].pc \in {"createProfile", "resubmitProfile", "insertPage",
                              "rewritePage", "submitPage"} => call[r] \in AtForm
           /\ call[r].pc = "findRow" => call[r] \in AtPage
           /\ call[r].pc \in {"decidePage", "decideProfile"} => call[r] \in AtDecision
           /\ call[r].pc \in {"findEntity", "mail"} => call[r] \in AtRow
           /\ call[r].pc = "onboard" => call[r] \in AtOnboarding
           /\ call[r].pc = "idle" => call[r] = IdleCall
<1>1. call[r] \in Request \cup {IdleCall}
  BY DEF VerificationTypeOK
<1>2. IdleCall.pc = "idle"
  BY DEF IdleCall
<1>3. QED
  BY <1>1, <1>2, Kinds DEF AtForm, AtPage, AtDecision, AtRow, AtOnboarding

LEMMA CallType ==
    ASSUME VerificationTypeOK, NEW r \in Reqs, NEW next \in Request \cup {IdleCall},
           call' = [call EXCEPT ![r] = next]
    PROVE  call' \in [Reqs -> Request \cup {IdleCall}]
BY DEF VerificationTypeOK

\* A row is added to the queue.
LEMMA QueuedType ==
    ASSUME VerificationTypeOK, NEW p \in People, NEW c \in Contents,
           NEW entity \in {"student_profile", "provider_page"}
    PROVE  Queued(entity, p, c) \in Seq(Submission)
<1>1. [entity |-> entity, person |-> p, content |-> c, status |-> "PENDING"] \in Submission
  BY DEF Submission, ProfileStatus
<1>2. QED
  BY <1>1, AppendProperties DEF Queued, VerificationTypeOK

\* A row of the queue is decided.
LEMMA DecidedType ==
    ASSUME VerificationTypeOK, NEW i \in Nat, NEW verdict \in Verdict
    PROVE  Decided(i, verdict) \in Seq(Submission)
<1>1. submissions \in Seq(Submission) /\ Len(submissions) \in Nat
      /\ submissions \in [1..Len(submissions) -> Submission]
  BY LenProperties DEF VerificationTypeOK
<1>2. \A s \in Submission : [s EXCEPT !.status = verdict] \in Submission
  BY DEF Submission, ProfileStatus
<1>3. Decided(i, verdict) \in [1..Len(submissions) -> Submission]
  BY <1>1, <1>2 DEF Decided
<1>4. QED
  BY <1>1, <1>3, SeqDef

LEMMA RecordedType ==
    ASSUME VerificationTypeOK, NEW p \in People, NEW origin \in IdentityOrigin
    PROVE  Recorded(p, origin) \in [People -> [IdentityOrigin -> Nat]]
BY DEF Recorded, VerificationTypeOK

\* A request starts, answers, or goes on to its mail.
LEMMA StartType ==
    ASSUME VerificationTypeOK, NEW r \in Reqs, NEW pc, NEW p, NEW c, NEW i, NEW choice,
           [pc |-> pc, person |-> p, content |-> c, row |-> i, choice |-> choice] \in Request,
           Start(r, pc, p, c, i, choice)
    PROVE  call' \in [Reqs -> Request \cup {IdleCall}]
BY CallType DEF Start

LEMMA AnswerType ==
    ASSUME VerificationTypeOK, NEW r \in Reqs, Answer(r)
    PROVE  call' \in [Reqs -> Request \cup {IdleCall}]
BY CallType DEF Answer

LEMMA GoToMailType ==
    ASSUME VerificationTypeOK, NEW r \in Reqs, call[r] \in AtDecision, GoToMail(r)
    PROVE  call' \in [Reqs -> Request \cup {IdleCall}]
<1>1. [call[r] EXCEPT !.pc = "mail", !.content = Null] \in Request
  BY Kinds DEF AtDecision, AtRow
<1>2. call' = [call EXCEPT ![r] = [call[r] EXCEPT !.pc = "mail", !.content = Null]]
  BY DEF GoToMail, VerificationTypeOK
<1>3. QED
  BY <1>1, <1>2, CallType

\* A request that updates a row has found it, and no row is ever deleted.
RowsExist ==
    \A r \in Reqs :
        /\ call[r].pc \in {"rewritePage", "submitPage", "findRow", "decidePage"} =>
               providerPage[call[r].person].status # "NONE"
        /\ call[r].pc = "decideProfile" => studentProfile[call[r].person].status # "NONE"

LEMMA StatusType ==
    ASSUME VerificationTypeOK, NEW p \in People
    PROVE  /\ \A s \in ProviderVerificationState :
                  providerPage[p].status # "NONE" =>
                      [providerPage[p] EXCEPT !.status = s] \in ProviderPage
           /\ \A s \in ProfileStatus :
                  studentProfile[p].status # "NONE" =>
                      [studentProfile[p] EXCEPT !.status = s] \in StudentProfile
<1>1. providerPage[p] \in ProviderPage /\ studentProfile[p] \in StudentProfile
  BY DEF VerificationTypeOK
<1>2. ASSUME NEW s \in ProviderVerificationState, providerPage[p].status # "NONE"
      PROVE  [providerPage[p] EXCEPT !.status = s] \in ProviderPage
  <2>1. providerPage[p] \in [status : ProviderVerificationState, content : Contents]
    BY <1>1, <1>2 DEF ProviderPage, NoRow
  <2>2. [providerPage[p] EXCEPT !.status = s]
            \in [status : ProviderVerificationState, content : Contents]
    BY <2>1
  <2>3. QED
    BY <2>2 DEF ProviderPage
<1>3. ASSUME NEW s \in ProfileStatus, studentProfile[p].status # "NONE"
      PROVE  [studentProfile[p] EXCEPT !.status = s] \in StudentProfile
  <2>1. studentProfile[p] \in [status : ProfileStatus, content : Contents]
    BY <1>1, <1>3 DEF StudentProfile, NoRow
  <2>2. [studentProfile[p] EXCEPT !.status = s] \in [status : ProfileStatus, content : Contents]
    BY <2>1
  <2>3. QED
    BY <2>2 DEF StudentProfile
<1>4. QED
  BY <1>2, <1>3

\* What an applicant or owner does.
LEMMA OwnerKeepsTypes ==
    ASSUME VerificationTypeOK, RowsExist, NEW r \in OwnerReqs, OwnerStep(r)
    PROVE  VerificationTypeOK'
<1> USE DEF Reqs
<1>1. ASSUME NEW p \in People, NEW c \in Complete, SignupRead(r, p, c)
      PROVE  VerificationTypeOK'
  <2>1. c \in Contents
    BY ContentsAssumption
  <2>2. \A pc \in {"createProfile", "resubmitProfile"} :
            [pc |-> pc, person |-> p, content |-> c, row |-> 0, choice |-> Null] \in Request
    BY <2>1, Kinds DEF AtForm
  <2>3. call' \in [Reqs -> Request \cup {IdleCall}]
    BY <1>1, <2>2, CallType DEF SignupRead, Start
  <2>4. QED
    BY <1>1, <2>3 DEF SignupRead, rows, VerificationTypeOK
<1>2. ASSUME NEW p \in People, NEW c \in Contents, PageCreateRead(r, p, c)
      PROVE  VerificationTypeOK'
  <2>1. \A pc \in {"insertPage", "rewritePage"} :
            [pc |-> pc, person |-> p, content |-> c, row |-> 0, choice |-> Null] \in Request
    BY Kinds DEF AtForm
  <2>2. call' \in [Reqs -> Request \cup {IdleCall}]
    BY <1>2, <2>1, CallType DEF PageCreateRead, Start
  <2>3. QED
    BY <1>2, <2>2 DEF PageCreateRead, rows, VerificationTypeOK
<1>3. ASSUME NEW p \in People, NEW c \in Contents, PageUpdateRead(r, p, c)
      PROVE  VerificationTypeOK'
  <2>1. [pc |-> "rewritePage", person |-> p, content |-> c, row |-> 0, choice |-> Null] \in Request
    BY Kinds DEF AtForm
  <2>2. call' \in [Reqs -> Request \cup {IdleCall}]
    BY <1>3, <2>1, StartType DEF PageUpdateRead
  <2>3. QED
    BY <1>3, <2>2 DEF PageUpdateRead, rows, VerificationTypeOK
<1>4. ASSUME NEW p \in People, SubmitPageRead(r, p)
      PROVE  VerificationTypeOK'
  <2>1. providerPage[p].content \in Contents
    BY <1>4, ContentsAssumption DEF SubmitPageRead
  <2>2. [pc |-> "submitPage", person |-> p, content |-> providerPage[p].content,
         row |-> 0, choice |-> Null] \in Request
    BY <2>1, Kinds DEF AtForm
  <2>3. call' \in [Reqs -> Request \cup {IdleCall}]
    BY <1>4, <2>2, StartType DEF SubmitPageRead
  <2>4. QED
    BY <1>4, <2>3 DEF SubmitPageRead, rows, VerificationTypeOK
<1>5. ASSUME SignupWrite(r)
      PROVE  VerificationTypeOK'
  <2>1. call[r] \in AtForm
    BY <1>5, KindAt DEF SignupWrite
  <2>2. call[r].person \in People /\ call[r].content \in Contents
    BY <2>1 DEF AtForm
  <2>3. [status |-> "PENDING", content |-> call[r].content] \in StudentProfile
    BY <2>2 DEF StudentProfile, ProfileStatus
  <2>4. studentProfile' \in [People -> StudentProfile]
    BY <1>5, <2>3 DEF SignupWrite, VerificationTypeOK
  <2>5. submissions' \in Seq(Submission)
    BY <1>5, <2>2, QueuedType DEF SignupWrite, VerificationTypeOK
  <2>6. call' \in [Reqs -> Request \cup {IdleCall}]
    BY <1>5, AnswerType DEF SignupWrite
  <2>7. QED
    BY <1>5, <2>4, <2>5, <2>6 DEF SignupWrite, VerificationTypeOK
<1>6. ASSUME PageWrite(r)
      PROVE  VerificationTypeOK'
  <2>1. call[r] \in AtForm
    BY <1>6, KindAt DEF PageWrite
  <2>2. [status |-> "DRAFT", content |-> call[r].content] \in ProviderPage
    BY <2>1 DEF AtForm, ProviderPage, ProviderVerificationState
  <2>3. providerPage' \in [People -> ProviderPage]
    BY <1>6, <2>2 DEF PageWrite, VerificationTypeOK
  <2>4. call' \in [Reqs -> Request \cup {IdleCall}]
    BY <1>6, AnswerType DEF PageWrite
  <2>5. QED
    BY <1>6, <2>3, <2>4 DEF PageWrite, VerificationTypeOK
<1>7. ASSUME SubmitPageWrite(r)
      PROVE  VerificationTypeOK'
  <2>1. call[r] \in AtForm
    BY <1>7, KindAt DEF SubmitPageWrite
  <2>2. call[r].person \in People /\ call[r].content \in Contents
    BY <2>1 DEF AtForm
  <2>3. [providerPage[call[r].person] EXCEPT !.status = "SUBMITTED"] \in ProviderPage
    BY <1>7, <2>2, StatusType DEF SubmitPageWrite, RowsExist, ProviderVerificationState
  <2>4. providerPage' \in [People -> ProviderPage]
    BY <1>7, <2>2, <2>3 DEF SubmitPageWrite, VerificationTypeOK
  <2>5. submissions' \in Seq(Submission)
    BY <1>7, <2>2, QueuedType DEF SubmitPageWrite
  <2>6. call' \in [Reqs -> Request \cup {IdleCall}]
    BY <1>7, AnswerType DEF SubmitPageWrite
  <2>7. QED
    BY <1>7, <2>4, <2>5, <2>6 DEF SubmitPageWrite, VerificationTypeOK
<1>8. QED
  BY <1>1, <1>2, <1>3, <1>4, <1>5, <1>6, <1>7 DEF OwnerStep

\* What an administrator does.
LEMMA AdminKeepsTypes ==
    ASSUME VerificationTypeOK, RowsExist, NEW r \in AdminReqs, AdminStep(r)
    PROVE  VerificationTypeOK'
<1> USE DEF Reqs
<1>1. ASSUME NEW p \in People, NEW v \in Verdict, ReviewPageRead(r, p, v)
      PROVE  VerificationTypeOK'
  <2>1. providerPage[p].content \in Contents
    BY <1>1 DEF ReviewPageRead, VerificationTypeOK, ProviderPage, NoRow
  <2>2. [pc |-> "findRow", person |-> p, content |-> providerPage[p].content,
         row |-> 0, choice |-> v] \in Request
    BY <2>1, Kinds DEF AtPage
  <2>3. call' \in [Reqs -> Request \cup {IdleCall}]
    BY <1>1, <2>2, StartType DEF ReviewPageRead
  <2>4. QED
    BY <1>1, <2>3 DEF ReviewPageRead, rows, VerificationTypeOK
<1>2. ASSUME NEW p \in People, NEW role \in {"AGENT", "LANDLORD"}, OnboardRead(r, p, role)
      PROVE  VerificationTypeOK'
  <2>1. [pc |-> "onboard", person |-> p, content |-> Null, row |-> 0, choice |-> role] \in Request
    BY Kinds DEF AtOnboarding
  <2>2. call' \in [Reqs -> Request \cup {IdleCall}]
    BY <1>2, <2>1, StartType DEF OnboardRead
  <2>3. QED
    BY <1>2, <2>2 DEF OnboardRead, rows, VerificationTypeOK
<1>3. ASSUME NEW i \in DOMAIN submissions, NEW v \in Verdict, ReviewSubmissionRead(r, i, v)
      PROVE  VerificationTypeOK'
  <2>1. i \in Nat \ {0} /\ submissions[i] \in Submission
    BY DEF VerificationTypeOK
  <2>2. [pc |-> "findEntity", person |-> submissions[i].person, content |-> Null,
         row |-> i, choice |-> v] \in Request
    BY <2>1, Kinds DEF AtRow, Submission
  <2>3. call' \in [Reqs -> Request \cup {IdleCall}]
    BY <1>3, <2>2, StartType DEF ReviewSubmissionRead
  <2>4. QED
    BY <1>3, <2>3 DEF ReviewSubmissionRead, rows, VerificationTypeOK
<1>4. ASSUME FindRow(r)
      PROVE  VerificationTypeOK'
  <2>1. call[r] \in AtPage
    BY <1>4, KindAt DEF FindRow
  <2>2. ASSUME NEW i \in PendingRows("provider_page", call[r].person),
               call' = [call EXCEPT ![r].pc = "decidePage", ![r].row = i]
        PROVE  call' \in [Reqs -> Request \cup {IdleCall}]
    <3>1. i \in Nat \ {0}
      BY DEF PendingRows, VerificationTypeOK
    <3>2. [call[r] EXCEPT !.pc = "decidePage", !.row = i] \in Request
      BY <2>1, <3>1, Kinds DEF AtPage, AtDecision
    <3>3. call' = [call EXCEPT ![r] = [call[r] EXCEPT !.pc = "decidePage", !.row = i]]
      BY <2>2 DEF VerificationTypeOK
    <3>4. QED
      BY <3>2, <3>3, CallType
  <2>3. call' \in [Reqs -> Request \cup {IdleCall}]
    BY <1>4, <2>2, AnswerType DEF FindRow
  <2>4. QED
    BY <1>4, <2>3 DEF FindRow, rows, VerificationTypeOK
<1>5. ASSUME FindEntity(r)
      PROVE  VerificationTypeOK'
  <2>1. call[r] \in AtRow
    BY <1>5, KindAt DEF FindEntity
  <2>2. ASSUME NEW pc \in {"decidePage", "decideProfile"}, NEW c \in Contents,
               call' = [call EXCEPT ![r].pc = pc, ![r].content = c]
        PROVE  call' \in [Reqs -> Request \cup {IdleCall}]
    <3>1. [call[r] EXCEPT !.pc = pc, !.content = c] \in Request
      BY <2>1, Kinds DEF AtRow, AtDecision
    <3>2. call' = [call EXCEPT ![r] = [call[r] EXCEPT !.pc = pc, !.content = c]]
      BY <2>2 DEF VerificationTypeOK
    <3>3. QED
      BY <3>1, <3>2, CallType
  <2>3. call[r].person \in People
    BY <2>1 DEF AtRow
  <2>4. /\ providerPage[call[r].person].status = "SUBMITTED" =>
               providerPage[call[r].person].content \in Contents
        /\ studentProfile[call[r].person].status = "PENDING" =>
               studentProfile[call[r].person].content \in Contents
    BY <2>3 DEF VerificationTypeOK, ProviderPage, StudentProfile, NoRow
  <2>5. call' \in [Reqs -> Request \cup {IdleCall}]
    BY <1>5, <2>2, <2>4, AnswerType DEF FindEntity
  <2>6. QED
    BY <1>5, <2>5 DEF FindEntity, rows, VerificationTypeOK
<1>6. ASSUME DecidePage(r)
      PROVE  VerificationTypeOK'
  <2>1. call[r] \in AtDecision
    BY <1>6, KindAt DEF DecidePage
  <2>2. /\ call[r].person \in People /\ call[r].content \in Contents
        /\ call[r].row \in Nat /\ call[r].choice \in Verdict
    BY <2>1 DEF AtDecision
  <2>3. \A s \in {"VERIFIED", "REJECTED"} :
            [providerPage[call[r].person] EXCEPT !.status = s] \in ProviderPage
    BY <1>6, <2>2, StatusType DEF DecidePage, RowsExist, ProviderVerificationState
  <2>4. providerPage' \in [People -> ProviderPage]
    BY <1>6, <2>2, <2>3 DEF DecidePage, VerificationTypeOK
  <2>5. submissions' \in Seq(Submission)
    BY <1>6, <2>2, DecidedType DEF DecidePage
  <2>6. account' \in [People -> Role \cup {"NONE"}]
    BY <1>6, <2>2, ContentsAssumption DEF DecidePage, VerificationTypeOK, Role
  <2>7. identityEvents' \in [People -> [IdentityOrigin -> Nat]]
    BY <1>6, <2>2, RecordedType DEF DecidePage, VerificationTypeOK, IdentityOrigin
  <2>8. call' \in [Reqs -> Request \cup {IdleCall}]
    BY <1>6, <2>1, GoToMailType DEF DecidePage
  <2>9. QED
    BY <1>6, <2>4, <2>5, <2>6, <2>7, <2>8 DEF DecidePage, VerificationTypeOK
<1>7. ASSUME DecideProfile(r)
      PROVE  VerificationTypeOK'
  <2>1. call[r] \in AtDecision
    BY <1>7, KindAt DEF DecideProfile
  <2>2. call[r].person \in People /\ call[r].row \in Nat /\ call[r].choice \in Verdict
    BY <2>1 DEF AtDecision
  <2>3. [studentProfile[call[r].person] EXCEPT !.status = call[r].choice] \in StudentProfile
    BY <1>7, <2>2, StatusType DEF DecideProfile, RowsExist, ProfileStatus
  <2>4. studentProfile' \in [People -> StudentProfile]
    BY <1>7, <2>2, <2>3 DEF DecideProfile, VerificationTypeOK
  <2>5. submissions' \in Seq(Submission)
    BY <1>7, <2>2, DecidedType DEF DecideProfile
  <2>6. account' \in [People -> Role \cup {"NONE"}]
    BY <1>7, <2>2 DEF DecideProfile, VerificationTypeOK, Role
  <2>7. call' \in [Reqs -> Request \cup {IdleCall}]
    BY <1>7, <2>1, GoToMailType DEF DecideProfile
  <2>8. QED
    BY <1>7, <2>4, <2>5, <2>6, <2>7 DEF DecideProfile, VerificationTypeOK
<1>8. ASSUME Mail(r)
      PROVE  VerificationTypeOK'
  <2>1. call[r].row \in Nat \ {0} /\ call[r].choice \in Verdict
    BY <1>8, KindAt DEF Mail, AtRow
  <2>2. call' \in [Reqs -> Request \cup {IdleCall}]
    BY <1>8, AnswerType DEF Mail
  <2>3. QED
    BY <1>8, <2>1, <2>2 DEF Mail, rows, VerificationTypeOK
<1>9. ASSUME OnboardWrite(r)
      PROVE  VerificationTypeOK'
  <2>1. call[r].person \in People /\ call[r].choice \in {"AGENT", "LANDLORD"}
    BY <1>9, KindAt DEF OnboardWrite, AtOnboarding
  <2>2. account' \in [People -> Role \cup {"NONE"}]
    BY <1>9, <2>1 DEF OnboardWrite, VerificationTypeOK, Role
  <2>3. identityEvents' \in [People -> [IdentityOrigin -> Nat]]
    BY <1>9, <2>1, RecordedType DEF OnboardWrite, VerificationTypeOK, IdentityOrigin
  <2>4. call' \in [Reqs -> Request \cup {IdleCall}]
    BY <1>9, AnswerType DEF OnboardWrite
  <2>5. QED
    BY <1>9, <2>2, <2>3, <2>4 DEF OnboardWrite, VerificationTypeOK
<1>10. QED
  BY <1>1, <1>2, <1>3, <1>4, <1>5, <1>6, <1>7, <1>8, <1>9 DEF AdminStep

-----------------------------------------------------------------------------
(* What a step may change, in terms of statuses and roles                  *)

\* An owner's step moves one request.  It either starts, at rows as it has
\* found them, or writes one row and answers.
OwnerEffect(r) ==
    LET p == call[r].person
        pc == call[r].pc
    IN  /\ UNCHANGED <<account, identityEvents>>
        /\ \A q \in Reqs \ {r} : call'[q] = call[q]
        /\ \A x \in People :
              \/ providerPage'[x] = providerPage[x]
              \/ /\ x = p
                 /\ \/ pc = "insertPage" /\ providerPage[x].status = "NONE"
                    \/ pc = "rewritePage"
                 /\ providerPage'[x].status = "DRAFT"
              \/ x = p /\ pc = "submitPage" /\ providerPage'[x].status = "SUBMITTED"
        /\ \A x \in People :
              \/ studentProfile'[x] = studentProfile[x]
              \/ /\ x = p
                 /\ \/ pc = "createProfile" /\ studentProfile[x].status = "NONE"
                    \/ pc = "resubmitProfile"
                 /\ studentProfile'[x].status = "PENDING"
        /\ \/ call'[r] = IdleCall
           \/ /\ UNCHANGED <<studentProfile, providerPage>>
              /\ call'[r].person \in People
              /\ \/ /\ call'[r].pc \in {"createProfile", "resubmitProfile"}
                    /\ studentProfile[call'[r].person].status \notin {"PENDING", "APPROVED"}
                 \/ /\ call'[r].pc = "insertPage"
                    /\ providerPage[call'[r].person].status = "NONE"
                 \/ /\ call'[r].pc \in {"rewritePage", "submitPage"}
                    /\ providerPage[call'[r].person].status \in {"DRAFT", "REJECTED"}

LEMMA StartMoves ==
    ASSUME VerificationTypeOK, NEW r \in Reqs, NEW pc, NEW p, NEW c, NEW i, NEW choice,
           Start(r, pc, p, c, i, choice)
    PROVE  /\ call'[r].pc = pc /\ call'[r].person = p
           /\ \A q \in Reqs \ {r} : call'[q] = call[q]
BY DEF Start, VerificationTypeOK

LEMMA AnswerMoves ==
    ASSUME VerificationTypeOK, NEW r \in Reqs, Answer(r)
    PROVE  /\ call'[r] = IdleCall
           /\ \A q \in Reqs \ {r} : call'[q] = call[q]
BY DEF Answer, VerificationTypeOK

LEMMA OwnerEffects ==
    ASSUME VerificationTypeOK, NEW r \in OwnerReqs, OwnerStep(r)
    PROVE  OwnerEffect(r)
<1> USE DEF Reqs
<1>1. ASSUME NEW p \in People, NEW c \in Complete, SignupRead(r, p, c)
      PROVE  OwnerEffect(r)
  <2>1. /\ call'[r].pc \in {"createProfile", "resubmitProfile"} /\ call'[r].person = p
        /\ \A q \in Reqs \ {r} : call'[q] = call[q]
    BY <1>1, StartMoves DEF SignupRead
  <2>2. QED
    BY <1>1, <2>1 DEF SignupRead, rows, OwnerEffect
<1>2. ASSUME NEW p \in People, NEW c \in Contents, PageCreateRead(r, p, c)
      PROVE  OwnerEffect(r)
  <2>1. /\ call'[r].pc = IF providerPage[p].status = "NONE" THEN "insertPage" ELSE "rewritePage"
        /\ call'[r].person = p
        /\ \A q \in Reqs \ {r} : call'[q] = call[q]
    BY <1>2, StartMoves DEF PageCreateRead
  <2>2. QED
    BY <1>2, <2>1 DEF PageCreateRead, rows, OwnerEffect
<1>3. ASSUME NEW p \in People, NEW c \in Contents, PageUpdateRead(r, p, c)
      PROVE  OwnerEffect(r)
  <2>1. /\ call'[r].pc = "rewritePage" /\ call'[r].person = p
        /\ \A q \in Reqs \ {r} : call'[q] = call[q]
    BY <1>3, StartMoves DEF PageUpdateRead
  <2>2. QED
    BY <1>3, <2>1 DEF PageUpdateRead, rows, OwnerEffect
<1>4. ASSUME NEW p \in People, SubmitPageRead(r, p)
      PROVE  OwnerEffect(r)
  <2>1. /\ call'[r].pc = "submitPage" /\ call'[r].person = p
        /\ \A q \in Reqs \ {r} : call'[q] = call[q]
    BY <1>4, StartMoves DEF SubmitPageRead
  <2>2. QED
    BY <1>4, <2>1 DEF SubmitPageRead, rows, OwnerEffect
<1>5. ASSUME SignupWrite(r)
      PROVE  OwnerEffect(r)
  <2>1. call'[r] = IdleCall /\ \A q \in Reqs \ {r} : call'[q] = call[q]
    BY <1>5, AnswerMoves DEF SignupWrite
  <2>2. \A x \in People :
            \/ studentProfile'[x] = studentProfile[x]
            \/ /\ x = call[r].person
               /\ \/ call[r].pc = "createProfile" /\ studentProfile[x].status = "NONE"
                  \/ call[r].pc = "resubmitProfile"
               /\ studentProfile'[x].status = "PENDING"
    BY <1>5 DEF SignupWrite, VerificationTypeOK
  <2>3. QED
    BY <1>5, <2>1, <2>2 DEF SignupWrite, OwnerEffect
<1>6. ASSUME PageWrite(r)
      PROVE  OwnerEffect(r)
  <2>1. call'[r] = IdleCall /\ \A q \in Reqs \ {r} : call'[q] = call[q]
    BY <1>6, AnswerMoves DEF PageWrite
  <2>2. \A x \in People :
            \/ providerPage'[x] = providerPage[x]
            \/ /\ x = call[r].person
               /\ \/ call[r].pc = "insertPage" /\ providerPage[x].status = "NONE"
                  \/ call[r].pc = "rewritePage"
               /\ providerPage'[x].status = "DRAFT"
    BY <1>6 DEF PageWrite, VerificationTypeOK
  <2>3. QED
    BY <1>6, <2>1, <2>2 DEF PageWrite, OwnerEffect
<1>7. ASSUME SubmitPageWrite(r)
      PROVE  OwnerEffect(r)
  <2>1. call'[r] = IdleCall /\ \A q \in Reqs \ {r} : call'[q] = call[q]
    BY <1>7, AnswerMoves DEF SubmitPageWrite
  <2>2. \A x \in People :
            \/ providerPage'[x] = providerPage[x]
            \/ /\ x = call[r].person /\ call[r].pc = "submitPage"
               /\ providerPage'[x].status = "SUBMITTED"
    BY <1>7 DEF SubmitPageWrite, VerificationTypeOK, ProviderPage, NoRow
  <2>3. QED
    BY <1>7, <2>1, <2>2 DEF SubmitPageWrite, OwnerEffect
<1>8. QED
  BY <1>1, <1>2, <1>3, <1>4, <1>5, <1>6, <1>7 DEF OwnerStep

\* An administrator's step moves one request.  It decides a profile or a Page,
\* with the role that goes with it, or makes an account, or only reads.
AdminEffect(r) ==
    LET p == call[r].person
        pc == call[r].pc
    IN  /\ \A q \in Reqs \ {r} : call'[q] = call[q]
        /\ \A x \in People :
              \/ providerPage'[x] = providerPage[x]
              \/ /\ x = p /\ pc = "decidePage"
                 /\ providerPage'[x].status \in {"VERIFIED", "REJECTED"}
        /\ \A x \in People :
              \/ studentProfile'[x] = studentProfile[x]
              \/ /\ x = p /\ pc = "decideProfile"
                 /\ studentProfile'[x].status \in Verdict
        /\ \A x \in People :
              \/ /\ account'[x] = account[x]
                 /\ identityEvents'[x]["onboardAgent"] = identityEvents[x]["onboardAgent"]
              \/ /\ account'[x] \in {"AGENT", "LANDLORD"}
                 /\ providerPage'[x].status = "VERIFIED"
              \/ account'[x] = "STUDENT" /\ studentProfile'[x].status = "APPROVED"
              \/ /\ account[x] = "NONE" /\ account'[x] \in {"AGENT", "LANDLORD"}
                 /\ identityEvents'[x]["onboardAgent"] = identityEvents[x]["onboardAgent"] + 1
        /\ \/ call'[r].pc \in {"idle", "findEntity", "mail", "onboard"}
           \/ /\ UNCHANGED <<studentProfile, providerPage>>
              /\ call'[r].person \in People
              /\ \/ /\ call'[r].pc = "findRow" \/ (call'[r].pc = "decidePage" /\ pc = "findEntity")
                    /\ providerPage[call'[r].person].status = "SUBMITTED"
                 \/ /\ call'[r].pc = "decidePage" /\ pc = "findRow"
                    /\ call'[r].person = p
                 \/ /\ call'[r].pc = "decideProfile"
                    /\ studentProfile[call'[r].person].status = "PENDING"

LEMMA AdminEffects ==
    ASSUME VerificationTypeOK, RowsExist, NEW r \in AdminReqs, AdminStep(r)
    PROVE  AdminEffect(r)
<1> USE DEF Reqs
<1>1. ASSUME NEW p \in People, NEW v \in Verdict, ReviewPageRead(r, p, v)
      PROVE  AdminEffect(r)
  <2>1. /\ call'[r].pc = "findRow" /\ call'[r].person = p
        /\ \A q \in Reqs \ {r} : call'[q] = call[q]
    BY <1>1, StartMoves DEF ReviewPageRead
  <2>2. QED
    BY <1>1, <2>1 DEF ReviewPageRead, rows, AdminEffect
<1>2. ASSUME NEW p \in People, NEW role \in {"AGENT", "LANDLORD"}, OnboardRead(r, p, role)
      PROVE  AdminEffect(r)
  <2>1. call'[r].pc = "onboard" /\ \A q \in Reqs \ {r} : call'[q] = call[q]
    BY <1>2, StartMoves DEF OnboardRead
  <2>2. QED
    BY <1>2, <2>1 DEF OnboardRead, rows, AdminEffect
<1>3. ASSUME NEW i \in DOMAIN submissions, NEW v \in Verdict, ReviewSubmissionRead(r, i, v)
      PROVE  AdminEffect(r)
  <2>1. call'[r].pc = "findEntity" /\ \A q \in Reqs \ {r} : call'[q] = call[q]
    BY <1>3, StartMoves DEF ReviewSubmissionRead
  <2>2. QED
    BY <1>3, <2>1 DEF ReviewSubmissionRead, rows, AdminEffect
<1>4. ASSUME FindRow(r)
      PROVE  AdminEffect(r)
  <2>1. call[r] \in AtPage
    BY <1>4, KindAt DEF FindRow
  <2>2. \/ call'[r] = IdleCall
        \/ call'[r].pc = "decidePage" /\ call'[r].person = call[r].person
    BY <1>4, <2>1, AnswerMoves DEF FindRow, AtPage, VerificationTypeOK
  <2>3. \A q \in Reqs \ {r} : call'[q] = call[q]
    BY <1>4, AnswerMoves DEF FindRow, VerificationTypeOK
  <2>4. call[r].pc = "findRow" /\ call[r].person \in People
    BY <2>1 DEF AtPage
  <2>5. QED
    BY <1>4, <2>2, <2>3, <2>4 DEF FindRow, rows, AdminEffect, IdleCall
<1>5. ASSUME FindEntity(r)
      PROVE  AdminEffect(r)
  <2>1. call[r] \in AtRow
    BY <1>5, KindAt DEF FindEntity
  <2>2. /\ \A q \in Reqs \ {r} : call'[q] = call[q]
        /\ \/ call'[r] = IdleCall
           \/ /\ call'[r].person = call[r].person
              /\ \/ /\ call'[r].pc = "decidePage"
                    /\ providerPage[call[r].person].status = "SUBMITTED"
                 \/ /\ call'[r].pc = "decideProfile"
                    /\ studentProfile[call[r].person].status = "PENDING"
    BY <1>5, <2>1, AnswerMoves DEF FindEntity, AtRow, VerificationTypeOK
  <2>3. call[r].pc = "findEntity" /\ call[r].person \in People
    BY <1>5, <2>1 DEF AtRow, FindEntity
  <2>4. QED
    BY <1>5, <2>2, <2>3 DEF FindEntity, rows, AdminEffect, IdleCall
<1>6. ASSUME DecidePage(r)
      PROVE  AdminEffect(r)
  <2>1. call[r] \in AtDecision /\ call[r].pc = "decidePage"
    BY <1>6, KindAt DEF DecidePage
  <2>2. call'[r].pc = "mail" /\ \A q \in Reqs \ {r} : call'[q] = call[q]
    BY <1>6, <2>1 DEF DecidePage, GoToMail, VerificationTypeOK, AtDecision
  <2>3. /\ \A x \in People \ {call[r].person} : providerPage'[x] = providerPage[x]
        /\ providerPage'[call[r].person].status =
               IF call[r].choice = "APPROVED" THEN "VERIFIED" ELSE "REJECTED"
    BY <1>6, <2>1 DEF DecidePage, VerificationTypeOK, ProviderPage, NoRow, AtDecision
  <2>4. \A x \in People :
            \/ account'[x] = account[x]
               /\ identityEvents'[x]["onboardAgent"] = identityEvents[x]["onboardAgent"]
            \/ /\ x = call[r].person /\ call[r].choice = "APPROVED"
               /\ account'[x] \in {"AGENT", "LANDLORD"}
    BY <1>6, <2>1, ContentsAssumption
       DEF DecidePage, VerificationTypeOK, AtDecision, Recorded, IdentityOrigin
  <2>5. QED
    BY <1>6, <2>1, <2>2, <2>3, <2>4 DEF DecidePage, AdminEffect
<1>7. ASSUME DecideProfile(r)
      PROVE  AdminEffect(r)
  <2>1. call[r] \in AtDecision /\ call[r].pc = "decideProfile"
    BY <1>7, KindAt DEF DecideProfile
  <2>2. call'[r].pc = "mail" /\ \A q \in Reqs \ {r} : call'[q] = call[q]
    BY <1>7, <2>1 DEF DecideProfile, GoToMail, VerificationTypeOK, AtDecision
  <2>3. /\ \A x \in People \ {call[r].person} : studentProfile'[x] = studentProfile[x]
        /\ studentProfile'[call[r].person].status = call[r].choice
    BY <1>7, <2>1 DEF DecideProfile, VerificationTypeOK, StudentProfile, NoRow, AtDecision
  <2>4. \A x \in People :
            \/ account'[x] = account[x]
            \/ x = call[r].person /\ call[r].choice = "APPROVED" /\ account'[x] = "STUDENT"
    BY <1>7, <2>1 DEF DecideProfile, VerificationTypeOK, AtDecision
  <2>5. call[r].choice \in Verdict
    BY <2>1 DEF AtDecision
  <2>6. QED
    BY <1>7, <2>1, <2>2, <2>3, <2>4, <2>5 DEF DecideProfile, AdminEffect
<1>8. ASSUME Mail(r)
      PROVE  AdminEffect(r)
  <2>1. call'[r].pc = "idle" /\ \A q \in Reqs \ {r} : call'[q] = call[q]
    BY <1>8, AnswerMoves DEF Mail, IdleCall
  <2>2. QED
    BY <1>8, <2>1 DEF Mail, rows, AdminEffect
<1>9. ASSUME OnboardWrite(r)
      PROVE  AdminEffect(r)
  <2>1. call'[r].pc = "idle" /\ \A q \in Reqs \ {r} : call'[q] = call[q]
    BY <1>9, AnswerMoves DEF OnboardWrite, IdleCall
  <2>2. call[r].person \in People /\ call[r].choice \in {"AGENT", "LANDLORD"}
    BY <1>9, KindAt DEF OnboardWrite, AtOnboarding
  <2>3. \A x \in People :
            \/ account'[x] = account[x]
               /\ identityEvents'[x]["onboardAgent"] = identityEvents[x]["onboardAgent"]
            \/ /\ account[x] = "NONE" /\ account'[x] \in {"AGENT", "LANDLORD"}
               /\ identityEvents'[x]["onboardAgent"] = identityEvents[x]["onboardAgent"] + 1
    <3>1. CASE account[call[r].person] = "NONE"
      <4>1. \A x \in People : identityEvents'[x]["onboardAgent"] =
                IF x = call[r].person THEN identityEvents[x]["onboardAgent"] + 1
                ELSE identityEvents[x]["onboardAgent"]
        BY <1>9, <2>2, <3>1 DEF OnboardWrite, VerificationTypeOK, Recorded, IdentityOrigin
      <4>2. \A x \in People :
                account'[x] = IF x = call[r].person THEN call[r].choice ELSE account[x]
        BY <1>9, <2>2, <3>1 DEF OnboardWrite, VerificationTypeOK
      <4>3. QED
        BY <2>2, <3>1, <4>1, <4>2
    <3>2. CASE account[call[r].person] # "NONE"
      BY <1>9, <3>2 DEF OnboardWrite
    <3>3. QED
      BY <3>1, <3>2
  <2>4. QED
    BY <1>9, <2>1, <2>3 DEF OnboardWrite, AdminEffect
<1>10. QED
  BY <1>1, <1>2, <1>3, <1>4, <1>5, <1>6, <1>7, <1>8, <1>9 DEF AdminStep

-----------------------------------------------------------------------------
(* Type correctness, with the rows that requests have found                *)

TypedRows == VerificationTypeOK /\ RowsExist

LEMMA InitTyped == Init => TypedRows
<1> SUFFICES ASSUME Init PROVE TypedRows
  OBVIOUS
<1>1. <<>> \in Seq(Submission)
  BY EmptySeq
<1>2. VerificationTypeOK
  BY <1>1 DEF Init, VerificationTypeOK, StudentProfile, ProviderPage
<1>3. RowsExist
  BY DEF Init, RowsExist, IdleCall
<1>4. QED
  BY <1>2, <1>3 DEF TypedRows

LEMMA OwnerKeepsRows ==
    ASSUME VerificationTypeOK, RowsExist, NEW r \in OwnerReqs, OwnerStep(r)
    PROVE  RowsExist'
<1> USE DEF Reqs
<1>1. OwnerEffect(r)
  BY OwnerEffects
<1>2. ASSUME NEW x \in People
      PROVE  /\ providerPage[x].status # "NONE" => providerPage'[x].status # "NONE"
             /\ studentProfile[x].status # "NONE" => studentProfile'[x].status # "NONE"
  BY <1>1 DEF OwnerEffect
<1>3. ASSUME NEW q \in Reqs
      PROVE  /\ call'[q].pc \in {"rewritePage", "submitPage", "findRow", "decidePage"} =>
                    providerPage'[call'[q].person].status # "NONE"
             /\ call'[q].pc = "decideProfile" =>
                    studentProfile'[call'[q].person].status # "NONE"
  <2>1. CASE q # r
    <3>1. call'[q] = call[q]
      BY <1>1, <2>1 DEF OwnerEffect
    <3>2. call[q].pc \in {"rewritePage", "submitPage", "findRow", "decidePage",
                          "decideProfile"} => call[q].person \in People
      BY KindAt DEF AtForm, AtPage, AtDecision
    <3>3. QED
      BY <1>2, <3>1, <3>2 DEF RowsExist
  <2>2. CASE q = r
    BY <1>1, <2>2 DEF OwnerEffect, IdleCall
  <2>3. QED
    BY <2>1, <2>2
<1>4. QED
  BY <1>3 DEF RowsExist

LEMMA AdminKeepsRows ==
    ASSUME VerificationTypeOK, RowsExist, NEW r \in AdminReqs, AdminStep(r)
    PROVE  RowsExist'
<1> USE DEF Reqs
<1>1. AdminEffect(r)
  BY AdminEffects
<1>2. ASSUME NEW x \in People
      PROVE  /\ providerPage[x].status # "NONE" => providerPage'[x].status # "NONE"
             /\ studentProfile[x].status # "NONE" => studentProfile'[x].status # "NONE"
  BY <1>1 DEF AdminEffect, Verdict
<1>3. ASSUME NEW q \in Reqs
      PROVE  /\ call'[q].pc \in {"rewritePage", "submitPage", "findRow", "decidePage"} =>
                    providerPage'[call'[q].person].status # "NONE"
             /\ call'[q].pc = "decideProfile" =>
                    studentProfile'[call'[q].person].status # "NONE"
  <2>1. CASE q # r
    <3>1. call'[q] = call[q]
      BY <1>1, <2>1 DEF AdminEffect
    <3>2. call[q].pc \in {"rewritePage", "submitPage", "findRow", "decidePage",
                          "decideProfile"} => call[q].person \in People
      BY KindAt DEF AtForm, AtPage, AtDecision
    <3>3. QED
      BY <1>2, <3>1, <3>2 DEF RowsExist
  <2>2. CASE q = r
    <3>1. call[q].pc = "findRow" => providerPage[call[q].person].status # "NONE"
      BY DEF RowsExist
    <3>2. QED
      BY <1>1, <2>2, <3>1 DEF AdminEffect
  <2>3. QED
    BY <2>1, <2>2
<1>4. QED
  BY <1>3 DEF RowsExist

LEMMA FailureKeepsTyped ==
    ASSUME TypedRows, NEW r \in Reqs, CallFails(r)
    PROVE  TypedRows'
<1> USE DEF TypedRows
<1>1. call' \in [Reqs -> Request \cup {IdleCall}]
  BY AnswerType DEF CallFails
<1>2. VerificationTypeOK'
  BY <1>1 DEF CallFails, rows, VerificationTypeOK
<1>3. \A q \in Reqs : call'[q] = call[q] \/ call'[q] = IdleCall
  BY AnswerMoves DEF CallFails
<1>4. RowsExist'
  BY <1>3 DEF CallFails, rows, RowsExist, IdleCall
<1>5. QED
  BY <1>2, <1>4

LEMMA NextKeepsTyped == TypedRows /\ [Next]_vars => TypedRows'
<1> SUFFICES ASSUME TypedRows, [Next]_vars
             PROVE  TypedRows'
  OBVIOUS
<1>1. ASSUME NEW r \in OwnerReqs, OwnerStep(r)
      PROVE  TypedRows'
  BY <1>1, OwnerKeepsTypes, OwnerKeepsRows DEF TypedRows
<1>2. ASSUME NEW r \in AdminReqs, AdminStep(r)
      PROVE  TypedRows'
  BY <1>2, AdminKeepsTypes, AdminKeepsRows DEF TypedRows
<1>3. ASSUME NEW r \in Reqs, CallFails(r)
      PROVE  TypedRows'
  BY <1>3, FailureKeepsTyped
<1>4. CASE UNCHANGED vars
  BY <1>4 DEF vars, rows, TypedRows, VerificationTypeOK, RowsExist
<1>5. QED
  BY <1>1, <1>2, <1>3, <1>4 DEF Next

LEMMA TypedRowsHold == Spec => []TypedRows
<1>1. QED
  BY InitTyped, NextKeepsTyped, PTL DEF Spec

\* Every request and row is one the code can build: what a request read of a
\* row is still of the row's type when it writes, whatever ran in between.
THEOREM TypeCorrect == Spec => []VerificationTypeOK
<1>1. TypedRows => VerificationTypeOK
  BY DEF TypedRows
<1>2. QED
  BY <1>1, TypedRowsHold, PTL

-----------------------------------------------------------------------------
(* Roles and verdicts, as long as no two forms about one row and no two    *)
(* reviews of one person overlap: without this a review page that was left *)
(* open, or a form sent twice, breaks both.                                *)

LEMMA SerialSteps == SerialSpec => Spec /\ []OneAtATimeEach
<1>1. Init => OneAtATimeEach
  BY DEF Init, OneAtATimeEach, OnePerPerson, IdleCall, ProfileForm, PageForm, Reviewing, Reqs
<1>2. OneAtATimeEach /\ [Next /\ OneAtATimeEach']_vars => OneAtATimeEach'
  BY DEF vars, OneAtATimeEach, OnePerPerson
<1>3. [Next /\ OneAtATimeEach']_vars => [Next]_vars
  OBVIOUS
<1>4. QED
  BY <1>1, <1>2, <1>3, PTL DEF SerialSpec, Spec

\* Of two forms about one track, or two reviews, each is about its own person.
LEMMA TwoPeople ==
    ASSUME OneAtATimeEach, NEW q, NEW r, q # r
    PROVE  /\ q \in OwnerReqs /\ r \in OwnerReqs =>
                  /\ call[q].pc \in ProfileForm /\ call[r].pc \in ProfileForm =>
                         call[q].person # call[r].person
                  /\ call[q].pc \in PageForm /\ call[r].pc \in PageForm =>
                         call[q].person # call[r].person
           /\ q \in AdminReqs /\ r \in AdminReqs =>
                  (call[q].pc \in Reviewing /\ call[r].pc \in Reviewing =>
                         call[q].person # call[r].person)
BY DEF OneAtATimeEach, OnePerPerson

\* What a request found is so when it writes: the administrator moves only
\* what is under review, and the owner only what is not.
Undisturbed ==
    /\ \A r \in OwnerReqs :
          LET p == call[r].person IN
          /\ call[r].pc \in {"createProfile", "resubmitProfile"} =>
                 studentProfile[p].status \notin {"PENDING", "APPROVED"}
          /\ call[r].pc = "insertPage" => providerPage[p].status = "NONE"
          /\ call[r].pc \in {"rewritePage", "submitPage"} =>
                 providerPage[p].status \in {"DRAFT", "REJECTED"}
    /\ \A r \in AdminReqs :
          LET p == call[r].person IN
          /\ call[r].pc \in {"findRow", "decidePage"} => providerPage[p].status = "SUBMITTED"
          /\ call[r].pc = "decideProfile" => studentProfile[p].status = "PENDING"

\* Owners do not make administrators' requests, nor these those.
Apart ==
    /\ \A r \in OwnerReqs :
          call[r].pc \notin {"findRow", "decidePage", "decideProfile", "findEntity",
                            "mail", "onboard"}
    /\ \A r \in AdminReqs :
          call[r].pc \notin {"createProfile", "resubmitProfile", "insertPage",
                            "rewritePage", "submitPage"}

\* An account is onboarded once, when it is made.
Onboarded == \A p \in People : account[p] = "NONE" => identityEvents[p]["onboardAgent"] = 0

Earned == TypedRows /\ Undisturbed /\ Apart /\ Onboarded /\ RolesAreEarned

LEMMA InitEarned == Init => Earned
<1> SUFFICES ASSUME Init PROVE Earned
  OBVIOUS
<1>1. TypedRows
  BY InitTyped
<1>2. Undisturbed /\ Apart
  BY DEF Init, Undisturbed, Apart, IdleCall, Reqs
<1>3. Onboarded /\ RolesAreEarned
  BY DEF Init, Onboarded, RolesAreEarned, IdentityOrigin
<1>4. QED
  BY <1>1, <1>2, <1>3 DEF Earned

\* What the owner's request writes was neither under review nor approved.
LEMMA OwnerWrites ==
    ASSUME Earned, NEW r \in OwnerReqs, OwnerStep(r)
    PROVE  /\ UNCHANGED <<account, identityEvents>>
           /\ \A x \in People :
                 \/ providerPage'[x] = providerPage[x]
                 \/ /\ providerPage[x].status = "NONE"
                    /\ providerPage'[x].status = "DRAFT"
                 \/ /\ providerPage[x].status \in {"DRAFT", "REJECTED"}
                    /\ providerPage'[x].status \in {"DRAFT", "SUBMITTED"}
           /\ \A x \in People :
                 \/ studentProfile'[x] = studentProfile[x]
                 \/ /\ studentProfile[x].status \notin {"PENDING", "APPROVED"}
                    /\ studentProfile'[x].status = "PENDING"
<1>1. OwnerEffect(r)
  BY OwnerEffects DEF Earned, TypedRows
<1>2. QED
  BY <1>1 DEF OwnerEffect, Earned, Undisturbed

\* What the administrator's request decides was under review.
LEMMA AdminWrites ==
    ASSUME Earned, NEW r \in AdminReqs, AdminStep(r)
    PROVE  /\ \A x \in People :
                 \/ providerPage'[x] = providerPage[x]
                 \/ /\ providerPage[x].status = "SUBMITTED"
                    /\ providerPage'[x].status \in {"VERIFIED", "REJECTED"}
           /\ \A x \in People :
                 \/ studentProfile'[x] = studentProfile[x]
                 \/ /\ studentProfile[x].status = "PENDING"
                    /\ studentProfile'[x].status \in Verdict
<1>1. AdminEffect(r)
  BY AdminEffects DEF Earned, TypedRows
<1>2. QED
  BY <1>1 DEF AdminEffect, Earned, Undisturbed

LEMMA OwnerKeepsEarned ==
    ASSUME OneAtATimeEach, Earned, NEW r \in OwnerReqs, OwnerStep(r)
    PROVE  Earned'
<1> USE DEF Reqs
<1>1. OwnerEffect(r)
  BY OwnerEffects DEF Earned, TypedRows
<1>2. TypedRows'
  BY OwnerKeepsTypes, OwnerKeepsRows DEF Earned, TypedRows
<1>3. Apart'
  <2>1. \A q \in Reqs \ {r} : call'[q] = call[q]
    BY <1>1 DEF OwnerEffect
  <2>2. r \notin AdminReqs
    BY ReqsAssumption
  <2>3. QED
    BY <1>1, <2>1, <2>2 DEF OwnerEffect, Apart, IdleCall, Earned
<1>4. Undisturbed'
  <2>1. ASSUME NEW q \in AdminReqs
        PROVE  /\ call'[q].pc \in {"findRow", "decidePage"} =>
                      providerPage'[call'[q].person].status = "SUBMITTED"
               /\ call'[q].pc = "decideProfile" =>
                      studentProfile'[call'[q].person].status = "PENDING"
    <3>1. call'[q] = call[q]
      BY <1>1, ReqsAssumption DEF OwnerEffect
    <3>2. call[q].pc \in {"findRow", "decidePage", "decideProfile"} => call[q].person \in People
      BY KindAt DEF AtPage, AtDecision, Earned, TypedRows
    <3>3. QED
      BY <3>1, <3>2, OwnerWrites DEF Earned, Undisturbed
  <2>2. /\ call'[r].pc \in {"createProfile", "resubmitProfile"} =>
               studentProfile'[call'[r].person].status \notin {"PENDING", "APPROVED"}
        /\ call'[r].pc = "insertPage" => providerPage'[call'[r].person].status = "NONE"
        /\ call'[r].pc \in {"rewritePage", "submitPage"} =>
               providerPage'[call'[r].person].status \in {"DRAFT", "REJECTED"}
    BY <1>1 DEF OwnerEffect, IdleCall
  <2>3. ASSUME NEW q \in OwnerReqs, q # r
        PROVE  /\ call'[q].pc \in {"createProfile", "resubmitProfile"} =>
                      studentProfile'[call'[q].person].status \notin {"PENDING", "APPROVED"}
               /\ call'[q].pc = "insertPage" =>
                      providerPage'[call'[q].person].status = "NONE"
               /\ call'[q].pc \in {"rewritePage", "submitPage"} =>
                      providerPage'[call'[q].person].status \in {"DRAFT", "REJECTED"}
    <3>1. call'[q] = call[q]
      BY <1>1, <2>3 DEF OwnerEffect
    <3>2. call[q].pc \in ProfileForm \cup PageForm => call[q].person \in People
      BY KindAt DEF AtForm, ProfileForm, PageForm, Earned, TypedRows
    <3>3. call[q].pc \in ProfileForm => studentProfile'[call[q].person] = studentProfile[call[q].person]
      BY <1>1, <2>3, <3>2, TwoPeople DEF OwnerEffect, ProfileForm
    <3>4. call[q].pc \in PageForm => providerPage'[call[q].person] = providerPage[call[q].person]
      BY <1>1, <2>3, <3>2, TwoPeople DEF OwnerEffect, PageForm
    <3>5. QED
      BY <3>1, <3>3, <3>4 DEF ProfileForm, PageForm, Earned, Undisturbed
  <2>4. QED
    BY <2>1, <2>2, <2>3 DEF Undisturbed
<1>5. Onboarded' /\ RolesAreEarned'
  BY OwnerWrites DEF Earned, Onboarded, RolesAreEarned
<1>6. QED
  BY <1>2, <1>3, <1>4, <1>5 DEF Earned

LEMMA AdminKeepsEarned ==
    ASSUME OneAtATimeEach, Earned, NEW r \in AdminReqs, AdminStep(r)
    PROVE  Earned'
<1> USE DEF Reqs
<1>1. AdminEffect(r)
  BY AdminEffects DEF Earned, TypedRows
<1>2. TypedRows'
  BY AdminKeepsTypes, AdminKeepsRows DEF Earned, TypedRows
<1>3. Apart'
  <2>1. \A q \in Reqs \ {r} : call'[q] = call[q]
    BY <1>1 DEF AdminEffect
  <2>2. r \notin OwnerReqs
    BY ReqsAssumption
  <2>3. QED
    BY <1>1, <2>1, <2>2 DEF AdminEffect, Apart, Earned
<1>4. Undisturbed'
  <2>1. ASSUME NEW q \in OwnerReqs
        PROVE  /\ call'[q].pc \in {"createProfile", "resubmitProfile"} =>
                      studentProfile'[call'[q].person].status \notin {"PENDING", "APPROVED"}
               /\ call'[q].pc = "insertPage" =>
                      providerPage'[call'[q].person].status = "NONE"
               /\ call'[q].pc \in {"rewritePage", "submitPage"} =>
                      providerPage'[call'[q].person].status \in {"DRAFT", "REJECTED"}
    <3>1. call'[q] = call[q]
      BY <1>1, ReqsAssumption DEF AdminEffect
    <3>2. call[q].pc \in {"createProfile", "resubmitProfile", "insertPage", "rewritePage",
                          "submitPage"} => call[q].person \in People
      BY KindAt DEF AtForm, Earned, TypedRows
    <3>3. QED
      BY <3>1, <3>2, AdminWrites DEF Earned, Undisturbed
  <2>2. /\ call'[r].pc \in {"findRow", "decidePage"} =>
               providerPage'[call'[r].person].status = "SUBMITTED"
        /\ call'[r].pc = "decideProfile" =>
               studentProfile'[call'[r].person].status = "PENDING"
    <3>1. call[r].pc = "findRow" => providerPage[call[r].person].status = "SUBMITTED"
      BY DEF Earned, Undisturbed
    <3>2. QED
      BY <1>1, <3>1 DEF AdminEffect
  <2>3. ASSUME NEW q \in AdminReqs, q # r
        PROVE  /\ call'[q].pc \in {"findRow", "decidePage"} =>
                      providerPage'[call'[q].person].status = "SUBMITTED"
               /\ call'[q].pc = "decideProfile" =>
                      studentProfile'[call'[q].person].status = "PENDING"
    <3>1. call'[q] = call[q]
      BY <1>1, <2>3 DEF AdminEffect
    <3>2. call[q].pc \in {"findRow", "decidePage", "decideProfile"} => call[q].person \in People
      BY KindAt DEF AtPage, AtDecision, Earned, TypedRows
    <3>3. call[q].pc \in {"findRow", "decidePage", "decideProfile"} =>
              /\ providerPage'[call[q].person] = providerPage[call[q].person]
              /\ studentProfile'[call[q].person] = studentProfile[call[q].person]
      BY <1>1, <2>3, <3>2, TwoPeople DEF AdminEffect, Reviewing
    <3>4. QED
      BY <3>1, <3>3 DEF Earned, Undisturbed
  <2>4. QED
    BY <2>1, <2>2, <2>3 DEF Undisturbed
<1>5. Onboarded'
  BY <1>1 DEF AdminEffect, Earned, Onboarded
<1>6. RolesAreEarned'
  <2>1. ASSUME NEW x \in People, account'[x] = "STUDENT"
        PROVE  studentProfile'[x].status = "APPROVED"
    BY <1>1, <2>1, AdminWrites DEF AdminEffect, Earned, RolesAreEarned
  <2>2. ASSUME NEW x \in People, account'[x] \in {"AGENT", "LANDLORD"}
        PROVE  \/ identityEvents'[x]["onboardAgent"] = 1
               \/ providerPage'[x].status = "VERIFIED"
    BY <1>1, <2>2, AdminWrites DEF AdminEffect, Earned, RolesAreEarned, Onboarded
  <2>3. QED
    BY <2>1, <2>2 DEF RolesAreEarned
<1>7. QED
  BY <1>2, <1>3, <1>4, <1>5, <1>6 DEF Earned

LEMMA NextKeepsEarned == OneAtATimeEach /\ Earned /\ [Next]_vars => Earned'
<1> SUFFICES ASSUME OneAtATimeEach, Earned, [Next]_vars
             PROVE  Earned'
  OBVIOUS
<1>1. ASSUME NEW r \in OwnerReqs, OwnerStep(r)
      PROVE  Earned'
  BY <1>1, OwnerKeepsEarned
<1>2. ASSUME NEW r \in AdminReqs, AdminStep(r)
      PROVE  Earned'
  BY <1>2, AdminKeepsEarned
<1>3. ASSUME NEW r \in Reqs, CallFails(r)
      PROVE  Earned'
  <2>1. TypedRows'
    BY <1>3, FailureKeepsTyped DEF Earned
  <2>2. \A q \in Reqs : call'[q] = call[q] \/ call'[q] = IdleCall
    BY <1>3, AnswerMoves DEF CallFails, Earned, TypedRows
  <2>3. Undisturbed' /\ Apart'
    BY <1>3, <2>2 DEF CallFails, rows, Undisturbed, Apart, IdleCall, Earned, Reqs
  <2>4. Onboarded' /\ RolesAreEarned'
    BY <1>3 DEF CallFails, rows, Onboarded, RolesAreEarned, Earned
  <2>5. QED
    BY <2>1, <2>3, <2>4 DEF Earned
<1>4. CASE UNCHANGED vars
  <2>1. TypedRows'
    BY NextKeepsTyped DEF Earned
  <2>2. QED
    BY <1>4, <2>1 DEF vars, rows, Earned, Undisturbed, Apart, Onboarded, RolesAreEarned
<1>5. QED
  BY <1>1, <1>2, <1>3, <1>4 DEF Next

LEMMA EarnedHolds == SerialSpec => []Earned
<1>1. QED
  BY InitEarned, NextKeepsEarned, SerialSteps, PTL DEF Spec

\* One becomes a student by an approved signup alone, and a provider by being
\* onboarded, once, or by a verified Page alone, whatever is edited, sent
\* again, refused or cut short meanwhile.
THEOREM RolesHold == SerialSpec => []RolesAreEarned
<1>1. Earned => RolesAreEarned
  BY DEF Earned
<1>2. QED
  BY <1>1, EarnedHolds, PTL

\* A Page goes through review as the document draws it, a verified Page and
\* an approved profile staying so.
THEOREM LifecycleHolds == SerialSpec => LifecycleIsKept
<1> DEFINE Moves(p) ==
        /\ <<providerPage[p].status, providerPage'[p].status>> \in
               {<<s, s>> : s \in ProviderVerificationState \cup {"NONE"}} \cup
               {<<"NONE", "DRAFT">>, <<"DRAFT", "SUBMITTED">>, <<"REJECTED", "SUBMITTED">>,
                <<"REJECTED", "DRAFT">>, <<"SUBMITTED", "VERIFIED">>,
                <<"SUBMITTED", "REJECTED">>}
        /\ studentProfile[p].status = "APPROVED" => studentProfile'[p] = studentProfile[p]
<1>1. ASSUME Earned, [Next]_vars
      PROVE  [\A p \in People : Moves(p)]_vars
  <2>1. ASSUME NEW p \in People
        PROVE  providerPage[p].status \in ProviderVerificationState \cup {"NONE"}
    BY <1>1 DEF Earned, TypedRows, VerificationTypeOK, ProviderPage, NoRow
  <2>2. ASSUME NEW r \in OwnerReqs, OwnerStep(r)
        PROVE  \A p \in People : Moves(p)
    BY <1>1, <2>1, <2>2, OwnerWrites DEF ProviderVerificationState
  <2>3. ASSUME NEW r \in AdminReqs, AdminStep(r)
        PROVE  \A p \in People : Moves(p)
    BY <1>1, <2>1, <2>3, AdminWrites DEF ProviderVerificationState
  <2>4. ASSUME NEW r \in Reqs, CallFails(r)
        PROVE  \A p \in People : Moves(p)
    BY <2>1, <2>4 DEF CallFails, rows, ProviderVerificationState
  <2>5. QED
    BY <1>1, <2>2, <2>3, <2>4 DEF Next
<1>2. QED
  BY <1>1, EarnedHolds, SerialSteps, PTL DEF Spec, LifecycleIsKept

-----------------------------------------------------------------------------
(* The queue and what it is about, as long as no two forms about one row   *)
(* and no two reviews of one person overlap                                *)

\* A Page under review has one pending row, with what it shows; a verified
\* one has one approved row, with what it shows, and one event.
PageQueued(p) ==
    /\ providerPage[p].status = "SUBMITTED" =>
           \E i \in DOMAIN submissions :
               /\ PendingRows("provider_page", p) = {i}
               /\ submissions[i].content = providerPage[p].content
    /\ providerPage[p].status # "SUBMITTED" => PendingRows("provider_page", p) = {}
    /\ providerPage[p].status = "VERIFIED" =>
           /\ identityEvents[p]["provider_page"] = 1
           /\ \E i \in DOMAIN submissions :
                  /\ ApprovedRows("provider_page", p) = {i}
                  /\ submissions[i].content = providerPage[p].content
    /\ providerPage[p].status # "VERIFIED" =>
           /\ identityEvents[p]["provider_page"] = 0
           /\ ApprovedRows("provider_page", p) = {}

\* So has a profile under review; one that was decided has a row that says so.
ProfileQueued(p) ==
    /\ studentProfile[p].status = "PENDING" =>
           \E i \in DOMAIN submissions :
               /\ PendingRows("student_profile", p) = {i}
               /\ submissions[i].content = studentProfile[p].content
    /\ studentProfile[p].status # "PENDING" => PendingRows("student_profile", p) = {}
    /\ studentProfile[p].status \in Verdict =>
           \E i \in DOMAIN submissions :
               /\ submissions[i].entity = "student_profile"
               /\ submissions[i].person = p
               /\ submissions[i].content = studentProfile[p].content
               /\ submissions[i].status = studentProfile[p].status

\* What a request submits is what the Page shows, what it decides is pending,
\* and what it tells is on record.
RequestQueued(r) ==
    /\ call[r].pc = "submitPage" => providerPage[call[r].person].content = call[r].content
    /\ call[r].pc = "findEntity" =>
           /\ call[r].row \in DOMAIN submissions
           /\ submissions[call[r].row].person = call[r].person
           /\ submissions[call[r].row].status = "PENDING"
    /\ call[r].pc = "decidePage" => call[r].row \in PendingRows("provider_page", call[r].person)
    /\ call[r].pc = "decideProfile" =>
           call[r].row \in PendingRows("student_profile", call[r].person)
    /\ call[r].pc = "mail" =>
           /\ call[r].row \in DOMAIN submissions
           /\ submissions[call[r].row].status = call[r].choice

QueueInv ==
    /\ \A p \in People : PageQueued(p) /\ ProfileQueued(p)
    /\ \A r \in Reqs : RequestQueued(r)
    /\ MailsTellTheVerdict

\* A row that is added leaves the others as they are.
LEMMA AddedRow ==
    ASSUME VerificationTypeOK, NEW e \in {"student_profile", "provider_page"}, NEW p \in People,
           NEW c \in Contents, submissions' = Queued(e, p, c)
    PROVE  /\ DOMAIN submissions' = DOMAIN submissions \cup {Len(submissions) + 1}
           /\ \A i \in DOMAIN submissions : submissions'[i] = submissions[i]
           /\ submissions'[Len(submissions) + 1].content = c
           /\ \A x \in People, f \in {"student_profile", "provider_page"} :
                 /\ PendingRows(f, x)' =
                        PendingRows(f, x) \cup
                        (IF f = e /\ x = p THEN {Len(submissions) + 1} ELSE {})
                 /\ ApprovedRows(f, x)' = ApprovedRows(f, x)
<1> DEFINE row == [entity |-> e, person |-> p, content |-> c, status |-> "PENDING"]
           n == Len(submissions) + 1
<1>1. submissions \in Seq(Submission) /\ row \in Submission
  BY DEF VerificationTypeOK, Submission, ProfileStatus
<1>2. submissions' = Append(submissions, row)
  BY DEF Queued
<1>3. /\ Len(submissions) \in Nat /\ DOMAIN submissions = 1..Len(submissions)
      /\ DOMAIN submissions' = 1..n
      /\ \A i \in 1..Len(submissions) : submissions'[i] = submissions[i]
      /\ submissions'[n] = row
  <2>1. /\ Len(submissions) \in Nat /\ DOMAIN submissions = 1..Len(submissions)
    BY <1>1, LenProperties
  <2>2. /\ Append(submissions, row) \in Seq(Submission)
        /\ Len(Append(submissions, row)) = Len(submissions) + 1
        /\ \A i \in 1..Len(submissions) : Append(submissions, row)[i] = submissions[i]
        /\ Append(submissions, row)[Len(submissions) + 1] = row
    BY <1>1, AppendProperties
  <2>3. DOMAIN Append(submissions, row) = 1..n
    BY <2>2, LenProperties
  <2>4. QED
    BY <1>2, <2>1, <2>2, <2>3
<1>4. /\ DOMAIN submissions' = DOMAIN submissions \cup {n}
      /\ n \notin DOMAIN submissions
      /\ \A i \in DOMAIN submissions : submissions'[i] = submissions[i]
  BY <1>3
<1>5. submissions'[n] = row
  BY <1>3
<1> HIDE DEF n
<1>6. ASSUME NEW x \in People, NEW f \in {"student_profile", "provider_page"}
      PROVE  /\ PendingRows(f, x)' =
                    PendingRows(f, x) \cup (IF f = e /\ x = p THEN {n} ELSE {})
             /\ ApprovedRows(f, x)' = ApprovedRows(f, x)
  BY <1>4, <1>5 DEF PendingRows, ApprovedRows
<1>7. QED
  BY <1>4, <1>5, <1>6 DEF n

\* A row that is decided is not pending any more, and all else is as it was.
LEMMA DecidedRow ==
    ASSUME VerificationTypeOK, NEW e \in {"student_profile", "provider_page"}, NEW p \in People,
           NEW i \in PendingRows(e, p), NEW v \in Verdict, submissions' = Decided(i, v)
    PROVE  /\ DOMAIN submissions' = DOMAIN submissions
           /\ \A j \in DOMAIN submissions \ {i} : submissions'[j] = submissions[j]
           /\ submissions'[i].entity = e /\ submissions'[i].person = p
           /\ submissions'[i].status = v
           /\ submissions'[i].content = submissions[i].content
           /\ \A x \in People, f \in {"student_profile", "provider_page"} :
                 /\ PendingRows(f, x)' = PendingRows(f, x) \ {i}
                 /\ ApprovedRows(f, x)' =
                        ApprovedRows(f, x) \cup
                        (IF f = e /\ x = p /\ v = "APPROVED" THEN {i} ELSE {})
<1>1. i \in DOMAIN submissions /\ submissions[i].entity = e /\ submissions[i].person = p
      /\ submissions[i].status = "PENDING"
  BY DEF PendingRows
<1>2. DOMAIN submissions' = DOMAIN submissions
  BY DEF Decided
<1>3. \A j \in DOMAIN submissions \ {i} : submissions'[j] = submissions[j]
  BY DEF Decided
<1>4. /\ submissions'[i].entity = e /\ submissions'[i].person = p
      /\ submissions'[i].status = v
      /\ submissions'[i].content = submissions[i].content
  <2>1. submissions[i] \in Submission
    BY <1>1 DEF VerificationTypeOK
  <2>2. submissions'[i] = [submissions[i] EXCEPT !.status = v]
    BY <1>1 DEF Decided
  <2>3. QED
    BY <1>1, <2>1, <2>2 DEF Submission
<1>5. v # "PENDING"
  BY DEF Verdict
<1>6. ASSUME NEW x \in People, NEW f \in {"student_profile", "provider_page"}
      PROVE  /\ PendingRows(f, x)' = PendingRows(f, x) \ {i}
             /\ ApprovedRows(f, x)' =
                    ApprovedRows(f, x) \cup
                    (IF f = e /\ x = p /\ v = "APPROVED" THEN {i} ELSE {})
  <2>1. PendingRows(f, x)' = PendingRows(f, x) \ {i}
    BY <1>1, <1>2, <1>3, <1>4, <1>5 DEF PendingRows
  <2>2. ApprovedRows(f, x)' = ApprovedRows(f, x) \cup
                    (IF f = e /\ x = p /\ v = "APPROVED" THEN {i} ELSE {})
    BY <1>1, <1>2, <1>3, <1>4 DEF ApprovedRows
  <2>3. QED
    BY <2>1, <2>2
<1>7. QED
  BY <1>2, <1>3, <1>4, <1>6

\* No row loses its content, and what is decided stays as it is.
RowsKept ==
    \A i \in DOMAIN submissions :
        /\ i \in DOMAIN submissions'
        /\ submissions'[i].person = submissions[i].person
        /\ submissions'[i].content = submissions[i].content
        /\ submissions[i].status # "PENDING" => submissions'[i] = submissions[i]

\* What has not been touched is queued as it was.
LEMMA PageUntouched ==
    ASSUME RowsKept, NEW p \in People, PageQueued(p), providerPage'[p] = providerPage[p],
           identityEvents'[p]["provider_page"] = identityEvents[p]["provider_page"],
           PendingRows("provider_page", p)' = PendingRows("provider_page", p),
           ApprovedRows("provider_page", p)' = ApprovedRows("provider_page", p)
    PROVE  PageQueued(p)'
BY DEF RowsKept, PageQueued

LEMMA ProfileUntouched ==
    ASSUME RowsKept, NEW p \in People, ProfileQueued(p), studentProfile'[p] = studentProfile[p],
           PendingRows("student_profile", p)' = PendingRows("student_profile", p)
    PROVE  ProfileQueued(p)'
BY DEF RowsKept, ProfileQueued, Verdict

LEMMA MailsUntouched ==
    ASSUME RowsKept, MailsTellTheVerdict, mail' = mail, VerificationTypeOK
    PROVE  MailsTellTheVerdict'
BY DEF RowsKept, MailsTellTheVerdict, VerificationTypeOK, Verdict

\* So is a step that writes nothing but its request.
LEMMA QueueUntouched ==
    ASSUME Earned, QueueInv, UNCHANGED <<submissions, studentProfile, providerPage>>,
           \A p \in People :
               identityEvents'[p]["provider_page"] = identityEvents[p]["provider_page"]
    PROVE  /\ \A p \in People : PageQueued(p)' /\ ProfileQueued(p)'
           /\ mail' = mail => MailsTellTheVerdict'
           /\ \A q \in Reqs : call'[q] = call[q] => RequestQueued(q)'
<1>1. RowsKept
  BY DEF RowsKept
<1>2. ASSUME NEW p \in People, NEW f \in {"student_profile", "provider_page"}
      PROVE  /\ PendingRows(f, p)' = PendingRows(f, p)
             /\ ApprovedRows(f, p)' = ApprovedRows(f, p)
  BY DEF PendingRows, ApprovedRows
<1>3. \A p \in People : PageQueued(p)' /\ ProfileQueued(p)'
  BY <1>1, <1>2, PageUntouched, ProfileUntouched DEF QueueInv
<1>4. mail' = mail => MailsTellTheVerdict'
  BY <1>1, MailsUntouched DEF QueueInv, Earned, TypedRows
<1>5. ASSUME NEW q \in Reqs, call'[q] = call[q]
      PROVE  RequestQueued(q)'
  BY <1>5 DEF QueueInv, RequestQueued, PendingRows
<1>6. QED
  BY <1>3, <1>4, <1>5

\* A row more in the queue leaves what the other requests hold.
LEMMA OthersKept ==
    ASSUME NEW q \in Reqs, RequestQueued(q), call'[q] = call[q],
           call[q].pc = "submitPage" =>
               providerPage'[call[q].person] = providerPage[call[q].person],
           \A i \in DOMAIN submissions :
               i \in DOMAIN submissions' /\ submissions'[i] = submissions[i]
    PROVE  RequestQueued(q)'
BY DEF RequestQueued, PendingRows

LEMMA IdleQueued ==
    ASSUME NEW q \in Reqs, call'[q] = IdleCall
    PROVE  RequestQueued(q)'
BY DEF RequestQueued, IdleCall

LEMMA SignupKeepsQueue ==
    ASSUME OneAtATimeEach, Earned, QueueInv, NEW r \in OwnerReqs, SignupWrite(r)
    PROVE  QueueInv'
<1> USE DEF Reqs
<1>1. VerificationTypeOK
  BY DEF Earned, TypedRows
<1>2. PICK p \in People, c \in Contents : p = call[r].person /\ c = call[r].content
  BY <1>1, KindAt DEF SignupWrite, AtForm
<1>n. PICK n : n = Len(submissions) + 1
  OBVIOUS
<1>3. call'[r] = IdleCall /\ \A q \in Reqs \ {r} : call'[q] = call[q]
  BY <1>1, AnswerMoves DEF SignupWrite
<1>5. UNCHANGED <<providerPage, identityEvents, mail>>
  BY DEF SignupWrite
<1>6. CASE UNCHANGED <<studentProfile, submissions>>
  <2>1. /\ \A x \in People : PageQueued(x)' /\ ProfileQueued(x)'
        /\ MailsTellTheVerdict'
        /\ \A q \in Reqs \ {r} : RequestQueued(q)'
    BY <1>3, <1>5, <1>6, QueueUntouched
  <2>2. RequestQueued(r)'
    BY <1>3, IdleQueued
  <2>3. QED
    BY <2>1, <2>2 DEF QueueInv
<1>7. CASE /\ studentProfile' = [studentProfile EXCEPT ![p] = [status |-> "PENDING", content |-> c]]
           /\ submissions' = Queued("student_profile", p, c)
  <2>1. /\ DOMAIN submissions' = DOMAIN submissions \cup {n}
        /\ \A i \in DOMAIN submissions : submissions'[i] = submissions[i]
        /\ submissions'[n].content = c
        /\ \A x \in People :
              /\ PendingRows("provider_page", x)' = PendingRows("provider_page", x)
              /\ ApprovedRows("provider_page", x)' = ApprovedRows("provider_page", x)
              /\ x # p => PendingRows("student_profile", x)' = PendingRows("student_profile", x)
        /\ PendingRows("student_profile", p)' = PendingRows("student_profile", p) \cup {n}
    <3>1. /\ DOMAIN submissions' = DOMAIN submissions \cup {Len(submissions) + 1}
          /\ \A i \in DOMAIN submissions : submissions'[i] = submissions[i]
          /\ submissions'[Len(submissions) + 1].content = c
          /\ \A x \in People, f \in {"student_profile", "provider_page"} :
                /\ PendingRows(f, x)' =
                       PendingRows(f, x) \cup
                       (IF f = "student_profile" /\ x = p THEN {Len(submissions) + 1} ELSE {})
                /\ ApprovedRows(f, x)' = ApprovedRows(f, x)
      BY <1>1, <1>7, AddedRow
    <3>2. QED
      BY <1>n, <3>1
  <2>2. RowsKept
    BY <2>1 DEF RowsKept
  <2>3. \A x \in People : PageQueued(x)'
    BY <1>5, <2>1, <2>2, PageUntouched DEF QueueInv
  <2>4. \A x \in People \ {p} : ProfileQueued(x)'
    <3>1. \A x \in People \ {p} : studentProfile'[x] = studentProfile[x]
      BY <1>1, <1>7 DEF VerificationTypeOK
    <3>2. QED
      BY <2>1, <2>2, <3>1, ProfileUntouched DEF QueueInv
  <2>5. ProfileQueued(p)'
    <3>1. studentProfile'[p].status = "PENDING" /\ studentProfile'[p].content = c
      BY <1>1, <1>2, <1>7 DEF VerificationTypeOK
    <3>2. studentProfile[p].status \notin {"PENDING", "APPROVED"}
      BY <1>2 DEF Earned, Undisturbed, SignupWrite
    <3>3. PendingRows("student_profile", p) = {}
      BY <1>2, <3>2 DEF QueueInv, ProfileQueued
    <3>4. PendingRows("student_profile", p)' = {n} /\ n \in DOMAIN submissions'
      BY <2>1, <3>3
    <3>5. QED
      BY <2>1, <3>1, <3>4 DEF ProfileQueued, Verdict
  <2>6. \A q \in Reqs \ {r} : RequestQueued(q)'
    BY <1>3, <1>5, <2>1, OthersKept DEF QueueInv
  <2>7. RequestQueued(r)'
    BY <1>3, IdleQueued
  <2>8. MailsTellTheVerdict'
    BY <1>1, <1>5, <2>2, MailsUntouched DEF QueueInv
  <2>9. QED
    BY <2>3, <2>4, <2>5, <2>6, <2>7, <2>8 DEF QueueInv
<1>8. QED
  BY <1>2, <1>6, <1>7 DEF SignupWrite

LEMMA PageWriteKeepsQueue ==
    ASSUME OneAtATimeEach, Earned, QueueInv, NEW r \in OwnerReqs, PageWrite(r)
    PROVE  QueueInv'
<1> USE DEF Reqs
<1>1. VerificationTypeOK
  BY DEF Earned, TypedRows
<1>2. PICK p \in People : p = call[r].person
  BY <1>1, KindAt DEF PageWrite, AtForm
<1>3. call'[r] = IdleCall /\ \A q \in Reqs \ {r} : call'[q] = call[q]
  BY <1>1, AnswerMoves DEF PageWrite
<1>4. ASSUME NEW q \in Reqs, q # r, call[q].pc = "submitPage"
      PROVE  providerPage'[call[q].person] = providerPage[call[q].person]
  <2>1. q \in OwnerReqs /\ call[q].person \in People
    BY <1>1, <1>4, KindAt DEF Earned, Apart, AtForm
  <2>2. call[q].person # p
    BY <1>2, <1>4, <2>1, TwoPeople DEF PageWrite, PageForm
  <2>3. QED
    BY <1>1, <1>2, <2>1, <2>2 DEF PageWrite, VerificationTypeOK
<1>5. UNCHANGED <<studentProfile, submissions, identityEvents, mail>>
  BY DEF PageWrite
<1>6. RowsKept
  BY <1>5 DEF RowsKept
<1>7. ASSUME NEW x \in People, NEW f \in {"student_profile", "provider_page"}
      PROVE  /\ PendingRows(f, x)' = PendingRows(f, x)
             /\ ApprovedRows(f, x)' = ApprovedRows(f, x)
  BY <1>5 DEF PendingRows, ApprovedRows
<1>8. ASSUME NEW x \in People
      PROVE  PageQueued(x)'
  <2>1. CASE providerPage'[x] = providerPage[x]
    BY <1>5, <1>6, <1>7, <2>1, PageUntouched DEF QueueInv
  <2>2. CASE providerPage'[x] # providerPage[x]
    <3>1. x = p /\ providerPage'[x].status = "DRAFT"
      BY <1>1, <1>2, <2>2 DEF PageWrite, VerificationTypeOK
    <3>2. providerPage[x].status \notin {"SUBMITTED", "VERIFIED"}
      BY <1>2, <2>2, <3>1 DEF PageWrite, Earned, Undisturbed
    <3>3. /\ PendingRows("provider_page", x) = {} /\ ApprovedRows("provider_page", x) = {}
          /\ identityEvents[x]["provider_page"] = 0
      BY <3>2 DEF QueueInv, PageQueued
    <3>4. QED
      BY <1>5, <1>7, <3>1, <3>3 DEF PageQueued
  <2>3. QED
    BY <2>1, <2>2
<1>9. \A x \in People : ProfileQueued(x)'
  BY <1>5, <1>6, <1>7, ProfileUntouched DEF QueueInv
<1>10. \A q \in Reqs : RequestQueued(q)'
  BY <1>3, <1>4, <1>5, OthersKept, IdleQueued DEF QueueInv
<1>11. MailsTellTheVerdict'
  BY <1>1, <1>5, <1>6, MailsUntouched DEF QueueInv
<1>12. QED
  BY <1>8, <1>9, <1>10, <1>11 DEF QueueInv

LEMMA SubmitKeepsQueue ==
    ASSUME OneAtATimeEach, Earned, QueueInv, NEW r \in OwnerReqs, SubmitPageWrite(r)
    PROVE  QueueInv'
<1> USE DEF Reqs
<1>1. VerificationTypeOK
  BY DEF Earned, TypedRows
<1>2. PICK p \in People, c \in Contents : p = call[r].person /\ c = call[r].content
  BY <1>1, KindAt DEF SubmitPageWrite, AtForm
<1>n. PICK n : n = Len(submissions) + 1
  OBVIOUS
<1>3. call'[r] = IdleCall /\ \A q \in Reqs \ {r} : call'[q] = call[q]
  BY <1>1, AnswerMoves DEF SubmitPageWrite
<1>4. ASSUME NEW q \in Reqs, q # r, call[q].pc = "submitPage"
      PROVE  providerPage'[call[q].person] = providerPage[call[q].person]
  <2>1. q \in OwnerReqs /\ call[q].person \in People
    BY <1>1, <1>4, KindAt DEF Earned, Apart, AtForm
  <2>2. call[q].person # p
    BY <1>2, <1>4, <2>1, TwoPeople DEF SubmitPageWrite, PageForm
  <2>3. QED
    BY <1>1, <1>2, <2>1, <2>2 DEF SubmitPageWrite, VerificationTypeOK
<1>5. UNCHANGED <<studentProfile, identityEvents, mail>>
  BY DEF SubmitPageWrite
<1>6. /\ DOMAIN submissions' = DOMAIN submissions \cup {n}
      /\ \A i \in DOMAIN submissions : submissions'[i] = submissions[i]
      /\ submissions'[n].content = c
      /\ \A x \in People :
            /\ PendingRows("student_profile", x)' = PendingRows("student_profile", x)
            /\ ApprovedRows("provider_page", x)' = ApprovedRows("provider_page", x)
            /\ x # p => PendingRows("provider_page", x)' = PendingRows("provider_page", x)
      /\ PendingRows("provider_page", p)' = PendingRows("provider_page", p) \cup {n}
  <2>1. submissions' = Queued("provider_page", p, c)
    BY <1>2 DEF SubmitPageWrite
  <2>2. QED
    <3>1. /\ DOMAIN submissions' = DOMAIN submissions \cup {Len(submissions) + 1}
          /\ \A i \in DOMAIN submissions : submissions'[i] = submissions[i]
          /\ submissions'[Len(submissions) + 1].content = c
          /\ \A x \in People, f \in {"student_profile", "provider_page"} :
                /\ PendingRows(f, x)' =
                       PendingRows(f, x) \cup
                       (IF f = "provider_page" /\ x = p THEN {Len(submissions) + 1} ELSE {})
                /\ ApprovedRows(f, x)' = ApprovedRows(f, x)
      BY <1>1, <2>1, AddedRow
    <3>2. QED
      BY <1>n, <3>1
<1>7. RowsKept
  BY <1>6 DEF RowsKept
<1>8. \A x \in People : ProfileQueued(x)'
  BY <1>5, <1>6, <1>7, ProfileUntouched DEF QueueInv
<1>9. \A x \in People \ {p} : PageQueued(x)'
  <2>1. \A x \in People \ {p} : providerPage'[x] = providerPage[x]
    BY <1>1, <1>2 DEF SubmitPageWrite, VerificationTypeOK
  <2>2. QED
    BY <1>5, <1>6, <1>7, <2>1, PageUntouched DEF QueueInv
<1>10. PageQueued(p)'
  <2>1. providerPage[p].status \in {"DRAFT", "REJECTED"} /\ providerPage[p].content = c
    BY <1>2 DEF Earned, Undisturbed, SubmitPageWrite, QueueInv, RequestQueued
  <2>2. providerPage'[p].status = "SUBMITTED" /\ providerPage'[p].content = c
    <3>1. providerPage[p] \in [status : ProviderVerificationState, content : Contents]
      BY <1>1, <1>2, <2>1 DEF VerificationTypeOK, ProviderPage, NoRow
    <3>2. providerPage'[p] = [providerPage[p] EXCEPT !.status = "SUBMITTED"]
      BY <1>1, <1>2 DEF SubmitPageWrite, VerificationTypeOK
    <3>3. QED
      BY <2>1, <3>1, <3>2
  <2>3. /\ PendingRows("provider_page", p) = {} /\ ApprovedRows("provider_page", p) = {}
        /\ identityEvents[p]["provider_page"] = 0
    BY <1>2, <2>1 DEF QueueInv, PageQueued
  <2>4. /\ PendingRows("provider_page", p)' = {n} /\ n \in DOMAIN submissions'
        /\ ApprovedRows("provider_page", p)' = {}
    BY <1>2, <1>6, <2>3
  <2>5. QED
    BY <1>5, <1>6, <2>2, <2>3, <2>4 DEF PageQueued
<1>11. \A q \in Reqs : RequestQueued(q)'
  BY <1>3, <1>4, <1>6, OthersKept, IdleQueued DEF QueueInv
<1>12. MailsTellTheVerdict'
  BY <1>1, <1>5, <1>7, MailsUntouched DEF QueueInv
<1>13. QED
  BY <1>8, <1>9, <1>10, <1>11, <1>12 DEF QueueInv

\* What an applicant or owner does.
LEMMA OwnerKeepsQueue ==
    ASSUME OneAtATimeEach, Earned, QueueInv, NEW r \in OwnerReqs, OwnerStep(r)
    PROVE  QueueInv'
<1> USE DEF Reqs
<1>1. VerificationTypeOK
  BY DEF Earned, TypedRows
<1>2. ASSUME UNCHANGED <<rows, mail>>, RequestQueued(r)',
             \A q \in Reqs \ {r} : call'[q] = call[q]
      PROVE  QueueInv'
  <2>1. /\ UNCHANGED <<submissions, studentProfile, providerPage, identityEvents>>
        /\ mail' = mail
    BY <1>2 DEF rows
  <2>2. /\ \A p \in People : PageQueued(p)' /\ ProfileQueued(p)'
        /\ MailsTellTheVerdict'
        /\ \A q \in Reqs \ {r} : RequestQueued(q)'
    BY <1>2, <2>1, QueueUntouched
  <2>3. QED
    BY <1>2, <2>2 DEF QueueInv
<1>3. ASSUME NEW p \in People, NEW c \in Complete, SignupRead(r, p, c)
      PROVE  QueueInv'
  <2>1. /\ call'[r].pc \in {"createProfile", "resubmitProfile"}
        /\ \A q \in Reqs \ {r} : call'[q] = call[q]
    BY <1>1, <1>3, StartMoves DEF SignupRead
  <2>2. RequestQueued(r)'
    BY <2>1 DEF RequestQueued
  <2>3. QED
    BY <1>2, <1>3, <2>1, <2>2 DEF SignupRead
<1>4. ASSUME NEW p \in People, NEW c \in Contents,
             PageCreateRead(r, p, c) \/ PageUpdateRead(r, p, c)
      PROVE  QueueInv'
  <2>1. /\ call'[r].pc \in {"insertPage", "rewritePage"}
        /\ \A q \in Reqs \ {r} : call'[q] = call[q]
    BY <1>1, <1>4, StartMoves DEF PageCreateRead, PageUpdateRead
  <2>2. RequestQueued(r)'
    BY <2>1 DEF RequestQueued
  <2>3. QED
    BY <1>2, <1>4, <2>1, <2>2 DEF PageCreateRead, PageUpdateRead
<1>5. ASSUME NEW p \in People, SubmitPageRead(r, p)
      PROVE  QueueInv'
  <2>1. /\ call'[r].pc = "submitPage" /\ call'[r].person = p
        /\ \A q \in Reqs \ {r} : call'[q] = call[q]
    BY <1>1, <1>5, StartMoves DEF SubmitPageRead
  <2>2. call'[r].content = providerPage[p].content
    BY <1>1, <1>5 DEF SubmitPageRead, Start, VerificationTypeOK
  <2>3. providerPage' = providerPage
    BY <1>5 DEF SubmitPageRead, rows
  <2>4. RequestQueued(r)'
    BY <2>1, <2>2, <2>3 DEF RequestQueued
  <2>5. QED
    BY <1>2, <1>5, <2>1, <2>4 DEF SubmitPageRead
<1>6. QED
  BY <1>3, <1>4, <1>5, SignupKeepsQueue, PageWriteKeepsQueue, SubmitKeepsQueue DEF OwnerStep

\* A decision about a row leaves what owners' requests hold.
LEMMA OwnersKept ==
    ASSUME Earned, NEW q \in OwnerReqs, RequestQueued(q), call'[q] = call[q],
           \A x \in People : providerPage'[x].content = providerPage[x].content
    PROVE  RequestQueued(q)'
<1>1. call[q].pc \notin {"findEntity", "decidePage", "decideProfile", "mail"}
  BY DEF Earned, Apart
<1>2. call[q].pc = "submitPage" => call[q].person \in People
  BY KindAt DEF Earned, TypedRows, AtForm, Reqs
<1>3. QED
  BY <1>1, <1>2 DEF RequestQueued

\* Nor does it touch what other reviews hold, which are about other people.
LEMMA ReviewsKept ==
    ASSUME OneAtATimeEach, Earned, QueueInv, NEW r \in AdminReqs, NEW q \in AdminReqs, q # r,
           call[r].pc \in {"decidePage", "decideProfile"}, call'[q] = call[q],
           NEW i \in DOMAIN submissions, submissions[i].person = call[r].person,
           submissions[i].status = "PENDING", DOMAIN submissions' = DOMAIN submissions,
           \A j \in DOMAIN submissions \ {i} : submissions'[j] = submissions[j]
    PROVE  RequestQueued(q)'
<1>1. RequestQueued(q) /\ VerificationTypeOK
  BY DEF QueueInv, Earned, TypedRows, Reqs
<1>2. call[q].pc # "submitPage"
  BY DEF Earned, Apart
<1>3. ASSUME call[q].pc \in {"findEntity", "decidePage", "decideProfile"}
      PROVE  /\ call[q].row \in DOMAIN submissions
             /\ submissions'[call[q].row] = submissions[call[q].row]
  <2>1. /\ call[q].row \in DOMAIN submissions
        /\ submissions[call[q].row].person = call[q].person
    BY <1>1, <1>3 DEF RequestQueued, PendingRows
  <2>2. call[q].person # call[r].person
    BY <1>3, TwoPeople DEF Reviewing
  <2>3. QED
    BY <2>1, <2>2
<1>4. ASSUME call[q].pc = "mail"
      PROVE  /\ call[q].row \in DOMAIN submissions
             /\ submissions'[call[q].row] = submissions[call[q].row]
  <2>1. /\ call[q].row \in DOMAIN submissions
        /\ submissions[call[q].row].status \in Verdict
    BY <1>1, <1>4, KindAt DEF RequestQueued, AtRow, Reqs
  <2>2. QED
    BY <2>1 DEF Verdict
<1>5. QED
  BY <1>1, <1>2, <1>3, <1>4 DEF RequestQueued, PendingRows

LEMMA DecidePageKeepsQueue ==
    ASSUME OneAtATimeEach, Earned, QueueInv, NEW r \in AdminReqs, DecidePage(r)
    PROVE  QueueInv'
<1> USE DEF Reqs
<1>1. VerificationTypeOK
  BY DEF Earned, TypedRows
<1>2. PICK p \in People, i \in Nat \ {0}, v \in Verdict :
          p = call[r].person /\ i = call[r].row /\ v = call[r].choice
  BY <1>1, KindAt DEF DecidePage, AtDecision
<1>3. i \in PendingRows("provider_page", p) /\ providerPage[p].status = "SUBMITTED"
  BY <1>2 DEF QueueInv, RequestQueued, DecidePage, Earned, Undisturbed
<1>4. /\ i \in DOMAIN submissions /\ PendingRows("provider_page", p) = {i}
      /\ ApprovedRows("provider_page", p) = {}
      /\ submissions[i].content = providerPage[p].content
      /\ submissions[i].status = "PENDING"
      /\ identityEvents[p]["provider_page"] = 0
  <2>1. PageQueued(p)
    BY DEF QueueInv
  <2>2. QED
    BY <1>3, <2>1 DEF PageQueued, PendingRows
<1>5. /\ DOMAIN submissions' = DOMAIN submissions
      /\ \A j \in DOMAIN submissions \ {i} : submissions'[j] = submissions[j]
      /\ submissions'[i].entity = "provider_page" /\ submissions'[i].person = p
      /\ submissions'[i].status = v
      /\ submissions'[i].content = submissions[i].content
      /\ \A x \in People, f \in {"student_profile", "provider_page"} :
            /\ PendingRows(f, x)' = PendingRows(f, x) \ {i}
            /\ ApprovedRows(f, x)' =
                   ApprovedRows(f, x) \cup
                   (IF f = "provider_page" /\ x = p /\ v = "APPROVED" THEN {i} ELSE {})
  <2>1. submissions' = Decided(i, v)
    BY <1>2 DEF DecidePage
  <2>2. QED
    BY <1>1, <1>3, <2>1, DecidedRow
<1>6. submissions[i].entity = "provider_page" /\ submissions[i].person = p
  BY <1>3 DEF PendingRows
<1>7. RowsKept
  BY <1>4, <1>5, <1>6 DEF RowsKept
<1>8. /\ \A x \in People :
            PendingRows("student_profile", x)' = PendingRows("student_profile", x)
      /\ \A x \in People \ {p} :
            /\ PendingRows("provider_page", x)' = PendingRows("provider_page", x)
            /\ ApprovedRows("provider_page", x)' = ApprovedRows("provider_page", x)
  <2>1. /\ \A x \in People : i \notin PendingRows("student_profile", x)
        /\ \A x \in People \ {p} : i \notin PendingRows("provider_page", x)
    BY <1>6 DEF PendingRows
  <2>2. \A x \in People :
            /\ PendingRows("student_profile", x)' = PendingRows("student_profile", x) \ {i}
            /\ PendingRows("provider_page", x)' = PendingRows("provider_page", x) \ {i}
    BY <1>5
  <2>3. \A x \in People \ {p} :
            ApprovedRows("provider_page", x)' = ApprovedRows("provider_page", x)
    BY <1>5
  <2>4. \A S : i \notin S => S \ {i} = S
    OBVIOUS
  <2>5. \A x \in People :
            PendingRows("student_profile", x)' = PendingRows("student_profile", x)
    BY <2>1, <2>2, <2>4
  <2>6. \A x \in People \ {p} :
            PendingRows("provider_page", x)' = PendingRows("provider_page", x)
    BY <2>1, <2>2, <2>4
  <2>7. QED
    BY <2>3, <2>5, <2>6
<1>9. /\ providerPage'[p].status = (IF v = "APPROVED" THEN "VERIFIED" ELSE "REJECTED")
      /\ providerPage'[p].content = providerPage[p].content
      /\ \A x \in People \ {p} : providerPage'[x] = providerPage[x]
  <2>1. providerPage[p] \in [status : ProviderVerificationState, content : Contents]
    BY <1>1, <1>3 DEF VerificationTypeOK, ProviderPage, NoRow
  <2>2. providerPage'[p] = [providerPage[p] EXCEPT !.status =
                               IF v = "APPROVED" THEN "VERIFIED" ELSE "REJECTED"]
    BY <1>1, <1>2 DEF DecidePage, VerificationTypeOK
  <2>3. \A x \in People \ {p} : providerPage'[x] = providerPage[x]
    BY <1>1, <1>2 DEF DecidePage, VerificationTypeOK
  <2>4. QED
    BY <2>1, <2>2, <2>3
<1>10. /\ identityEvents'[p]["provider_page"] = (IF v = "APPROVED" THEN 1 ELSE 0)
       /\ \A x \in People \ {p} : identityEvents'[x] = identityEvents[x]
  <2>1. CASE v = "APPROVED"
    <3>1. identityEvents' = Recorded(p, "provider_page")
      BY <1>2, <2>1 DEF DecidePage
    <3>2. identityEvents'[p]["provider_page"] = identityEvents[p]["provider_page"] + 1
      BY <1>1, <3>1 DEF Recorded, VerificationTypeOK, IdentityOrigin
    <3>3. QED
      BY <1>1, <1>4, <2>1, <3>1, <3>2 DEF Recorded, VerificationTypeOK
  <2>2. CASE v # "APPROVED"
    BY <1>2, <1>4, <2>2 DEF DecidePage
  <2>3. QED
    BY <2>1, <2>2
<1>11. PageQueued(p)'
  <2>1. PendingRows("provider_page", p)' = {}
    BY <1>4, <1>5
  <2>2. ApprovedRows("provider_page", p)' = (IF v = "APPROVED" THEN {i} ELSE {})
    BY <1>4, <1>5
  <2>3. i \in DOMAIN submissions' /\ submissions'[i].content = providerPage'[p].content
    BY <1>4, <1>5, <1>9
  <2>4. CASE v = "APPROVED"
    BY <1>9, <1>10, <2>1, <2>2, <2>3, <2>4 DEF PageQueued
  <2>5. CASE v # "APPROVED"
    BY <1>9, <1>10, <2>1, <2>2, <2>5 DEF PageQueued
  <2>6. QED
    BY <2>4, <2>5
<1>12. \A x \in People \ {p} : PageQueued(x)'
  BY <1>7, <1>8, <1>9, <1>10, PageUntouched DEF QueueInv
<1>13. \A x \in People : ProfileQueued(x)'
  <2>1. studentProfile' = studentProfile
    BY DEF DecidePage
  <2>2. QED
    BY <1>7, <1>8, <2>1, ProfileUntouched DEF QueueInv
<1>14. /\ call'[r].pc = "mail" /\ call'[r].row = i /\ call'[r].choice = v
       /\ \A q \in Reqs \ {r} : call'[q] = call[q]
  <2>1. call[r] \in AtDecision
    BY <1>1, KindAt DEF DecidePage
  <2>2. call'[r] = [call[r] EXCEPT !.pc = "mail", !.content = Null]
    BY <1>1 DEF DecidePage, GoToMail, VerificationTypeOK
  <2>3. \A q \in Reqs \ {r} : call'[q] = call[q]
    BY <1>1 DEF DecidePage, GoToMail, VerificationTypeOK
  <2>4. QED
    BY <1>2, <2>1, <2>2, <2>3 DEF AtDecision
<1>15. RequestQueued(r)'
  BY <1>4, <1>5, <1>14 DEF RequestQueued
<1>16. ASSUME NEW q \in Reqs, q # r
       PROVE  RequestQueued(q)'
  <2>1. \A x \in People : providerPage'[x].content = providerPage[x].content
    BY <1>9
  <2>2. CASE q \in OwnerReqs
    BY <1>14, <1>16, <2>1, <2>2, OwnersKept DEF QueueInv
  <2>3. CASE q \in AdminReqs
    BY <1>2, <1>4, <1>5, <1>6, <1>14, <1>16, <2>3, ReviewsKept DEF DecidePage
  <2>4. QED
    BY <2>2, <2>3
<1>17. MailsTellTheVerdict'
  <2>1. mail' = mail
    BY DEF DecidePage
  <2>2. QED
    BY <1>1, <1>7, <2>1, MailsUntouched DEF QueueInv
<1>18. QED
  BY <1>11, <1>12, <1>13, <1>15, <1>16, <1>17 DEF QueueInv

LEMMA DecideProfileKeepsQueue ==
    ASSUME OneAtATimeEach, Earned, QueueInv, NEW r \in AdminReqs, DecideProfile(r)
    PROVE  QueueInv'
<1> USE DEF Reqs
<1>1. VerificationTypeOK
  BY DEF Earned, TypedRows
<1>2. PICK p \in People, i \in Nat \ {0}, v \in Verdict :
          p = call[r].person /\ i = call[r].row /\ v = call[r].choice
  BY <1>1, KindAt DEF DecideProfile, AtDecision
<1>3. i \in PendingRows("student_profile", p) /\ studentProfile[p].status = "PENDING"
  BY <1>2 DEF QueueInv, RequestQueued, DecideProfile, Earned, Undisturbed
<1>4. /\ i \in DOMAIN submissions /\ PendingRows("student_profile", p) = {i}
      /\ submissions[i].content = studentProfile[p].content
      /\ submissions[i].status = "PENDING"
  <2>1. ProfileQueued(p)
    BY DEF QueueInv
  <2>2. QED
    BY <1>3, <2>1 DEF ProfileQueued, PendingRows
<1>5. /\ DOMAIN submissions' = DOMAIN submissions
      /\ \A j \in DOMAIN submissions \ {i} : submissions'[j] = submissions[j]
      /\ submissions'[i].entity = "student_profile" /\ submissions'[i].person = p
      /\ submissions'[i].status = v
      /\ submissions'[i].content = submissions[i].content
      /\ \A x \in People, f \in {"student_profile", "provider_page"} :
            /\ PendingRows(f, x)' = PendingRows(f, x) \ {i}
            /\ ApprovedRows(f, x)' =
                   ApprovedRows(f, x) \cup
                   (IF f = "student_profile" /\ x = p /\ v = "APPROVED" THEN {i} ELSE {})
  <2>1. submissions' = Decided(i, v)
    BY <1>2 DEF DecideProfile
  <2>2. QED
    BY <1>1, <1>3, <2>1, DecidedRow
<1>6. submissions[i].entity = "student_profile" /\ submissions[i].person = p
  BY <1>3 DEF PendingRows
<1>7. RowsKept
  BY <1>4, <1>5, <1>6 DEF RowsKept
<1>8. /\ \A x \in People :
            /\ PendingRows("provider_page", x)' = PendingRows("provider_page", x)
            /\ ApprovedRows("provider_page", x)' = ApprovedRows("provider_page", x)
      /\ \A x \in People \ {p} :
            PendingRows("student_profile", x)' = PendingRows("student_profile", x)
  <2>1. /\ \A x \in People : i \notin PendingRows("provider_page", x)
        /\ \A x \in People \ {p} : i \notin PendingRows("student_profile", x)
    BY <1>6 DEF PendingRows
  <2>2. \A x \in People :
            /\ PendingRows("student_profile", x)' = PendingRows("student_profile", x) \ {i}
            /\ PendingRows("provider_page", x)' = PendingRows("provider_page", x) \ {i}
    BY <1>5
  <2>3. \A x \in People :
            ApprovedRows("provider_page", x)' = ApprovedRows("provider_page", x)
    BY <1>5
  <2>4. \A S : i \notin S => S \ {i} = S
    OBVIOUS
  <2>5. \A x \in People :
            PendingRows("provider_page", x)' = PendingRows("provider_page", x)
    BY <2>1, <2>2, <2>4
  <2>6. \A x \in People \ {p} :
            PendingRows("student_profile", x)' = PendingRows("student_profile", x)
    BY <2>1, <2>2, <2>4
  <2>7. QED
    BY <2>3, <2>5, <2>6
<1>9. /\ studentProfile'[p].status = v
      /\ studentProfile'[p].content = studentProfile[p].content
      /\ \A x \in People \ {p} : studentProfile'[x] = studentProfile[x]
  <2>1. studentProfile[p] \in [status : ProfileStatus, content : Contents]
    BY <1>1, <1>3 DEF VerificationTypeOK, StudentProfile, NoRow
  <2>2. studentProfile'[p] = [studentProfile[p] EXCEPT !.status = v]
    BY <1>1, <1>2 DEF DecideProfile, VerificationTypeOK
  <2>3. \A x \in People \ {p} : studentProfile'[x] = studentProfile[x]
    BY <1>1, <1>2 DEF DecideProfile, VerificationTypeOK
  <2>4. QED
    BY <2>1, <2>2, <2>3
<1>10. UNCHANGED <<providerPage, identityEvents, mail>>
  BY DEF DecideProfile
<1>11. ProfileQueued(p)'
  <2>1. PendingRows("student_profile", p)' = {} /\ studentProfile'[p].status # "PENDING"
    BY <1>4, <1>5, <1>9 DEF Verdict
  <2>2. /\ i \in DOMAIN submissions'
        /\ submissions'[i].content = studentProfile'[p].content
        /\ submissions'[i].status = studentProfile'[p].status
    BY <1>4, <1>5, <1>9
  <2>3. QED
    BY <1>5, <2>1, <2>2 DEF ProfileQueued
<1>12. \A x \in People \ {p} : ProfileQueued(x)'
  BY <1>7, <1>8, <1>9, ProfileUntouched DEF QueueInv
<1>13. \A x \in People : PageQueued(x)'
  BY <1>7, <1>8, <1>10, PageUntouched DEF QueueInv
<1>14. /\ call'[r].pc = "mail" /\ call'[r].row = i /\ call'[r].choice = v
       /\ \A q \in Reqs \ {r} : call'[q] = call[q]
  <2>1. call[r] \in AtDecision
    BY <1>1, KindAt DEF DecideProfile
  <2>2. call'[r] = [call[r] EXCEPT !.pc = "mail", !.content = Null]
    BY <1>1 DEF DecideProfile, GoToMail, VerificationTypeOK
  <2>3. \A q \in Reqs \ {r} : call'[q] = call[q]
    BY <1>1 DEF DecideProfile, GoToMail, VerificationTypeOK
  <2>4. QED
    BY <1>2, <2>1, <2>2, <2>3 DEF AtDecision
<1>15. RequestQueued(r)'
  BY <1>4, <1>5, <1>14 DEF RequestQueued
<1>16. ASSUME NEW q \in Reqs, q # r
       PROVE  RequestQueued(q)'
  <2>1. CASE q \in OwnerReqs
    BY <1>10, <1>14, <1>16, <2>1, OwnersKept DEF QueueInv
  <2>2. CASE q \in AdminReqs
    BY <1>2, <1>4, <1>5, <1>6, <1>14, <1>16, <2>2, ReviewsKept DEF DecideProfile
  <2>3. QED
    BY <2>1, <2>2
<1>17. MailsTellTheVerdict'
  BY <1>1, <1>7, <1>10, MailsUntouched DEF QueueInv
<1>18. QED
  BY <1>11, <1>12, <1>13, <1>15, <1>16, <1>17 DEF QueueInv

\* What an administrator does.
LEMMA AdminKeepsQueue ==
    ASSUME OneAtATimeEach, Earned, QueueInv, NEW r \in AdminReqs, AdminStep(r)
    PROVE  QueueInv'
<1> USE DEF Reqs
<1>1. VerificationTypeOK
  BY DEF Earned, TypedRows
<1>2. ASSUME UNCHANGED <<submissions, studentProfile, providerPage, mail>>,
             \A x \in People :
                 identityEvents'[x]["provider_page"] = identityEvents[x]["provider_page"],
             RequestQueued(r)',
             \A q \in Reqs \ {r} : call'[q] = call[q]
      PROVE  QueueInv'
  <2>1. /\ \A p \in People : PageQueued(p)' /\ ProfileQueued(p)'
        /\ MailsTellTheVerdict'
        /\ \A q \in Reqs \ {r} : RequestQueued(q)'
    BY <1>2, QueueUntouched
  <2>2. QED
    BY <1>2, <2>1 DEF QueueInv
<1>3. ASSUME NEW p \in People, NEW v \in Verdict, ReviewPageRead(r, p, v)
      PROVE  QueueInv'
  <2>1. /\ call'[r].pc = "findRow" /\ \A q \in Reqs \ {r} : call'[q] = call[q]
    BY <1>1, <1>3, StartMoves DEF ReviewPageRead
  <2>2. RequestQueued(r)'
    BY <2>1 DEF RequestQueued
  <2>3. QED
    BY <1>2, <1>3, <2>1, <2>2 DEF ReviewPageRead, rows
<1>4. ASSUME NEW p \in People, NEW role \in {"AGENT", "LANDLORD"}, OnboardRead(r, p, role)
      PROVE  QueueInv'
  <2>1. /\ call'[r].pc = "onboard" /\ \A q \in Reqs \ {r} : call'[q] = call[q]
    BY <1>1, <1>4, StartMoves DEF OnboardRead
  <2>2. RequestQueued(r)'
    BY <2>1 DEF RequestQueued
  <2>3. QED
    BY <1>2, <1>4, <2>1, <2>2 DEF OnboardRead, rows
<1>5. ASSUME NEW i \in DOMAIN submissions, NEW v \in Verdict, ReviewSubmissionRead(r, i, v)
      PROVE  QueueInv'
  <2>1. /\ call'[r].pc = "findEntity" /\ call'[r].person = submissions[i].person
        /\ \A q \in Reqs \ {r} : call'[q] = call[q]
    BY <1>1, <1>5, StartMoves DEF ReviewSubmissionRead
  <2>2. call'[r].row = i
    BY <1>1, <1>5 DEF ReviewSubmissionRead, Start, VerificationTypeOK
  <2>3. submissions' = submissions /\ submissions[i].status = "PENDING"
    BY <1>5 DEF ReviewSubmissionRead, rows
  <2>4. RequestQueued(r)'
    BY <2>1, <2>2, <2>3 DEF RequestQueued
  <2>5. QED
    BY <1>2, <1>5, <2>1, <2>4 DEF ReviewSubmissionRead, rows
<1>6. ASSUME FindRow(r)
      PROVE  QueueInv'
  <2>1. call[r] \in AtPage
    BY <1>1, <1>6, KindAt DEF FindRow
  <2>2. ASSUME NEW i \in PendingRows("provider_page", call[r].person),
               call' = [call EXCEPT ![r].pc = "decidePage", ![r].row = i]
        PROVE  RequestQueued(r)' /\ \A q \in Reqs \ {r} : call'[q] = call[q]
    <3>1. call'[r] = [call[r] EXCEPT !.pc = "decidePage", !.row = i]
      BY <1>1, <2>2 DEF VerificationTypeOK
    <3>2. /\ call'[r].pc = "decidePage" /\ call'[r].row = i
          /\ call'[r].person = call[r].person
      BY <2>1, <3>1 DEF AtPage
    <3>3. submissions' = submissions
      BY <1>6 DEF FindRow, rows
    <3>4. \A q \in Reqs \ {r} : call'[q] = call[q]
      BY <1>1, <2>2 DEF VerificationTypeOK
    <3>5. call'[r].row \in PendingRows("provider_page", call[r].person)
      BY <3>2
    <3>6. QED
      BY <3>2, <3>3, <3>4, <3>5 DEF RequestQueued, PendingRows
  <2>3. ASSUME Answer(r)
        PROVE  RequestQueued(r)' /\ \A q \in Reqs \ {r} : call'[q] = call[q]
    BY <1>1, <2>3, AnswerMoves, IdleQueued
  <2>4. RequestQueued(r)' /\ \A q \in Reqs \ {r} : call'[q] = call[q]
    BY <1>6, <2>2, <2>3 DEF FindRow
  <2>5. QED
    BY <1>2, <1>6, <2>4 DEF FindRow, rows
<1>7. ASSUME FindEntity(r)
      PROVE  QueueInv'
  <2>1. call[r] \in AtRow
    BY <1>1, <1>7, KindAt DEF FindEntity
  <2>2. /\ call[r].row \in DOMAIN submissions
        /\ submissions[call[r].row].person = call[r].person
        /\ submissions[call[r].row].status = "PENDING"
    BY <1>7 DEF FindEntity, QueueInv, RequestQueued
  <2>3. submissions[call[r].row].entity \in {"student_profile", "provider_page"}
    <3>1. ASSUME NEW i \in DOMAIN submissions
          PROVE  submissions[i] \in Submission
      BY <1>1 DEF VerificationTypeOK
    <3>2. QED
      BY <2>2, <3>1 DEF Submission
  <2>4. submissions' = submissions
    BY <1>7 DEF FindEntity, rows
  <2>5. ASSUME NEW pc \in {"decidePage", "decideProfile"}, NEW c,
               call' = [call EXCEPT ![r].pc = pc, ![r].content = c]
        PROVE  /\ call'[r].pc = pc /\ call'[r].row = call[r].row
               /\ call'[r].person = call[r].person
               /\ \A q \in Reqs \ {r} : call'[q] = call[q]
    <3>1. call'[r] = [call[r] EXCEPT !.pc = pc, !.content = c]
      BY <1>1, <2>5 DEF VerificationTypeOK
    <3>2. \A q \in Reqs \ {r} : call'[q] = call[q]
      BY <1>1, <2>5 DEF VerificationTypeOK
    <3>3. QED
      BY <2>1, <3>1, <3>2 DEF AtRow
  <2>6. CASE submissions[call[r].row].entity = "provider_page" /\ ~Answer(r)
    <3>1. /\ call'[r].pc = "decidePage" /\ call'[r].row = call[r].row
          /\ call'[r].person = call[r].person
          /\ \A q \in Reqs \ {r} : call'[q] = call[q]
      BY <1>7, <2>5, <2>6 DEF FindEntity
    <3>2. RequestQueued(r)'
      BY <2>2, <2>4, <2>6, <3>1 DEF RequestQueued, PendingRows
    <3>3. QED
      BY <1>2, <1>7, <3>1, <3>2 DEF FindEntity, rows
  <2>7. CASE submissions[call[r].row].entity = "student_profile" /\ ~Answer(r)
    <3>1. /\ call'[r].pc = "decideProfile" /\ call'[r].row = call[r].row
          /\ call'[r].person = call[r].person
          /\ \A q \in Reqs \ {r} : call'[q] = call[q]
      BY <1>7, <2>5, <2>7 DEF FindEntity
    <3>2. RequestQueued(r)'
      BY <2>2, <2>4, <2>7, <3>1 DEF RequestQueued, PendingRows
    <3>3. QED
      BY <1>2, <1>7, <3>1, <3>2 DEF FindEntity, rows
  <2>8. CASE Answer(r)
    <3>1. RequestQueued(r)' /\ \A q \in Reqs \ {r} : call'[q] = call[q]
      BY <1>1, <2>8, AnswerMoves, IdleQueued
    <3>2. QED
      BY <1>2, <1>7, <3>1 DEF FindEntity, rows
  <2>9. QED
    BY <2>3, <2>6, <2>7, <2>8
<1>8. ASSUME Mail(r)
      PROVE  QueueInv'
  <2>1. call[r].row \in DOMAIN submissions /\ submissions[call[r].row].status = call[r].choice
    BY <1>8 DEF Mail, QueueInv, RequestQueued
  <2>2. /\ UNCHANGED <<submissions, studentProfile, providerPage, identityEvents>>
        /\ mail' = mail \cup {<<call[r].row, call[r].choice>>}
    BY <1>8 DEF Mail, rows
  <2>3. MailsTellTheVerdict'
    BY <2>1, <2>2 DEF QueueInv, MailsTellTheVerdict
  <2>4. call'[r] = IdleCall /\ \A q \in Reqs \ {r} : call'[q] = call[q]
    BY <1>1, <1>8, AnswerMoves DEF Mail
  <2>5. /\ \A p \in People : PageQueued(p)' /\ ProfileQueued(p)'
        /\ \A q \in Reqs \ {r} : RequestQueued(q)'
    BY <2>2, <2>4, QueueUntouched
  <2>6. RequestQueued(r)'
    BY <2>4, IdleQueued
  <2>7. QED
    BY <2>3, <2>5, <2>6 DEF QueueInv
<1>9. ASSUME OnboardWrite(r)
      PROVE  QueueInv'
  <2>1. call'[r] = IdleCall /\ \A q \in Reqs \ {r} : call'[q] = call[q]
    BY <1>1, <1>9, AnswerMoves DEF OnboardWrite
  <2>2. \A x \in People :
            identityEvents'[x]["provider_page"] = identityEvents[x]["provider_page"]
    <3>1. PICK p \in People : p = call[r].person
      BY <1>1, <1>9, KindAt DEF OnboardWrite, AtOnboarding
    <3>2. identityEvents' = identityEvents \/ identityEvents' = Recorded(p, "onboardAgent")
      BY <1>9, <3>1 DEF OnboardWrite
    <3>3. CASE identityEvents' = Recorded(p, "onboardAgent")
      BY <1>1, <3>3 DEF Recorded, VerificationTypeOK, IdentityOrigin
    <3>4. QED
      BY <3>2, <3>3
  <2>3. RequestQueued(r)'
    BY <2>1, IdleQueued
  <2>4. QED
    BY <1>2, <1>9, <2>1, <2>2, <2>3 DEF OnboardWrite
<1>10. QED
  BY <1>3, <1>4, <1>5, <1>6, <1>7, <1>8, <1>9, DecidePageKeepsQueue, DecideProfileKeepsQueue
     DEF AdminStep

LEMMA InitQueued == Init => QueueInv
<1> SUFFICES ASSUME Init PROVE QueueInv
  OBVIOUS
<1>1. \A p \in People, f \in {"student_profile", "provider_page"} :
          PendingRows(f, p) = {} /\ ApprovedRows(f, p) = {}
  BY DEF Init, PendingRows, ApprovedRows
<1>2. \A p \in People : PageQueued(p) /\ ProfileQueued(p)
  BY <1>1 DEF Init, PageQueued, ProfileQueued, NoRow, IdentityOrigin, Verdict
<1>3. \A r \in Reqs : RequestQueued(r)
  BY DEF Init, RequestQueued, IdleCall
<1>4. QED
  BY <1>2, <1>3 DEF Init, QueueInv, MailsTellTheVerdict

LEMMA QueueHolds == SerialSpec => [](Earned /\ QueueInv)
<1>1. ASSUME OneAtATimeEach, Earned, QueueInv, [Next]_vars
      PROVE  QueueInv'
  <2>1. ASSUME NEW r \in OwnerReqs, OwnerStep(r)
        PROVE  QueueInv'
    BY <1>1, <2>1, OwnerKeepsQueue
  <2>2. ASSUME NEW r \in AdminReqs, AdminStep(r)
        PROVE  QueueInv'
    BY <1>1, <2>2, AdminKeepsQueue
  <2>3. ASSUME NEW r \in Reqs, CallFails(r)
        PROVE  QueueInv'
    <3>1. call'[r] = IdleCall /\ \A q \in Reqs \ {r} : call'[q] = call[q]
      BY <1>1, <2>3, AnswerMoves DEF CallFails, Earned, TypedRows
    <3>2. /\ UNCHANGED <<submissions, studentProfile, providerPage, identityEvents>>
          /\ mail' = mail
      BY <2>3 DEF CallFails, rows
    <3>3. QED
      BY <1>1, <3>1, <3>2, QueueUntouched, IdleQueued DEF QueueInv
  <2>4. CASE UNCHANGED vars
    <3>1. /\ UNCHANGED <<submissions, studentProfile, providerPage, identityEvents>>
          /\ mail' = mail /\ call' = call
      BY <2>4 DEF vars, rows
    <3>2. QED
      BY <1>1, <3>1, QueueUntouched DEF QueueInv
  <2>5. QED
    BY <1>1, <2>1, <2>2, <2>3, <2>4 DEF Next
<1>2. OneAtATimeEach /\ Earned /\ QueueInv /\ [Next]_vars => (Earned /\ QueueInv)'
  BY <1>1, NextKeepsEarned
<1>3. Init => Earned /\ QueueInv
  BY InitEarned, InitQueued
<1>4. QED
  BY <1>2, <1>3, SerialSteps, PTL DEF Spec

\* What an administrator finds in the queue can be decided, and only once: it
\* holds one pending row of each profile and Page under review, and no other.
THEOREM QueueMatches == SerialSpec => []QueueMatchesItsSubjects
<1>1. Cardinality({}) = 0 /\ \A i : Cardinality({i}) = 1
  BY FS_EmptySet, FS_Singleton
<1>2. ASSUME QueueInv, NEW p \in People
      PROVE  /\ studentProfile[p].status = "PENDING" =>
                    Cardinality(PendingRows("student_profile", p)) = 1
             /\ studentProfile[p].status # "PENDING" =>
                    Cardinality(PendingRows("student_profile", p)) = 0
             /\ providerPage[p].status = "SUBMITTED" =>
                    Cardinality(PendingRows("provider_page", p)) = 1
             /\ providerPage[p].status # "SUBMITTED" =>
                    Cardinality(PendingRows("provider_page", p)) = 0
  <2>1. PageQueued(p) /\ ProfileQueued(p)
    BY <1>2 DEF QueueInv
  <2>2. /\ studentProfile[p].status = "PENDING" =>
               \E i : PendingRows("student_profile", p) = {i}
        /\ studentProfile[p].status # "PENDING" => PendingRows("student_profile", p) = {}
    BY <2>1 DEF ProfileQueued
  <2>3. /\ providerPage[p].status = "SUBMITTED" =>
               \E i : PendingRows("provider_page", p) = {i}
        /\ providerPage[p].status # "SUBMITTED" => PendingRows("provider_page", p) = {}
    BY <2>1 DEF PageQueued
  <2>4. QED
    BY <1>1, <2>2, <2>3
<1>3. QueueInv => QueueMatchesItsSubjects
  BY <1>2 DEF QueueMatchesItsSubjects
<1>4. QED
  BY <1>3, QueueHolds, PTL

\* What is under review, verified or approved shows what its row of the queue
\* says, whatever its owner edits and when.
THEOREM VerdictsShown == SerialSpec => []VerdictsAreAboutWhatIsShown
<1>1. ASSUME Earned, QueueInv
      PROVE  VerdictsAreAboutWhatIsShown
  <2>1. ASSUME NEW i \in DOMAIN submissions
        PROVE  submissions[i] = [entity |-> submissions[i].entity,
                                 person |-> submissions[i].person,
                                 content |-> submissions[i].content,
                                 status |-> submissions[i].status]
    <3>1. submissions[i] \in Submission
      BY <1>1 DEF Earned, TypedRows, VerificationTypeOK
    <3>2. QED
      BY <3>1 DEF Submission
  <2>2. ASSUME NEW p \in People, NEW i \in DOMAIN submissions,
               NEW f \in {"student_profile", "provider_page"}
        PROVE  /\ i \in PendingRows(f, p) =>
                      submissions[i] = [entity |-> f, person |-> p,
                                        content |-> submissions[i].content,
                                        status |-> "PENDING"]
               /\ i \in ApprovedRows(f, p) =>
                      submissions[i] = [entity |-> f, person |-> p,
                                        content |-> submissions[i].content,
                                        status |-> "APPROVED"]
    BY <2>1 DEF PendingRows, ApprovedRows
  <2>3. ASSUME NEW p \in People, providerPage[p].status = "SUBMITTED"
        PROVE  \E i \in DOMAIN submissions :
                   submissions[i] = [entity |-> "provider_page", person |-> p,
                                     content |-> providerPage[p].content,
                                     status |-> "PENDING"]
    <3>1. PICK i \in DOMAIN submissions :
              /\ PendingRows("provider_page", p) = {i}
              /\ submissions[i].content = providerPage[p].content
      BY <1>1, <2>3 DEF QueueInv, PageQueued
    <3>2. QED
      BY <2>2, <3>1
  <2>4. ASSUME NEW p \in People, providerPage[p].status = "VERIFIED"
        PROVE  \E i \in DOMAIN submissions :
                   submissions[i] = [entity |-> "provider_page", person |-> p,
                                     content |-> providerPage[p].content,
                                     status |-> "APPROVED"]
    <3>1. PICK i \in DOMAIN submissions :
              /\ ApprovedRows("provider_page", p) = {i}
              /\ submissions[i].content = providerPage[p].content
      BY <1>1, <2>4 DEF QueueInv, PageQueued
    <3>2. QED
      BY <2>2, <3>1
  <2>5. ASSUME NEW p \in People, studentProfile[p].status \in ProfileStatus
        PROVE  \E i \in DOMAIN submissions :
                   submissions[i] = [entity |-> "student_profile", person |-> p,
                                     content |-> studentProfile[p].content,
                                     status |-> studentProfile[p].status]
    <3>1. CASE studentProfile[p].status = "PENDING"
      <4>1. PICK i \in DOMAIN submissions :
                /\ PendingRows("student_profile", p) = {i}
                /\ submissions[i].content = studentProfile[p].content
        BY <1>1, <3>1 DEF QueueInv, ProfileQueued
      <4>2. QED
        BY <2>2, <3>1, <4>1
    <3>2. CASE studentProfile[p].status \in Verdict
      <4>1. PICK i \in DOMAIN submissions :
                /\ submissions[i].entity = "student_profile"
                /\ submissions[i].person = p
                /\ submissions[i].content = studentProfile[p].content
                /\ submissions[i].status = studentProfile[p].status
        BY <1>1, <3>2 DEF QueueInv, ProfileQueued
      <4>2. QED
        BY <2>1, <4>1
    <3>3. QED
      BY <2>5, <3>1, <3>2 DEF ProfileStatus
  <2>6. QED
    BY <2>3, <2>4, <2>5 DEF VerdictsAreAboutWhatIsShown
<1>2. QED
  BY <1>1, QueueHolds, PTL

\* The event of a verified Page is recorded with the one approval it had.
THEOREM ApprovalsOnce == SerialSpec => []ApprovalsCountOnce
<1>1. Cardinality({}) = 0 /\ \A i : Cardinality({i}) = 1
  BY FS_EmptySet, FS_Singleton
<1>2. QueueInv => ApprovalsCountOnce
  BY <1>1 DEF QueueInv, PageQueued, ApprovalsCountOnce
<1>3. QED
  BY <1>2, QueueHolds, PTL

\* No applicant is told a verdict that is not on record, or two of them.
THEOREM MailsTell == SerialSpec => []MailsTellTheVerdict
<1>1. QueueInv => MailsTellTheVerdict
  BY DEF QueueInv
<1>2. QED
  BY <1>1, QueueHolds, PTL
=============================================================================
