---------------------------- MODULE Verification ----------------------------
(***************************************************************************)
(* Who may do what, and who decided it: student signups                    *)
(* (modules/student-profiles), provider Pages (modules/provider-pages) and *)
(* the admin_review_queue that modules/admin and modules/provider-pages    *)
(* decide.  A person is an e-mail address: users.email, student_profiles   *)
(* .email and provider_pages.owner_id are unique, so each person has at    *)
(* most one account, one profile and one Page.                             *)
(*                                                                         *)
(* As in module Listings a method is one action per await that matters,    *)
(* tied together by call[r]; a request that is refused does nothing.  Two  *)
(* reads in a row of which the second can only confirm what the first has  *)
(* established (an account is never deleted) are one step.  The texts, the *)
(* audit rows and identity_verified (no account is created without it) are *)
(* left out; a profile or Page shows one of Contents.                      *)
(***************************************************************************)
EXTENDS Naturals, Sequences, FiniteSets

CONSTANTS
    People,         \* e-mail addresses, none of an administrator
    OwnerReqs,      \* requests of applicants and owners that may be in flight
    AdminReqs,      \* requests of administrators that may be in flight
    Contents,       \* what a profile or a Page may say
    Complete,       \* the contents that validateSubmission accepts
    ProviderType,   \* ProviderType[c]: AGENT, or LANDLORD when not given
    Faults,         \* "dbError": an await is rejected, or the process dies
    MaxSubmissions, \* bound on the rows of the review queue
    Null

ASSUME ContentsAssumption ==
    /\ Complete \subseteq Contents
    /\ ProviderType \in [Contents -> {"AGENT", "LANDLORD"}]
ASSUME ReqsAssumption == OwnerReqs \cap AdminReqs = {}
ASSUME NullAssumption == Null \notin People \cup Contents
ASSUME MaxSubmissionsAssumption == MaxSubmissions \in Nat

Reqs == OwnerReqs \cup AdminReqs

VARIABLES
    account,         \* account[p]: the role in the users row of p, or "NONE"
    studentProfile,  \* studentProfile[p]: the student_profiles row of p
    providerPage,    \* providerPage[p]: the provider_pages row of p
    submissions,     \* the admin_review_queue, in the order of createdAt
    identityEvents,  \* identityEvents[p]: IDENTITY_VERIFIED events, by origin
    mail,            \* the verdicts added to the email queue, with their row
    call             \* call[r]: where the request r stands

rows == <<account, studentProfile, providerPage, submissions, identityEvents>>
vars == <<rows, mail, call>>

Role == {"STUDENT", "AGENT", "LANDLORD"}
Verdict == {"APPROVED", "REJECTED"}
ProfileStatus == {"PENDING"} \cup Verdict
ProviderVerificationState == {"DRAFT", "SUBMITTED", "VERIFIED", "REJECTED"}

NoRow == [status |-> "NONE", content |-> Null]
StudentProfile == [status : ProfileStatus, content : Contents] \cup {NoRow}
ProviderPage == [status : ProviderVerificationState, content : Contents] \cup {NoRow}
Submission == [entity : {"student_profile", "provider_page"}, person : People,
               content : Contents, status : ProfileStatus]
IdentityOrigin == {"onboardAgent", "provider_page"}

IdleCall == [pc |-> "idle", person |-> Null, content |-> Null, row |-> 0, choice |-> Null]

\* A request in flight, by its next await: what it means to write or has read,
\* the row it decides, and the verdict, or the role of the account to onboard.
Request ==
    [pc : {"createProfile", "resubmitProfile", "insertPage", "rewritePage", "submitPage"},
     person : People, content : Contents, row : {0}, choice : {Null}]
    \cup
    [pc : {"findRow"}, person : People, content : Contents, row : {0}, choice : Verdict]
    \cup
    [pc : {"decidePage", "decideProfile"}, person : People, content : Contents,
     row : Nat \ {0}, choice : Verdict]
    \cup
    [pc : {"findEntity", "mail"}, person : People, content : {Null},
     row : Nat \ {0}, choice : Verdict]
    \cup
    [pc : {"onboard"}, person : People, content : {Null}, row : {0},
     choice : {"AGENT", "LANDLORD"}]

VerificationTypeOK ==
    /\ account \in [People -> Role \cup {"NONE"}]
    /\ studentProfile \in [People -> StudentProfile]
    /\ providerPage \in [People -> ProviderPage]
    /\ submissions \in Seq(Submission)
    /\ identityEvents \in [People -> [IdentityOrigin -> Nat]]
    /\ mail \subseteq ((Nat \ {0}) \X Verdict)
    /\ call \in [Reqs -> Request \cup {IdleCall}]

Init ==
    /\ account = [p \in People |-> "NONE"]
    /\ studentProfile = [p \in People |-> NoRow]
    /\ providerPage = [p \in People |-> NoRow]
    /\ submissions = <<>>
    /\ identityEvents = [p \in People |-> [o \in IdentityOrigin |-> 0]]
    /\ mail = {}
    /\ call = [r \in Reqs |-> IdleCall]

-----------------------------------------------------------------------------
(* What the methods are made of                                            *)

Start(r, pc, p, content, row, choice) ==
    /\ call[r].pc = "idle"
    /\ call' = [call EXCEPT ![r] =
           [pc |-> pc, person |-> p, content |-> content, row |-> row, choice |-> choice]]

Answer(r) == call' = [call EXCEPT ![r] = IdleCall]

\* adminReviewQueue.create
Queued(entity, p, c) ==
    Append(submissions, [entity |-> entity, person |-> p, content |-> c, status |-> "PENDING"])

PendingRows(entity, p) ==
    {i \in DOMAIN submissions : /\ submissions[i].entity = entity
                                /\ submissions[i].person = p
                                /\ submissions[i].status = "PENDING"}

ApprovedRows(entity, p) ==
    {i \in DOMAIN submissions : /\ submissions[i].entity = entity
                                /\ submissions[i].person = p
                                /\ submissions[i].status = "APPROVED"}

\* trustEvent.create
Recorded(p, origin) == [identityEvents EXCEPT ![p][origin] = @ + 1]

-----------------------------------------------------------------------------
(* student-profiles: submitSignup                                          *)

\* Fault: an approved applicant may apply again.
SignupReadApproved(r, p, c) ==
    /\ studentProfile[p].status # "PENDING"
    /\ Len(submissions) < MaxSubmissions
    /\ Start(r, IF studentProfile[p].status = "NONE" THEN "createProfile" ELSE "resubmitProfile",
             p, c, 0, Null)
    /\ UNCHANGED <<rows, mail>>

\* One who has been rejected, or has not applied, may apply.
SignupRead(r, p, c) ==
    /\ studentProfile[p].status \notin {"PENDING", "APPROVED"}
    /\ Len(submissions) < MaxSubmissions
    /\ Start(r, IF studentProfile[p].status = "NONE" THEN "createProfile" ELSE "resubmitProfile",
             p, c, 0, Null)
    /\ UNCHANGED <<rows, mail>>

\* The transaction, after the password was hashed: the profile and a row of
\* the queue.  The unique e-mail rejects a second create.
SignupWrite(r) ==
    LET p == call[r].person
        c == call[r].content
        rejected == call[r].pc = "createProfile" /\ studentProfile[p].status # "NONE"
    IN  /\ call[r].pc \in {"createProfile", "resubmitProfile"}
        /\ Answer(r)
        /\ IF rejected
           THEN UNCHANGED <<studentProfile, submissions>>
           ELSE /\ studentProfile' =
                       [studentProfile EXCEPT ![p] = [status |-> "PENDING", content |-> c]]
                /\ submissions' = Queued("student_profile", p, c)
        /\ UNCHANGED <<account, providerPage, identityEvents, mail>>

-----------------------------------------------------------------------------
(* provider-pages: create, update, submit                                  *)

PageCreateRead(r, p, c) ==
    /\ account[p] # "NONE"
    /\ providerPage[p].status \in {"NONE", "REJECTED"}
    /\ Start(r, IF providerPage[p].status = "NONE" THEN "insertPage" ELSE "rewritePage",
             p, c, 0, Null)
    /\ UNCHANGED <<rows, mail>>

\* Fault: a Page under review may be edited.
PageUpdateReadSubmitted(r, p, c) ==
    /\ providerPage[p].status \in {"DRAFT", "SUBMITTED", "REJECTED"}
    /\ Start(r, "rewritePage", p, c, 0, Null)
    /\ UNCHANGED <<rows, mail>>

PageUpdateRead(r, p, c) ==
    /\ providerPage[p].status \in {"DRAFT", "REJECTED"}
    /\ Start(r, "rewritePage", p, c, 0, Null)
    /\ UNCHANGED <<rows, mail>>

\* create inserts, and the unique owner rejects a second Page; create over a
\* rejected Page and update write by id.  Either way the Page is a draft.
PageWrite(r) ==
    LET p == call[r].person
        rejected == call[r].pc = "insertPage" /\ providerPage[p].status # "NONE"
    IN  /\ call[r].pc \in {"insertPage", "rewritePage"}
        /\ Answer(r)
        /\ providerPage' =
               IF rejected THEN providerPage
               ELSE [providerPage EXCEPT ![p] =
                        [status |-> "DRAFT", content |-> call[r].content]]
        /\ UNCHANGED <<account, studentProfile, submissions, identityEvents, mail>>

SubmitPageRead(r, p) ==
    /\ providerPage[p].status \in {"DRAFT", "REJECTED"}
    /\ providerPage[p].content \in Complete
    /\ Len(submissions) < MaxSubmissions
    /\ Start(r, "submitPage", p, providerPage[p].content, 0, Null)
    /\ UNCHANGED <<rows, mail>>

\* The transaction: the Page, and a row of the queue with what was read.
SubmitPageWrite(r) ==
    LET p == call[r].person IN
    /\ call[r].pc = "submitPage"
    /\ Answer(r)
    /\ providerPage' = [providerPage EXCEPT ![p].status = "SUBMITTED"]
    /\ submissions' = Queued("provider_page", p, call[r].content)
    /\ UNCHANGED <<account, studentProfile, identityEvents, mail>>

-----------------------------------------------------------------------------
(* provider-pages: review; admin: reviewSubmission, onboardAgent           *)

ReviewPageRead(r, p, verdict) ==
    /\ providerPage[p].status = "SUBMITTED"
    /\ Start(r, "findRow", p, providerPage[p].content, 0, verdict)
    /\ UNCHANGED <<rows, mail>>

\* Fault: the verdict is mailed before it is written.
FindRowMails(r) ==
    LET pending == PendingRows("provider_page", call[r].person) IN
    /\ call[r].pc = "findRow"
    /\ \E i \in pending :
          /\ \A j \in pending : j <= i
          /\ call' = [call EXCEPT ![r].pc = "decidePage", ![r].row = i]
          /\ mail' = mail \cup {<<i, call[r].choice>>}
    /\ UNCHANGED rows

\* findFirst: the newest pending row of the Page.
FindRow(r) ==
    LET pending == PendingRows("provider_page", call[r].person) IN
    /\ call[r].pc = "findRow"
    /\ \/ pending = {} /\ Answer(r)
       \/ \E i \in pending :
             /\ \A j \in pending : j <= i
             /\ call' = [call EXCEPT ![r].pc = "decidePage", ![r].row = i]
    /\ UNCHANGED <<rows, mail>>

\* Fault: a row that has been decided may be opened again.
ReviewSubmissionReadAny(r, i, verdict) ==
    /\ Start(r, "findEntity", submissions[i].person, Null, i, verdict)
    /\ UNCHANGED <<rows, mail>>

ReviewSubmissionRead(r, i, verdict) ==
    /\ submissions[i].status = "PENDING"
    /\ Start(r, "findEntity", submissions[i].person, Null, i, verdict)
    /\ UNCHANGED <<rows, mail>>

\* findStudentProfile or findProviderPage, which must still be under review.
FindEntity(r) ==
    LET p == call[r].person
        GoTo(pc, c) == call' = [call EXCEPT ![r].pc = pc, ![r].content = c]
    IN  /\ call[r].pc = "findEntity"
        /\ IF submissions[call[r].row].entity = "provider_page"
           THEN IF providerPage[p].status = "SUBMITTED"
                THEN GoTo("decidePage", providerPage[p].content)
                ELSE Answer(r)
           ELSE IF studentProfile[p].status = "PENDING"
                THEN GoTo("decideProfile", studentProfile[p].content)
                ELSE Answer(r)
        /\ UNCHANGED <<rows, mail>>

Decided(i, verdict) == [submissions EXCEPT ![i].status = verdict]

GoToMail(r) == call' = [call EXCEPT ![r].pc = "mail", ![r].content = Null]

\* Fault: the row of the queue is forgotten.
DecidePageOnly(r) ==
    LET p == call[r].person
        approved == call[r].choice = "APPROVED"
    IN  /\ call[r].pc = "decidePage"
        /\ GoToMail(r)
        /\ providerPage' = [providerPage EXCEPT ![p].status =
                               IF approved THEN "VERIFIED" ELSE "REJECTED"]
        /\ IF approved
           THEN /\ account' = [account EXCEPT ![p] = ProviderType[call[r].content]]
                /\ identityEvents' = Recorded(p, "provider_page")
           ELSE UNCHANGED <<account, identityEvents>>
        /\ UNCHANGED <<studentProfile, submissions, mail>>

\* Fault: the role and the event do not look at the verdict.
DecidePagePromotes(r) ==
    LET p == call[r].person
        approved == call[r].choice = "APPROVED"
    IN  /\ call[r].pc = "decidePage"
        /\ GoToMail(r)
        /\ providerPage' = [providerPage EXCEPT ![p].status =
                               IF approved THEN "VERIFIED" ELSE "REJECTED"]
        /\ submissions' = Decided(call[r].row, call[r].choice)
        /\ account' = [account EXCEPT ![p] = ProviderType[call[r].content]]
        /\ identityEvents' = Recorded(p, "provider_page")
        /\ UNCHANGED <<studentProfile, mail>>

\* The transaction of review, and of reviewSubmission on a Page.
DecidePage(r) ==
    LET p == call[r].person
        approved == call[r].choice = "APPROVED"
    IN  /\ call[r].pc = "decidePage"
        /\ GoToMail(r)
        /\ providerPage' = [providerPage EXCEPT ![p].status =
                               IF approved THEN "VERIFIED" ELSE "REJECTED"]
        /\ submissions' = Decided(call[r].row, call[r].choice)
        /\ IF approved
           THEN /\ account' = [account EXCEPT ![p] = ProviderType[call[r].content]]
                /\ identityEvents' = Recorded(p, "provider_page")
           ELSE UNCHANGED <<account, identityEvents>>
        /\ UNCHANGED <<studentProfile, mail>>

\* The transaction of reviewSubmission on a profile: an account that exists,
\* whatever its role, becomes a student's.
DecideProfile(r) ==
    LET p == call[r].person IN
    /\ call[r].pc = "decideProfile"
    /\ GoToMail(r)
    /\ studentProfile' = [studentProfile EXCEPT ![p].status = call[r].choice]
    /\ submissions' = Decided(call[r].row, call[r].choice)
    /\ account' = IF call[r].choice = "APPROVED"
                  THEN [account EXCEPT ![p] = "STUDENT"] ELSE account
    /\ UNCHANGED <<providerPage, identityEvents, mail>>

\* Fault: the job is built from the request after it was answered.
MailLate(r) ==
    /\ call[r].pc = "mail"
    /\ Answer(r)
    /\ mail' = mail \cup {<<call'[r].row, call'[r].choice>>}
    /\ UNCHANGED rows

\* emailQueue.add, which nobody awaits, once the transaction has committed.
Mail(r) ==
    /\ call[r].pc = "mail"
    /\ Answer(r)
    /\ mail' = mail \cup {<<call[r].row, call[r].choice>>}
    /\ UNCHANGED rows

OnboardRead(r, p, role) ==
    /\ account[p] = "NONE"
    /\ Start(r, "onboard", p, Null, 0, role)
    /\ UNCHANGED <<rows, mail>>

\* The transaction, after the password was hashed; the unique e-mail rejects
\* it when an account has appeared meanwhile.
OnboardWrite(r) ==
    LET p == call[r].person IN
    /\ call[r].pc = "onboard"
    /\ Answer(r)
    /\ IF account[p] = "NONE"
       THEN /\ account' = [account EXCEPT ![p] = call[r].choice]
            /\ identityEvents' = Recorded(p, "onboardAgent")
       ELSE UNCHANGED <<account, identityEvents>>
    /\ UNCHANGED <<studentProfile, providerPage, submissions, mail>>

\* A rejected await, or the process dies: the method stops there.
CallFails(r) ==
    /\ "dbError" \in Faults
    /\ call[r].pc # "idle"
    /\ Answer(r)
    /\ UNCHANGED <<rows, mail>>

-----------------------------------------------------------------------------
OwnerStep(r) ==
    \/ \E p \in People :
          \/ \E c \in Complete : SignupRead(r, p, c)
          \/ \E c \in Contents : PageCreateRead(r, p, c) \/ PageUpdateRead(r, p, c)
          \/ SubmitPageRead(r, p)
    \/ SignupWrite(r)
    \/ PageWrite(r)
    \/ SubmitPageWrite(r)

AdminStep(r) ==
    \/ \E p \in People :
          \/ \E v \in Verdict : ReviewPageRead(r, p, v)
          \/ \E role \in {"AGENT", "LANDLORD"} : OnboardRead(r, p, role)
    \/ \E i \in DOMAIN submissions : \E v \in Verdict : ReviewSubmissionRead(r, i, v)
    \/ FindRow(r)
    \/ FindEntity(r)
    \/ DecidePage(r)
    \/ DecideProfile(r)
    \/ Mail(r)
    \/ OnboardWrite(r)

Next ==
    \/ \E r \in OwnerReqs : OwnerStep(r)
    \/ \E r \in AdminReqs : AdminStep(r)
    \/ \E r \in Reqs : CallFails(r)

Spec == Init /\ [][Next]_vars

-----------------------------------------------------------------------------
(* Properties that hold while nobody sends two forms about one row at a    *)
(* time, or reviews one person twice at a time.  Forms about the other     *)
(* track, forms and reviews, and requests about other people overlap.  The *)
(* code prevents neither: it reads the status, awaits, and writes by id.   *)

ProfileForm == {"createProfile", "resubmitProfile"}
PageForm == {"insertPage", "rewritePage", "submitPage"}
Reviewing == {"findRow", "findEntity", "decidePage", "decideProfile"}

\* Two requests of S at awaits in Stage are about two people.
OnePerPerson(S, Stage) ==
    \A q, r \in S :
        /\ call[q].pc \in Stage
        /\ call[r].pc \in Stage
        /\ call[q].person = call[r].person
        => q = r

OneAtATimeEach ==
    /\ OnePerPerson(OwnerReqs, ProfileForm)
    /\ OnePerPerson(OwnerReqs, PageForm)
    /\ OnePerPerson(AdminReqs, Reviewing)

\* Verification as far as requests keep to that.
SerialSpec == Init /\ [][Next /\ OneAtATimeEach']_vars

\* The queue and what it is about agree: a row is pending exactly while its
\* profile is PENDING or its Page SUBMITTED, and never more than one is, so
\* what an administrator opens can be decided and nothing is decided twice.
QueueMatchesItsSubjects ==
    \A p \in People :
        /\ Cardinality(PendingRows("student_profile", p)) =
               IF studentProfile[p].status = "PENDING" THEN 1 ELSE 0
        /\ Cardinality(PendingRows("provider_page", p)) =
               IF providerPage[p].status = "SUBMITTED" THEN 1 ELSE 0

\* A Page shows, while it is under review and once it is verified, what its
\* owner submitted and the administrator could read in the queue, though the
\* owner may edit it whenever it is not; so does a profile.
VerdictsAreAboutWhatIsShown ==
    LET Submitted(entity, p, c, status) ==
            \E i \in DOMAIN submissions :
                submissions[i] = [entity |-> entity, person |-> p, content |-> c,
                                  status |-> status]
    IN  \A p \in People :
            /\ providerPage[p].status = "SUBMITTED" =>
                   Submitted("provider_page", p, providerPage[p].content, "PENDING")
            /\ providerPage[p].status = "VERIFIED" =>
                   Submitted("provider_page", p, providerPage[p].content, "APPROVED")
            /\ studentProfile[p].status \in ProfileStatus =>
                   Submitted("student_profile", p, studentProfile[p].content,
                             studentProfile[p].status)

\* A Page earns its owner one IDENTITY_VERIFIED event, with the approval, not
\* one per review, per row or per retry.
ApprovalsCountOnce ==
    \A p \in People :
        /\ identityEvents[p]["provider_page"] = Cardinality(ApprovedRows("provider_page", p))
        /\ identityEvents[p]["provider_page"] =
               IF providerPage[p].status = "VERIFIED" THEN 1 ELSE 0

\* An account has the role it was onboarded with or a verdict gave it: only an
\* approved signup makes a student, of a provider with a verified Page too.
RolesAreEarned ==
    \A p \in People :
        /\ account[p] = "STUDENT" => studentProfile[p].status = "APPROVED"
        /\ account[p] \in {"AGENT", "LANDLORD"} =>
               \/ identityEvents[p]["onboardAgent"] = 1
               \/ providerPage[p].status = "VERIFIED"

\* backend-documentry.md:129-131: "DRAFT -> SUBMITTED -> VERIFIED | REJECTED",
\* and line 122: submit takes a Page from DRAFT or REJECTED only.  A verified
\* Page stays verified, and the verdict of a profile that was approved stands.
LifecycleIsKept ==
    [][\A p \in People :
          /\ <<providerPage[p].status, providerPage'[p].status>> \in
                 {<<s, s>> : s \in ProviderVerificationState \cup {"NONE"}} \cup
                 {<<"NONE", "DRAFT">>, <<"DRAFT", "SUBMITTED">>, <<"REJECTED", "SUBMITTED">>,
                  <<"REJECTED", "DRAFT">>, <<"SUBMITTED", "VERIFIED">>,
                  <<"SUBMITTED", "REJECTED">>}
          /\ studentProfile[p].status = "APPROVED" =>
                 studentProfile'[p] = studentProfile[p]]_vars

\* An applicant is told one verdict about a submission, the one on record.
MailsTellTheVerdict ==
    \A m \in mail : m[1] \in DOMAIN submissions /\ submissions[m[1]].status = m[2]
=============================================================================
