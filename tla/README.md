# SafeCrib, a TLA+ verification project

SafeCrib (`src/safecrib-backend`) is the backend of a marketplace for student
rooms: NestJS services over PostgreSQL (Prisma), with Redis queues (BullMQ) for
what happens later. This directory models the parts of it whose correctness depends
on order: who holds a home, who may show one, who may be a student or a provider,
which trust score a user has and which token still opens a session.

Paths below are relative to `src/safecrib-backend/src/` unless they start with
`src/`.

## 1. The system

| Component | State it keeps | Operations | Modelled in |
|---|---|---|---|
| listings (`modules/listings`) | `listings.status`, photos, audit log, `image-hash` jobs | create, update, upload, submit, review, delete | `Listings` |
| booking state machine (`domain/booking`) | none (a table and pure functions) | `canTransition`, `applyTransition` | `BookingStateMachine` |
| bookings (`modules/bookings`) | `bookings` rows, hold deadline, trust events, two queues | create, confirm, release, cancel, complete, dispute | `Bookings` |
| booking-hold-expiry worker (`infra/queue`) | delayed jobs | expire a hold | `Bookings` |
| trust ledger (`modules/trust`, `infra/queue/trust-recompute.processor.ts`) | `trust_events` (append only), `users.trust_score` (a cache), the `trust-recompute` queue | record, recompute, get | `Trust` |
| trust score engine (`domain/trust`) | none (arithmetic over the events) | `computeTrustScore` | `TrustScore` |
| reviews (`modules/reviews`) | `reviews` | create, moderate | `Trust` |
| fraud (`modules/fraud`) | `fraud_reports`, `duplicate_flags` | report, resolve report, resolve duplicate | `Trust` |
| duplicate detection (`infra/queue/image-hash`, `duplicate-sweep`, `domain/fraud`) | `duplicate_flags` | flag | `Trust` (the flag only) |
| administration (`modules/admin`) | writes users, listings, the review queue | flag, verify identity, onboard, review a submission | `Listings` and `Trust` (the first two), `Verification` (the others) |
| provider pages (`modules/provider-pages`) | `provider_pages`, `admin_review_queue`, `users.role` | create, update, submit, review | `Verification` |
| student profiles (`modules/student-profiles`) | `student_profiles`, `admin_review_queue` | submit a signup | `Verification` |
| authentication (`modules/auth`) | `refresh_tokens`, `password_reset_tokens` | login, refresh, logout, forgot and reset password | `Sessions` |
| mail (`infra/queue/email.processor.ts`, `infra/mail`) | the `email` queue | send what a job's type says | `Sessions` and `Verification` (which mail, not its delivery) |
| users, HTTP shell | - | reads, wiring | no |

**How they interact.** Components share rows, not calls. `listings.status` is written
by the listing endpoints, by four booking methods, by the expiry worker, by the flag
endpoint and by a confirmed fraud report. `trust_events` is appended by bookings,
fraud, reviews and admin; the score in `users` is written by the recompute worker and
by `getTrustScore`. `provider_pages.verification_state` and the rows of
`admin_review_queue` are written by two endpoints of two services, and the role in
`users` by three. Booking and fraud methods add jobs to queues, and two workers in
the same process take them.

**What makes it hard.** Every service method is a chain of awaits. It reads a row,
decides, and writes by primary key: no row lock (`SELECT ... FOR UPDATE`), no version
column, no conditional `updateMany`, and Postgres runs at READ COMMITTED. So a check
and the write that rests on it are separate steps, between which Node serves other
requests and the workers run. A `$transaction` makes several writes atomic; the queue
is never part of it. Jobs are added without `attempts` (except mails that tell a verdict), so a job that fails is not run
again, and a process that dies between a commit and the `add` that follows leaves no
trace of the job. Times come from two clocks, the row's deadline and the queue's delay.

**What each part owes.**

- listings: nothing reaches the market without a photo, a submission and an
  administrator's approval; a deleted home stays deleted.
- bookings: one holder per home; only legal transitions; no outcome without a
  confirmed booking; one outcome at most; a hold lasts its time, then ends, and the
  home comes back to the market.
- trust ledger: the log only grows; the score reaches every event and never loses
  one; a verdict counts once.
- verification: the queue agrees with the profile or Page it is about; a verdict is
  about what is shown, counts once and is the one that is mailed; roles come from
  verdicts and onboarding alone; a verified Page stays verified.
- fraud and reviews: a confirmed report is penalised; a review belongs to a booking that
  was completed.
- trust score engine: penalties outweigh merits; time forgives; a good record is not
  flagged; a score that is not recomputed is only too extreme.
- authentication: a token that was exchanged or logged out never works again (the first
  fails for tokens of one second, section 5); a login leads to one session; a reset ends the reset tokens made before it; whoever asks
  for a reset gets the mail.

## 2. Modules

| Module | What it is |
|---|---|
| `Listings` | listing endpoints and the flag endpoint, as a step operator `ListingsStep` for the module that composes it |
| `BookingStateMachine` | the table `TRANSITIONS` and `CanTransition` |
| `Bookings` | booking endpoints, expiry worker, clock, crashes; EXTENDS `Listings` and `BookingStateMachine` and interleaves with the listing endpoints over the same `listing` variable |
| `RoomLock` | the abstract specification: a home, its holder, its presence on the market |
| `BookingsRefinement` | the refinement mapping from `Bookings` to `RoomLock` |
| `Trust` | the log, the score, the queue, the worker, and every service that records an event |
| `TrustLedger` | the abstract specification: a log that grows, a score, and the users whose score is due |
| `TrustRefinement` | the refinement mapping from `Trust` to `TrustLedger`: a score is due while a job for it is queued, runs or has yet to be added |
| `Verification` | signups, provider Pages, the review queue and both of its review endpoints, onboarding |
| `TrustScore` | the arithmetic `Trust` leaves out: weights, decay, clamping, rounding, flags, as one user's events grow old |
| `Sessions` | refresh tokens, password-reset tokens and the e-mail job of one account |
| `MCBookings`, `MCTrust`, `MCVerification`, `MCTrustScore`, `MCSessions` | the small instances TLC checks |
| `BookingsProofs` | types; homes that are shown or booked were approved; outcomes were paid for |
| `HomesProofs`, `HoldsProofs` | EXTEND it: what a review has seen, deleted homes; deadlines, expiry jobs, recompute jobs |
| `SerialProofs` | EXTENDS `HoldsProofs`: requests about one home one at a time; the lock and its refinement |
| `TrustProofs`, `VerificationProofs`, `TrustScoreProofs`, `SessionsProofs` | theorems of the modules they are named for |

**Conventions.** A service method is one action per await; the record `call[r]`
(`listingCall`, `bookingCall`) holds what the continuation of request `r` remembers:
its next await `pc` and what it has read. `XRead` is the first await with the checks
that follow it, `XWrite` the write or transaction. A request that is refused changes
nothing and has no action. Callers are those the controller's guards admit. A row is
its status and the fields properties distinguish; an id that was never used is
`"ABSENT"` or `"NONE"`. An operator whose comment starts with *Fault:* is a plausible bug in
the definition that follows it; nothing in the specification uses it. Each property
of a passing run is violated when one of them replaces the original.

`Listings`. `Proceed` and `Answer` are the two halves of a method. `content` is the
version of what the home shows. `SetStatus` does nothing to a deleted row (Prisma rejects with P2025).

`Bookings`. The deadline of a row, of a request that is about to insert one, and the
delay of a job are kept as time remaining, which `Tick` decreases; no clock needs a
bound. A job has the states of BullMQ; `Crash` forgets requests and puts the active job
back, once, as BullMQ does with stalled jobs. The student of a row is left out (every
method turns others away before it changes anything).

`Trust`. `computeTrustScore` depends on nothing but the events (and the time), so the
cached score *is* the tally of events it was computed from; `Null` is a score that was
never computed. Weights, decay and rounding are abstracted. Of a booking only the status is kept,
with the methods that write it by the booking's id after reading it an await earlier (confirm,
cancel, complete, dispute; what `releaseHold` and the expiry worker write is what
`CancelWrite` writes from HELD), so that a request that is late overwrites an outcome here as it
does there. `ResolveQueue` and
`ResolveCommit` split the transaction of `resolveFraudReport` at the one thing in it
that is visible before the commit, the job; `Locked` is the row lock its update holds.
`Penalise` and the following `QueueJob` are the two awaits per owner of
`resolveDuplicateFlag`, which uses no transaction.

`Verification`. A person is an e-mail address, by which `users`, `student_profiles` and
`admin_review_queue` are joined; each has at most one account, profile and Page. What a
profile or Page says is one of `Contents`; `Complete` are those that
`validateSubmission` (or the signup's DTO) accepts, `ProviderType` the role they ask
for. The queue is a sequence in the order of `createdAt`, so "the newest pending row" is
the pending row with the largest index. `FindRow` and `FindEntity` are the second reads
of `ProviderPagesService.review` and `AdminService.reviewSubmission`; the transactions
of the two write the same rows and are one action, `DecidePage`. Audit rows are left
out, and so is `identity_verified`: every place that creates an account here sets it.
`auth.service.ts` registers nobody, so an account begins in onboarding or in a verdict.

`TrustScore`. An event is its kind (the type and the weight that one place of the
code records, `TypeOf` and `RecordedWeight`) and its age in half-lives; the log counts
them. At half-lives the decay is a power of two, so sums are exact in eighths and no
floating point is needed; `VarianceExceeds` is the variance multiplied out. Between
half-lives the decay is a real power, and nothing is claimed there. `unread` and
`uncounted` say whether an event came after the worker's last read and after the read
behind the cached score. `getTrustScore` answers from the cache or computes as the
worker does.

`Sessions`. A refresh token is a JWT over the account and the second of its signing, so
it *is* that second; a token can be in several rows, because no index forbids it.
Rows and tokens are separate for this reason: `refresh` finds *a* row that holds the token,
revokes that row by id, and signs a new token in whichever second the event loop comes
back to it. `history` records what happened to tokens and the code forgets: which were exchanged,
which were logged out when nothing could create them any more, and which were signed twice
because two signings fell into one second. `after` in a reset token counts the resets written before it was made.

## 3. Runs

Passing runs:

| Run | Question | Instance |
|---|---|---|
| `bookings_concurrent` | what survives arbitrary overlap of requests, administrator and worker, and does every hold end | one home from creation on, one booking id, two booking requests, one listing request, every endpoint but `releaseHold`, `FairSpec`, no faults |
| `bookings_serial` | is a hold exclusive, timely and single-outcome when the requests about one home run one at a time; does a deleted home stay deleted; is all of it a lock | two bookings, two requests, worker; either one approved home with two administrators who flag or delete, crashes and failing awaits, or two homes with a request about each |
| `trust_concurrent` | does every event reach the score in spite of stale reads; is all of it a ledger | two requests, bookings confirmed, cancelled, completed and disputed, duplicate verdicts, worker, fairness, no faults |
| `trust_serial` | do verdicts and reviews count as they should, whoever writes the status of the booking | two requests over all operations, which overlap with each other and the worker but do not resolve one report both; crashes, failing awaits |
| `verification` | do queue, profile, Page, role and mail agree while applicants and administrators act at once | one person on both tracks or two people, two requests of theirs and two of administrators that are not about one thing, any await may fail |
| `sessions` | why may an exchanged token work again, does a logged-out one, and is there one session per login | four rows, three reset tokens, two session requests that do not exchange one row, or two password requests of which one resets, three seconds, any await may fail |
| `trust_score` | do the weights, the decay and the flags mean what the engine's documentation says | five kinds of event that cover every type, three events on top of a new or a long record, four half-lives |

Runs that show a disagreement between code and documentation (each checks one
property and TLC violates it):

| Run | What happens |
|---|---|
| `double_hold` | two students' requests overlap and both hold the home |
| `illegal_transition` | cancel and confirm of one booking overlap: CANCELLED becomes BOOKED |
| `fraud_job_before_commit` | the recompute job overtakes the penalty it is about |
| `token_works_again` | a refresh in the second of the login stores the token it has just exchanged |
| `reset_mail_unsent` | a reset is asked for, nothing fails, and no mail is sent |

**Bounds.** `MaxEdits` bounds the versions of a listing's content: one edit in
`bookings_concurrent`, none in `bookings_serial`, where the administrators flag and delete but no
owner edits. That an edit under way leaves a deleted home deleted is therefore not shown by
a run; the theorem `DeletedHomes` includes it. `HOLD_DURATION` is 1 tick: the
cases are "time left" and "expired", and the clock may tick between the request's
reading of it and the job's.
`MaxSubmissions` bounds the review queue: three rows are a signup and a Page of which one was
rejected and submitted again, or one of them three times. `MaxTimes` bounds what an
administrator may repeat without end (approvals of one
review, identity verifications of one user). `MaxQueue` bounds the jobs that rolled
back verdicts leave behind: `resolveFraudReport` adds a job that no rollback takes
back, so the queue is otherwise unbounded under faults. Two requests suffice for the
races here, since each is between one check-then-write and one other writer. One home with two bookings shows every conflict over
a home, because methods on different homes touch different rows (`AtMostOneActive`
relates bookings of one listing). One student and one owner are both parties of the
booking and the two owners of the duplicate in `MCTrust`, so that outcomes and penalties
meet in one score. `bookings_serial` and the two violations about bookings start from
`Market`, the state after the homes were created, photographed, submitted and
approved; `bookings_concurrent` starts from the empty database. In `bookings_serial` a request
about one home overlaps with one about another and never with one about the same
(`OneAtATimePerHome`, see section 4); with two homes there are neither administrators nor
faults, or the run would not end in time. For the same reason `Small` of `MCTrust` lets one
job wait at a time, asks for the owner's score only, while the booking is a hold, and gives that
request no other beside it, verifies the identity of the owner only, and has a report, a
duplicate, that verification and a booking that is more than a hold in different behaviours (they share nothing but
the log and the queue, and no property of that run relates them; the reader that races the worker
touches the cached score alone). In
`trust_concurrent` a confirmation, which records no event, has no other request beside it
(`ConfirmedAlone`), though its jobs wait with those of later requests, and no duplicate comes with a
booking to which two racing requests give an outcome each (`FewEvents`). In `trust_serial`
confirmations and cancellations overlap with outcomes, reviews and each other. `Symmetry`
exchanges requests and ids that nothing orders, in runs without liveness. What must not overlap, and these bounds, are action constraints
(`SmallAndSerial`) of `bookings_serial` and `trust_serial`, whose specification has the plain
`Next`; in `verification`, `sessions` and `trust_concurrent` they are part of the specification
(`SmallSpec`, `HalvesSpec`, `ConcurrentSpec`).

`MaxClock` ends the clock of `Sessions` at second 2: a token of second 0 that lives two seconds
(`REFRESH_TOKEN_TTL`) has then expired, one of second 1 is of an earlier second and still works; four rows
are two logins and a refresh of each. `OneHalf` keeps requests about sessions and requests
about passwords, which share the clock and nothing else, in different behaviours. `MaxEvents` adds three events to a log of
`Histories` completed bookings: 0, or 21, with which the score starts at its upper bound (that
a penalty still counts there, and decay brings the score back, is a case of its own).
`Age` ends at three half-lives; the events of the penalty kinds left out of `SomeKinds` have
the weights of those that are in it.

`verification` has two requests of applicants and two of administrators, which overlap at
every await: an applicant who edits, resubmits or signs up while an administrator decides, on
either track and through either endpoint. Two forms about one row, or two reviews of one
person, do not overlap (`OneAtATimeEach`, section 4): with them several of the properties fail, in the
ways section 5 describes. `Small` bounds the rest: a third row of the queue only while no two
requests of a side overlap and Bob stays away; Bob is a landlord with a Page, and while he
is there Ann is a landlord too. So it is in `sessions`, where two refreshes that exchange one row
would both succeed, and in `trust_serial`, where two verdicts on one report would both count.

Deadlock checking is off where a run may legitimately use up its ids: when every id
has reached a final status, or the queue is full, nobody has anything to ask.

**Fairness.** `WF(BookingCallGoesOn(r))` and `WF(CallGoesOn(r))`: Node resumes a
request whose promise has settled. `WF(ExpiryStep)`, `WF(Recompute)`: a worker takes
jobs that are due while Redis answers. `WF(Tick)`: time passes (in `Bookings`; the other modules need no time for their liveness). No request is ever
assumed to be sent: a hold must end although its student never returns. Liveness is
checked without failing awaits and crashes; section 5 says what one crash does to it.
`reset_mail_unsent` grants all of this to `Sessions`, so that what it shows is not a
scheduler that stopped.

**One process.** The models have one worker of each kind that runs one job at a time
(BullMQ's default concurrency, and the repository deploys one process). With two
recompute workers, `ScoresNeverForget` and `OutcomesReachTheScore` would no longer follow.

## 4. Proofs

TLC checks the instances above. TLAPS proves, for any number of homes, bookings,
users, reports, submissions, tokens and requests, any hold time and any lifetime of tokens, any subset of the operations (`Ops`)
and any faults (`Faults`):

| Theorem | Statement |
|---|---|
| `BookingsProofs!TypeCorrect` | `Spec => []TypeOK` |
| `BookingsProofs!OutcomesPaid` | `Spec => []OutcomesArePaidAndRecorded` |
| `BookingsProofs!MarketApproved` | `Spec => []MarketHomesWereApproved` |
| `BookingsProofs!BookedApproved` | `Spec => []BookedHomesWereApproved` |
| `HomesProofs!ReviewsSeeCompleteHomes` | `Spec => []ReviewedHomesAreComplete` |
| `HomesProofs!DeletedHomes` | `Spec => DeletedHomesStayDeleted` |
| `HoldsProofs!HoldsLast` | `Spec => HoldLastsItsTime` |
| `HoldsProofs!HoldsHaveJobs` | `Spec /\ [][NoHoldJobIsLost]_vars => []EveryHoldHasAJob` |
| `HoldsProofs!OutcomesRescored` | `Spec /\ [][NoRecomputeJobIsLost]_vars => []OutcomesAreRescored` |
| `SerialProofs!OneOutcomeEach` | `Spec /\ []OneBookingPerHome => []OneOutcome` |
| `SerialProofs!ExclusiveHolds` | `SerialSpec => []ExclusiveHold` |
| `SerialProofs!RoomLockImplemented` | `SerialSpec => ImplementsRoomLock` |
| `TrustProofs!TypeCorrect` | `Spec => []TypeOK` |
| `TrustProofs!ConfirmedArePenalised` | `Spec => []ConfirmedReportsArePenalised` |
| `TrustProofs!OutcomesReach` | `Spec /\ []OneScorePerUser /\ [][NoJobIsLost]_vars => []OutcomesReachTheScore` |
| `TrustProofs!NeverForget` | `Spec /\ []OneScorePerUser => ScoresNeverForget` |
| `TrustProofs!LedgerImplemented` | `Spec /\ []OneScorePerUser /\ [][NoJobIsLost]_vars => ImplementsLedger` |
| `TrustProofs!VerdictsOnce` | `Spec /\ []OneVerdictPerReport => []VerdictsCountOnce` |
| `TrustProofs!ReviewsEarned` | `Spec => []ReviewsAreEarned` |
| `VerificationProofs!TypeCorrect` | `Spec => []VerificationTypeOK` |
| `VerificationProofs!RolesHold` | `SerialSpec => []RolesAreEarned` |
| `VerificationProofs!LifecycleHolds` | `SerialSpec => LifecycleIsKept` |
| `VerificationProofs!QueueMatches` | `SerialSpec => []QueueMatchesItsSubjects` |
| `VerificationProofs!VerdictsShown` | `SerialSpec => []VerdictsAreAboutWhatIsShown` |
| `VerificationProofs!ApprovalsOnce` | `SerialSpec => []ApprovalsCountOnce` |
| `VerificationProofs!MailsTell` | `SerialSpec => []MailsTellTheVerdict` |
| `TrustScoreProofs!TypeCorrect` | `Spec => []TypeOK` |
| `TrustScoreProofs!StaleExtreme` | `Spec => []StaleScoresAreExtreme` |
| `TrustScoreProofs!DisputesOutweigh` | `Spec => DisputesOutweighMerits` |
| `TrustScoreProofs!GoodRecords` | `Spec => []GoodRecordsAreNotFlagged` |
| `TrustScoreProofs!TimeOnlyForgives` | `Spec => TimeForgives` |
| `SessionsProofs!TypeCorrect` | `Spec => []TypeOK` |
| `SessionsProofs!ExchangesEndTokens` | `Spec => []ExchangedTokensWorkOnlyIfSignedTwice` |
| `SessionsProofs!LogoutsAreFinal` | `Spec => []LoggedOutTokensNeverWork` |
| `SessionsProofs!ResetsEnd` | `Spec /\ []OneReset => []ResetsEndEarlierTokens` |
| `SessionsProofs!SessionsAreFew` | `Spec /\ []OneRefreshPerRow => []SessionsAreNotMultiplied` |

Some properties hold only as far as requests keep to what the code does not enforce: that no
two of them are about one thing at a time. The assumption is a predicate on states,
`SerialSpec` (of `Bookings` and `Verification`) is `Spec` restricted to the states that satisfy it, and everything else overlaps without limit:

| Module | What does not overlap | What does |
|---|---|---|
| `Bookings` | two booking requests about one home (`OneBookingPerHome`), two reviews of one home (`OneReviewPerHome`) | requests about different homes; a booking request, administrators and the worker at one home |
| `Trust` | two verdicts on one report (`OneVerdictPerReport`); two writers of the score of one user, of which one is a request of `getTrustScore` (`OneScorePerUser`) | everything else, two writers of one booking's status and two creations or moderations of one review among it, and the worker's reads and writes with every request that records an event |
| `Verification` | two forms about one profile or Page, two reviews of one person (`OneAtATimeEach`) | an applicant and an administrator at one row, the forms of the two tracks, anything about different people |
| `Sessions` | two refreshes that exchange one row (`OneRefreshPerRow`); two resets (`OneReset`) | logins, logouts, refreshes of other rows even with the same token; requests for resets |

Each theorem assumes the part it needs. Without that part it is false, as section 5 shows.

`NoJobIsLost`, `NoHoldJobIsLost` and `NoRecomputeJobIsLost` are assumptions about steps. A
request that fails or dies has no job left to add, and a job that fails for good had nothing
left to do; all other failures happen as they like: before the commit, in a request that
queues nothing, or of a whole process whose job is redelivered. The runs that check these
properties have no faults at all, because liveness under them is what those runs are about.

None of the properties is inductive as it stands.

- *Types of bookings* need `CallsOnRows`: a request past its insert, and the worker,
  are at a booking that exists; otherwise a write could give fields to a row that is
  not there.
- *OutcomesPaid* uses `Paid`: a request about to write an outcome has read BOOKED, and a
  booking that was ever BOOKED has `bookedAt`, which nothing takes back. The status read
  may be stale; `bookedAt` is monotone, and that is why the property survives.
- *MarketApproved* and *BookedApproved* use `HomesInv`, four mutually dependent parts.
  `MarketHomes`: a home whose status the booking code may have written was approved.
  `Decisions`: a request about to submit or decide is at a home with a photo.
  `BookedHomes`: the home of a booking was approved and still has its row, because the
  foreign key refuses its deletion. `Creations`: so was the home of a request that is
  about to insert. `cancelBooking` writes VERIFIED without a review and is harmless only
  through `BookedHomes`.
- *ReviewsSeeCompleteHomes* uses `CompleteInv`: a home that is under review, decided or was
  ever approved, and the home of a request that is about to decide, has a photo and a
  submission in its audit log (unless its row is gone). Nothing takes a photo away but the
  deletion of the home; what the booking code writes is covered by `HomesInv`.
- *DeletedHomes* uses `DeletedHomesAreBare`; the rest is that every write goes by the id of a
  row, and a write by the id of a row that is gone is rejected.
- *HoldsLast* uses `WorkerWaited`: if the worker has read a booking and it is still HELD,
  its deadline has passed, since nothing prolongs a hold. So what the worker
  does with a stale reading is late and never early.
- *HoldsHaveJobs* uses `JobsInv`: a HELD booking has a request that is about to add its
  job, a job whose remaining delay is at least the remaining hold (`InTime`), or one that runs. The
  deadline is fixed before the delay starts, so the clock can only make the job later. A job that
  is delivered again after a crash was the worker's (`ActiveIsWorkers`), so its hold has
  expired (`WorkerWaited`) and the second delivery does not come too early either.
- *OutcomesRescored* uses `NotifiesInv`: for every outcome and party there is the job or a
  request that still has to add it.
- *OneOutcomeEach* uses `OutcomeInv`: a booking with an outcome is at an end and nobody is
  about to confirm it or decide it again. No other request is at the home of that booking, and
  the worker, which `OneBookingPerHome` does not concern, only writes CANCELLED.
- *ExclusiveHolds* uses `LockInv` and `ReviewInv`. `LockInv`: a request about to insert is
  at a home that is `Free`, one about to write is at a booking that is `Sole` on its home,
  and one about to confirm finds the home off the market. `ReviewInv`: a home is approved at most
  once, so no approval that is still under way can put a held home back on the market;
  this is what `OneReviewPerHome` is for. A request about another home disturbs neither:
  it writes bookings of its own home (`WritersOfOneHome`) and that home.
- *RoomLockImplemented* maps the holder of a home to its active booking (`HolderOf`, a
  CHOOSE, which `Sole` makes unique) and its market to the status VERIFIED (`OnMarket`).
  `RoomStep` shows for every action that it moves one home at most (`OnlyHome`) and that
  this is a step of the lock (`RoomSteps`) or none (`RoomStutters`).
- *Types of trust* need `RowsExist`: a request at a report is at one that was filed.
- *ConfirmedArePenalised* follows from `RowsStay` (reports keep whom and what they
  name), `LogGrows` (no event is ever taken back) and the transaction.
- *OutcomesReach* uses `AllFresh`: for every user and every outcome or
  duplicate, a job is on its way, or the worker is running one and has read every such
  event, or the score counts every one; and unless a job is on its way, a request that is about to
  write the score has read them too. Each recorder puts the user into `todo` in the
  step that commits the event (`NewEventAwaited`), `AwaitedStays` says that only the
  worker takes a job away, and it reads all events in that very step.
- *NeverForget* uses `Ordered`: score <= what the worker, or the request that computes the score
  itself, has read <= log. `OneScorePerUser` is what keeps the first of these when the other writes.
- *LedgerImplemented* rests on both. `LedgerStep` shows for every action which step of the ledger
  it is: an event of one user (`EventMoves`) or of both parties (`OutcomeMoves`), a score that becomes
  due (`JobMoves`), one that is written (`ScoreMoves`), or none. The worker takes a job from
  the queue into its hands, and a crash puts it back, without a change of who is due
  (`WorkerMoves`). `AllFresh` in the next state says that a score which is due no more counts all
  that was promised, `Ordered` that no score forgets.
- *VerdictsOnce* uses `VerdictInv`: a report that a request is about to resolve is still
  PENDING, and a report has its one event exactly when it is CONFIRMED. `PendingStep` shows
  that only another request at the same report could end that: filing one takes a row
  that was never used. Which causes a step adds an event to is `EventsOfMethods`.
- *ReviewsEarned* uses `EarnedInv`. The status of a booking is of no use: a request that read
  BOOKED or HELD before the completion may write CANCELLED, BOOKED or DISPUTED over it after the review.
  What lasts is the log: a booking that says COMPLETED has its two events, because
  one transaction writes both, a request about to create a review has seen such a booking, and no event is
  ever taken back (`LogGrows`). A review never ceases to exist nor becomes PENDING again,
  which is why any number of requests may create and moderate it.
- *Types of verification* need another `RowsExist`: a request that updates a Page or a
  profile has found it. The proofs first reduce each step to what it may change in terms
  of statuses and roles (`OwnerEffects`, `AdminEffects`); everything after that is about
  these two.
- *RolesHold* and *LifecycleHolds* use `Undisturbed`: between the read of an owner's
  request and its write the Page stays a draft or rejected (the profile neither pending
  nor approved), and between an administrator's read and decision it stays under review.
  Each half preserves the other, because no owner's request writes what is under review
  and no administrator's anything else. `ReviewsKept` adds that a request about another person
  (`TwoPeople`) writes other rows, and `OneAtATimeEach` that nobody of one's own side
  is between a read and a write of the same one. `Onboarded` says that a person
  without an account was never onboarded, so that the event of onboarding is the only one.
- *QueueMatches*, *VerdictsShown*, *ApprovalsOnce* and *MailsTell* are four readings of one
  invariant, `QueueInv`. `PageQueued` and `ProfileQueued` say of a Page or profile under
  review that its pending rows are a singleton whose row has the content shown, and of
  a verified Page the same of its approved rows, with one event. `RequestQueued` says that
  the row a request is about to decide is among the pending ones, so that it is *the*
  one, and that what it is about to mail is on record. Two lemmas about the queue carry the
  steps: `AddedRow`, and `DecidedRow`, by which what is decided never changes again. The
  part `Undisturbed` of the invariant above gives each write its subject's status.
- *StaleExtreme* uses `StaleInv`: the cache, and what the worker has yet to write, are as
  extreme as a fresh score unless an event came meanwhile. That a half-life keeps this
  is arithmetic: `Total` halves exactly (`Age` ends before an eighth would be halved), `ScoreOf` is
  monotone, and rounding half of a total cannot cross neutral (`HalvesAreMilder`).
- *DisputesOutweigh* follows from what one event adds to `Total`: a weight of at most 15 for a
  merit, of at least 30 for a penalty, four to a point, before a rounding by less than one point.
- *GoodRecords* is a bound on a variance: every merit weighs x between 0 and 15 points, 120
  eighths, so the sum of squares is at most 120 times the total (`SquareOfMerit`), and then
  the variance at most 60 * 60 square eighths (`NearWeights`), which is 56.25: less than both limits.
- *TimeOnlyForgives*: a half-life keeps the number of events, halves `Total` and quarters
  `Squares` (`AgedTotal`, `AgedSquares`), for all events and for those of one type
  (`OfTypesIsLog`), so it quarters every variance; and no dispute is recent any more.
- *LogoutsAreFinal* uses `LogoutInv`: a token that was logged out is `Over`, of an
  earlier second, in no row that works and with no request that has yet to store it. `OverStep`
  shows that this lasts: whoever signs a token signs the second of the clock, and a new row holds a token
  that was signed. It needs `RowsExist`, that a refresh is at a row that exists: otherwise its update
  could create one.
- *ExchangesEndTokens* uses `TokensInv` and `ExchangeInv`. `ExchangeInv`: the row an exchanged token
  was in stays revoked. `TokensInv`: a token that was signed once is in one row or with one
  request, so if it still works it is in another row and was signed twice. For this no token may be of a
  later second, and one of this second must have been signed in it (`SignedBy`). Two
  refreshes of one row are no exception: each signs a token of its own.
- *SessionsAreFew* uses `SessionsInv`: the rows that can be refreshed or are being exchanged
  (`Held`) and the refreshes that have revoked one and owe the next (`Owing`) are together at
  most as many as the logins. A refresh that revokes its row moves from the one set to the
  other (`RevokeKeepsSessions`; with `OneRefreshPerRow` nobody else holds the row), and storing the
  next row moves back (`StoreKeepsSessions`). The proof counts by the theorems about
  cardinalities of finite sets.
- *ResetsEnd* uses `ResetsInv`, which adds that only password requests write resets.

Assumptions on constants are the named ASSUMEs of `Listings`, `Bookings`, `Trust`,
`Verification`, `TrustScore` and `Sessions` (`Null` is no id, bounds and lifetimes are numbers, parties of
bookings are users, the rows a database holds are finitely many), which TLC evaluates in
the runs.

Only model-checked: liveness (`HoldsEnd`, `ScoresSettle`, and that `ResetMailsAreSent` fails;
fairness is out of the prover's reach). Every invariant and action property of the passing
runs is proved.

## 5. Findings

With a run (section 3): the five violations, each quoted in `PROJECT.json` with the
line of documentation it contradicts.

Without one, because the code says it directly:

- `modules/bookings/bookings.service.ts:93`: the expiry job is queued after the transaction
  has committed and nothing looks for holds without a job. A process that dies in between
  (`Crash` at `addHoldJob`), or a rejected `add`, leaves the home held for ever, although
  `src/safecrib-backend/project-structures/backend-documentry.md:141` says that a booking that
  enters HELD has its delayed job. With `Faults <- AllFaults`, `HoldsEnd` and
  `EveryHoldHasAJob` fail in this way; the three jobs of a confirmed or decided booking
  (`:144`, `:362`, `:452`) can be lost likewise.
- `infra/queue/booking-hold-expiry.processor.ts:87`: an expired hold leaves its home ACTIVE, while
  `releaseHold` and `cancelBooking` make it VERIFIED. Search and `createBooking` accept VERIFIED only,
  and an ACTIVE home can be neither submitted nor reviewed, so nobody finds or books it again, although
  `src/safecrib-backend/project-structures/backend-documentry.md:82` says "HELD → AVAILABLE (on hold expiry
  or cancellation — by BullMQ delayed job)". `ExpiryWrite` is faithful to this, and `ImplementsRoomLock`
  therefore asks only that a home which is free may return to the market.
- `modules/listings/listings.service.ts:279`: two administrators who have the same home
  open both write; the later verdict stands, both are in the audit log.
- `modules/bookings/bookings.service.ts:278-304`: the table allows DISPUTED -> COMPLETED
  and CANCELLED, but no service accepts a DISPUTED booking; it stays so for ever. (The
  table's handler for DISPUTED -> COMPLETED also drops `completedAt`.)
- `src/safecrib-backend/README.md:75-77` says that a listing becomes FLAGGED on hold and
  that a unique partial index exists; the code writes INACTIVE, and no migration has the
  index.
- `confirmBooking` reads neither the listing's status nor the deadline: a deposit is
  confirmed on a home that was flagged during the hold, or after the hold's time if the
  worker is late. `cancelBooking` and `releaseHold` write VERIFIED over a flag.
- `modules/fraud/fraud.service.ts:99`: two administrators who confirm one report at once
  both pass the check; the user is penalised twice, and if they disagree a DISMISSED
  report may carry a penalty. `VerdictsCountOnce` needs `OneVerdictPerReport`.
- `modules/fraud/fraud.service.ts:167`: a failure after a duplicate verdict leaves owners
  without penalty, and the flag can no longer be resolved.
- `modules/trust/trust.service.ts:47`: `getTrustScore` on a user without a score writes
  one from events it read earlier and may overwrite a newer score of the worker. `NeverForget`,
  `OutcomesReach` and `LedgerImplemented` need `OneScorePerUser` for this reason, and `trust_concurrent`
  leaves `getTrustScore` out.
- `modules/fraud/fraud.service.ts:36`, `modules/reviews/reviews.service.ts:33`,
  `modules/admin/admin.service.ts:57,91`, `322`: events without a recompute job.
- `modules/reviews/reviews.service.ts:27`: approving a review again records its event again,
  and hiding it takes none back.
- `domain/trust/trust-score.engine.ts:53`: weights that are not positive are replaced by
  the default, so a reporter's -10 counts as -60.
- `infra/queue/image-hash.processor.ts:55`: VERIFIED homes are never compared.
- `modules/listings/listings.service.ts:105`: a home may be edited in any status, so a
  home under review or approved may show what no administrator read. Pages are different:
  `update` refuses a Page that is SUBMITTED or VERIFIED.
- `modules/provider-pages/provider-pages.service.ts:127`: two submits of one Page that
  overlap leave two pending rows. If an administrator decides before the second writes, the
  Page goes from VERIFIED back to SUBMITTED and its owner can create no home
  until it is reviewed again.
- `modules/provider-pages/provider-pages.service.ts:206`,
  `modules/admin/admin.service.ts:184`: two administrators who decide one submission at
  once both pass the check: two IDENTITY_VERIFIED events, and the later verdict stands
  although both are mailed. An approval followed by a rejection leaves the role of a
  provider with a rejected Page.
- `modules/admin/admin.service.ts:264`: approving the signup of somebody who is a
  provider overwrites the role with STUDENT while the Page stays VERIFIED, although
  `src/safecrib-backend/README.md:87` calls the two "parallel verification tracks";
  `RolesAreEarned` therefore asks nothing of the owner of a verified Page. Approving a
  signup also records no trust event, unlike approving a Page.
- `POST /provider-pages` admits students, who become providers through it;
  `src/safecrib-backend/project-structures/backend-documentry.md:121` says it rejects them.
- `modules/auth/auth.service.ts:104`: two requests that refresh one token at once both
  find it and both get a new token, so one login becomes two sessions;
  `src/safecrib-backend/README.md:81` calls this rotation. `SessionsAreNotMultiplied` needs
  `OneRefreshPerRow`.
- `modules/auth/auth.service.ts:118` and `:223`, beyond the trace of `token_works_again`: two logins in
  one second store one token in two rows, and a refresh revokes one of them by its id. So it is
  one session that ends and the token still works through the other row; `logout`, which revokes every row
  that holds the token, is not affected.
- `modules/bookings/bookings.service.ts:263`, `:129`, `:372` and the expiry worker's
  transaction write the status of a booking by its id, whatever it has become since it was read: a
  booking that was completed and reviewed may end as CANCELLED, BOOKED or DISPUTED. Its review stays,
  although `modules/reviews/reviews.service.ts:14` gives reviews to completed bookings only, and
  `ReviewsAreEarned` therefore speaks of the log and not of the status.
- `modules/auth/auth.service.ts:183`: a reset leaves every session alone, and two resets
  with two tokens that overlap both succeed.
- `src/README.md:345` calls access tokens revocable; nothing revokes one (`JwtStrategy` only asks
  whether the user exists and has a verified e-mail), and it works until it expires.
- `modules/auth/auth.service.ts:55`: verifying an e-mail needs a token that nothing creates any more.
- `modules/trust/trust.service.ts:33`: a cached score is answered with `flaggedForReview:
  false` and no breakdown, whatever the engine computed; the flag is stored nowhere. It is
  told only to the request that computes the first score.
- `domain/trust/trust-score.engine.ts:52`: the reviewer's own trust never counts: the worker
  leaves `reviewerTrustFactor` out, `getTrustScore` reads the 1 that `moderate` recorded, and `computeReviewerTrustFactor` has no caller.

## 6. Not modelled, and why

- A listing that duplicate flags refer to cannot be deleted, and deleting one clears
  `target_listing_id` of reports; `Listings` knows only the bookings' foreign key and
  `Trust` no deletion at all. Users are never deleted by the code.
- The refusal of a second review by the unique index, the status codes, texts, ratings,
  prices, distances, search and every read-only endpoint.
- The similarity measures of duplicate detection: floating point arithmetic over images and
  texts, with no state. The trust formula between half-lives, for the same reason.
- Mail: the templates, the provider's HTTP interface, and the five attempts at a mail that tells
  a verdict; whether it arrives is outside the program.
- `changePassword`, `verifyEmail` (unreachable, see section 5) and the endpoints of `users`: one
  write of one row by its owner.
- Guards, validation, CORS, configuration: no state.

## 7. What is left

1. Compose `Verification` with `Listings`, whose `CreateListing` takes it for granted that
   `requireVerifiedPage` was passed: the home of an owner whose Page was verified when it
   was created, and what becomes of it when the Page is not verified any more.
2. The thresholds of the duplicate detector, as a function of the distances it is given.
