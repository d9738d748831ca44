-------------------------------- MODULE Trust --------------------------------
(***************************************************************************)
(* The trust ledger: trust_events is an append-only log, the score in the  *)
(* row of a user is a cache of it, and the trust-recompute queue and its   *)
(* worker bring the cache up to date.  Modelled here are the worker        *)
(* (infra/queue/trust-recompute.processor.ts), the cache's other writer    *)
(* (getTrustScore of modules/trust/trust.service.ts) and every service     *)
(* that records an event: fraud, reviews, admin, and bookings, of which    *)
(* only the status matters here (module Bookings has the rest).            *)
(*                                                                         *)
(* computeTrustScore is a function of the events of a user, so a cached    *)
(* score is represented by the events it was computed from.  As in module  *)
(* Bookings a method is one action per await; its check and its write are  *)
(* apart, and its queue.add comes after the commit, except in              *)
(* resolveFraudReport, which adds the job inside its transaction.          *)
(***************************************************************************)
EXTENDS Naturals, Sequences

CONSTANTS
    Users,         \* ids of users; none is ever deleted
    Bookings,      \* ids of bookings
    Reports,       \* ids of fraud_reports rows
    Duplicates,    \* ids of duplicate_flags rows
    Reporters,     \* the users who report fraud
    Suspects,      \* the users whom reports name
    Reqs,          \* requests that may be in flight
    StudentOf,     \* StudentOf[b]: the student of a booking
    OwnerOf,       \* OwnerOf[b]: the owner of its listing
    OwnersOf,      \* OwnersOf[d]: the owners of listing A and of listing B
    Ops,           \* the operations the run lets callers start
    Faults,        \* the faults that may happen: "crash", "dbError"
    MaxTimes,      \* bound on what an administrator may repeat without end
    MaxQueue,      \* bound on the jobs that rolled back verdicts leave queued
    Null

ASSUME PartiesAssumption ==
    /\ StudentOf \in [Bookings -> Users]
    /\ OwnerOf \in [Bookings -> Users]
    /\ OwnersOf \in [Duplicates -> Users \X Users]
    /\ Reporters \subseteq Users
    /\ Suspects \subseteq Users
ASSUME NullAssumption == Null \notin Users
ASSUME MaxTimesAssumption == MaxTimes \in Nat

Outcome == {"COMPLETED", "DISPUTED"}

\* What a trust event is about.
OutcomeCause == Outcome \X Bookings
ReviewCause == {"review"} \X Bookings
ReportCause == {"report", "reporter"} \X Reports
DuplicateCause == {"duplicate"} \X Duplicates
IdentityCause == {"identity"} \X Users
Cause == OutcomeCause \cup ReviewCause \cup ReportCause \cup DuplicateCause \cup IdentityCause

\* How many events of each cause there are.
Tally == [Cause -> Nat]

ASSUME NullIsNoTally == Null \notin Tally

VARIABLES
    booking,       \* booking[b]: the status of a booking
    review,        \* review[b]: the status of the review of b
    report,        \* report[p]: a fraud report
    duplicate,     \* duplicate[d]: the status of a duplicate flag
    events,        \* events[u]: the trust_events rows of u
    score,         \* score[u]: the events the cached score counts, or Null
    queue,         \* the users in the trust-recompute queue, first in first out
    worker,        \* the job the worker is running and the events it has read
    call           \* call[r]: where the request r stands

vars == <<booking, review, report, duplicate, events, score, queue, worker, call>>

BookingStatus == {"HELD", "BOOKED", "CANCELLED"} \cup Outcome
ReviewStatus == {"PENDING", "APPROVED", "HIDDEN"}
Resolution == {"CONFIRMED", "DISMISSED"}
ReportStatus == {"PENDING"} \cup Resolution

NoReport == [status |-> "NONE", reporter |-> Null, user |-> Null,
             onListing |-> FALSE, flagged |-> FALSE]

\* A report names a user, a listing or both; flagged: its listing was flagged.
ReportRow == [status : ReportStatus, reporter : Users, user : Users \cup {Null},
              onListing : BOOLEAN, flagged : BOOLEAN]

IdleCall == [pc |-> "idle", subject |-> Null, verdict |-> Null,
             todo |-> <<>>, seen |-> Null]

\* A request in flight, by its next await.  todo: the users it has yet to queue
\* a job for; seen: the events an inline recompute has read.
Request ==
    [pc : {"writeOutcome"}, subject : Bookings, verdict : Outcome,
     todo : {<<>>}, seen : {Null}]
    \cup
    [pc : {"writeBooked"}, subject : Bookings, verdict : {"BOOKED"},
     todo : {<<>>}, seen : {Null}]
    \cup
    [pc : {"writeCancelled"}, subject : Bookings, verdict : {"CANCELLED"},
     todo : {<<>>}, seen : {Null}]
    \cup
    [pc : {"queueJobs"}, subject : Bookings, verdict : {"BOOKED"} \cup Outcome,
     todo : Seq(Users) \ {<<>>}, seen : {Null}]
    \cup
    [pc : {"reporterEvent"}, subject : Reports, verdict : {Null},
     todo : {<<>>}, seen : {Null}]
    \cup
    [pc : {"resolve", "commit"}, subject : Reports, verdict : Resolution,
     todo : {<<>>}, seen : {Null}]
    \cup
    [pc : {"resolveDuplicate"}, subject : Duplicates, verdict : Resolution,
     todo : {<<>>}, seen : {Null}]
    \cup
    [pc : {"penalise", "queuePenalty"}, subject : Duplicates, verdict : Resolution,
     todo : Seq(Users) \ {<<>>}, seen : {Null}]
    \cup
    [pc : {"writeReview"}, subject : Bookings, verdict : {"PENDING"},
     todo : {<<>>}, seen : {Null}]
    \cup
    [pc : {"moderate", "reviewEvent"}, subject : Bookings, verdict : {"APPROVED", "HIDDEN"},
     todo : {<<>>}, seen : {Null}]
    \cup
    [pc : {"inlineRead"}, subject : Users, verdict : {Null},
     todo : {<<>>}, seen : {Null}]
    \cup
    [pc : {"inlineWrite"}, subject : Users, verdict : {Null},
     todo : {<<>>}, seen : Tally]

NoJob == [user |-> Null, seen |-> Null]

TypeOK ==
    /\ booking \in [Bookings -> BookingStatus]
    /\ review \in [Bookings -> {"NONE"} \cup ReviewStatus]
    /\ report \in [Reports -> ReportRow \cup {NoReport}]
    /\ duplicate \in [Duplicates -> {"NONE"} \cup ReportStatus]
    /\ events \in [Users -> Tally]
    /\ score \in [Users -> Tally \cup {Null}]
    /\ queue \in Seq(Users)
    /\ worker \in [user : Users, seen : Tally] \cup {NoJob}
    /\ call \in [Reqs -> Request \cup {IdleCall}]

Init ==
    /\ booking = [b \in Bookings |-> "HELD"]
    /\ review = [b \in Bookings |-> "NONE"]
    /\ report = [p \in Reports |-> NoReport]
    /\ duplicate = [d \in Duplicates |-> "NONE"]
    /\ events = [u \in Users |-> [c \in Cause |-> 0]]
    /\ score = [u \in Users |-> Null]
    /\ queue = <<>>
    /\ worker = NoJob
    /\ call = [r \in Reqs |-> IdleCall]

-----------------------------------------------------------------------------
(* What the methods are made of                                            *)

\* The first await of method op is over; the next one is pc.
Start(r, op, pc, subject, verdict) ==
    /\ op \in Ops
    /\ call[r].pc = "idle"
    /\ call' = [call EXCEPT ![r] =
           [pc |-> pc, subject |-> subject, verdict |-> verdict,
            todo |-> <<>>, seen |-> Null]]

GoTo(r, pc) == call' = [call EXCEPT ![r].pc = pc]
Answer(r) == call' = [call EXCEPT ![r] = IdleCall]

\* trustEvent.create: one more event about c for u.
Recorded(log, u, c) == [log EXCEPT ![u][c] = @ + 1]

\* r goes on to queue a job for each of users, from pc.
WillQueue(r, pc, users) ==
    call' = [call EXCEPT ![r].pc = pc, ![r].todo = users]

-----------------------------------------------------------------------------
(* The writers of the status of a booking: confirmBooking, cancelBooking,   *)
(* completeBooking and disputeBooking of modules/bookings.  Each writes the *)
(* row by its id, whatever has become of the status it has read.            *)

ConfirmRead(r, b) ==
    /\ booking[b] = "HELD"
    /\ Start(r, "confirmBooking", "writeBooked", b, "BOOKED")
    /\ UNCHANGED <<booking, review, report, duplicate, events, score, queue, worker>>

\* No event is recorded, but both parties get a job, the student first.
ConfirmWrite(r) ==
    LET b == call[r].subject IN
    /\ call[r].pc = "writeBooked"
    /\ booking' = [booking EXCEPT ![b] = "BOOKED"]
    /\ WillQueue(r, "queueJobs", <<StudentOf[b], OwnerOf[b]>>)
    /\ UNCHANGED <<review, report, duplicate, events, score, queue, worker>>

\* releaseHold and the worker that expires holds do the same from HELD.
CancelRead(r, b) ==
    /\ booking[b] \in {"HELD", "BOOKED"}
    /\ Start(r, "cancelBooking", "writeCancelled", b, "CANCELLED")
    /\ UNCHANGED <<booking, review, report, duplicate, events, score, queue, worker>>

CancelWrite(r) ==
    /\ call[r].pc = "writeCancelled"
    /\ booking' = [booking EXCEPT ![call[r].subject] = "CANCELLED"]
    /\ Answer(r)
    /\ UNCHANGED <<review, report, duplicate, events, score, queue, worker>>

OutcomeRead(r, b, o) ==
    /\ booking[b] = "BOOKED"
    /\ Start(r, "recordOutcome", "writeOutcome", b, o)
    /\ UNCHANGED <<booking, review, report, duplicate, events, score, queue, worker>>

\* Fault: the student's job is forgotten.
OutcomeWriteOneJob(r) ==
    LET b == call[r].subject
        c == <<call[r].verdict, b>>
    IN  /\ call[r].pc = "writeOutcome"
        /\ booking' = [booking EXCEPT ![b] = call[r].verdict]
        /\ events' = Recorded(Recorded(events, StudentOf[b], c), OwnerOf[b], c)
        /\ WillQueue(r, "queueJobs", <<OwnerOf[b]>>)
        /\ UNCHANGED <<review, report, duplicate, score, queue, worker>>

\* The transaction: the row and an event for each party.
OutcomeWrite(r) ==
    LET b == call[r].subject
        c == <<call[r].verdict, b>>
    IN  /\ call[r].pc = "writeOutcome"
        /\ booking' = [booking EXCEPT ![b] = call[r].verdict]
        /\ events' = Recorded(Recorded(events, StudentOf[b], c), OwnerOf[b], c)
        /\ WillQueue(r, "queueJobs", <<OwnerOf[b], StudentOf[b]>>)
        /\ UNCHANGED <<review, report, duplicate, score, queue, worker>>

\* trustRecomputeQueue.add for the next user; after the last one r answers, and
\* resolveDuplicateFlag goes on to the event of the next owner.
QueueJob(r) ==
    LET rest == Tail(call[r].todo) IN
    /\ call[r].pc \in {"queueJobs", "queuePenalty"}
    /\ queue' = Append(queue, Head(call[r].todo))
    /\ IF rest = <<>>
       THEN Answer(r)
       ELSE WillQueue(r, IF call[r].pc = "queueJobs" THEN "queueJobs" ELSE "penalise", rest)
    /\ UNCHANGED <<booking, review, report, duplicate, events, score, worker>>

-----------------------------------------------------------------------------
(* modules/fraud: reportFraud, resolveFraudReport, resolveDuplicateFlag    *)

\* target is Null or the user the report names; at least one target is named.
ReportFraud(r, p, reporter, target, onListing) ==
    /\ report[p].status = "NONE"
    /\ target # Null \/ onListing
    /\ report' = [report EXCEPT ![p] =
           [status |-> "PENDING", reporter |-> reporter, user |-> target,
            onListing |-> onListing, flagged |-> FALSE]]
    /\ Start(r, "reportFraud", "reporterEvent", p, Null)
    /\ UNCHANGED <<booking, review, duplicate, events, score, queue, worker>>

\* The reporter is charged at once, and no job is queued for it.
ReporterEvent(r) ==
    LET p == call[r].subject IN
    /\ call[r].pc = "reporterEvent"
    /\ events' = Recorded(events, report[p].reporter, <<"reporter", p>>)
    /\ Answer(r)
    /\ UNCHANGED <<booking, review, report, duplicate, score, queue, worker>>

\* Fault: a report can be resolved again.
ResolveReadAgain(r, p, verdict) ==
    /\ report[p].status # "NONE"
    /\ Start(r, "resolveFraudReport", "resolve", p, verdict)
    /\ UNCHANGED <<booking, review, report, duplicate, events, score, queue, worker>>

ResolveRead(r, p, verdict) ==
    /\ report[p].status = "PENDING"
    /\ Start(r, "resolveFraudReport", "resolve", p, verdict)
    /\ UNCHANGED <<booking, review, report, duplicate, events, score, queue, worker>>

\* A transaction that has updated the report holds its row until it commits.
Locked(p) == \E r \in Reqs : call[r].pc = "commit" /\ call[r].subject = p

Penalises(r) == call[r].verdict = "CONFIRMED" /\ report[call[r].subject].user # Null

\* Inside the transaction: the job is in the queue, nothing is committed.
ResolveQueue(r) ==
    /\ call[r].pc = "resolve"
    /\ Penalises(r)
    /\ ~Locked(call[r].subject)
    /\ Len(queue) < MaxQueue
    /\ queue' = Append(queue, report[call[r].subject].user)
    /\ GoTo(r, "commit")
    /\ UNCHANGED <<booking, review, report, duplicate, events, score, worker>>

\* Fault: a listing is flagged only when the report names no user.
ResolveCommitUnflagged(r) ==
    LET p == call[r].subject
        v == call[r].verdict
    IN  /\ \/ call[r].pc = "commit"
           \/ call[r].pc = "resolve" /\ ~Penalises(r) /\ ~Locked(p)
        /\ report' = [report EXCEPT ![p].status = v,
                          ![p].flagged = @ \/ (v = "CONFIRMED" /\ ~Penalises(r))]
        /\ events' = IF Penalises(r)
                     THEN Recorded(events, report[p].user, <<"report", p>>)
                     ELSE events
        /\ Answer(r)
        /\ UNCHANGED <<booking, review, duplicate, score, queue, worker>>

\* The verdict, the flag on the listing and the event become visible together.
ResolveCommit(r) ==
    LET p == call[r].subject
        v == call[r].verdict
    IN  /\ \/ call[r].pc = "commit"
           \/ call[r].pc = "resolve" /\ ~Penalises(r) /\ ~Locked(p)
        /\ report' = [report EXCEPT ![p].status = v,
                          ![p].flagged = @ \/ (v = "CONFIRMED" /\ report[p].onListing)]
        /\ events' = IF Penalises(r)
                     THEN Recorded(events, report[p].user, <<"report", p>>)
                     ELSE events
        /\ Answer(r)
        /\ UNCHANGED <<booking, review, duplicate, score, queue, worker>>

\* The image-hash worker and the sweep: an upsert that leaves the status alone.
FlagDuplicate(d) ==
    /\ "flagDuplicate" \in Ops
    /\ duplicate[d] = "NONE"
    /\ duplicate' = [duplicate EXCEPT ![d] = "PENDING"]
    /\ UNCHANGED <<booking, review, report, events, score, queue, worker, call>>

DuplicateRead(r, d, verdict) ==
    /\ duplicate[d] = "PENDING"
    /\ Start(r, "resolveDuplicateFlag", "resolveDuplicate", d, verdict)
    /\ UNCHANGED <<booking, review, report, duplicate, events, score, queue, worker>>

\* Both owners of a confirmed duplicate are penalised, a common one once.
OwnersToPenalise(d) ==
    IF OwnersOf[d][1] = OwnersOf[d][2] THEN <<OwnersOf[d][1]>> ELSE OwnersOf[d]

DuplicateWrite(r) ==
    LET d == call[r].subject IN
    /\ call[r].pc = "resolveDuplicate"
    /\ duplicate' = [duplicate EXCEPT ![d] = call[r].verdict]
    /\ IF call[r].verdict = "CONFIRMED"
       THEN WillQueue(r, "penalise", OwnersToPenalise(d))
       ELSE Answer(r)
    /\ UNCHANGED <<booking, review, report, events, score, queue, worker>>

\* The event of the next owner, an await of its own, before its job.
Penalise(r) ==
    /\ call[r].pc = "penalise"
    /\ events' = Recorded(events, Head(call[r].todo), <<"duplicate", call[r].subject>>)
    /\ GoTo(r, "queuePenalty")
    /\ UNCHANGED <<booking, review, report, duplicate, score, queue, worker>>

-----------------------------------------------------------------------------
(* modules/reviews: create, moderate; modules/admin: verifyIdentity        *)

\* Fault: the status of the booking is not looked at.
CreateReviewReadAny(r, b) ==
    /\ review[b] = "NONE"
    /\ Start(r, "createReview", "writeReview", b, "PENDING")
    /\ UNCHANGED <<booking, review, report, duplicate, events, score, queue, worker>>

CreateReviewRead(r, b) ==
    /\ booking[b] = "COMPLETED"
    /\ review[b] = "NONE"
    /\ Start(r, "createReview", "writeReview", b, "PENDING")
    /\ UNCHANGED <<booking, review, report, duplicate, events, score, queue, worker>>

\* The unique index on booking_id rejects a second review.
CreateReviewWrite(r) ==
    LET b == call[r].subject IN
    /\ call[r].pc = "writeReview"
    /\ review' = [review EXCEPT ![b] = IF @ = "NONE" THEN "PENDING" ELSE @]
    /\ Answer(r)
    /\ UNCHANGED <<booking, report, duplicate, events, score, queue, worker>>

\* A review may be moderated again, whatever its status.
ModerateRead(r, b, verdict) ==
    /\ review[b] # "NONE"
    /\ events[OwnerOf[b]][<<"review", b>>] < MaxTimes
    /\ Start(r, "moderate", "moderate", b, verdict)
    /\ UNCHANGED <<booking, review, report, duplicate, events, score, queue, worker>>

\* Fault: the status of a rejected submission is written to a review.
ModerateWriteRejected(r) ==
    LET b == call[r].subject IN
    /\ call[r].pc = "moderate"
    /\ review' = [review EXCEPT ![b] =
           IF call[r].verdict = "APPROVED" THEN "APPROVED" ELSE "REJECTED"]
    /\ IF call[r].verdict = "APPROVED" THEN GoTo(r, "reviewEvent") ELSE Answer(r)
    /\ UNCHANGED <<booking, report, duplicate, events, score, queue, worker>>

ModerateWrite(r) ==
    LET b == call[r].subject IN
    /\ call[r].pc = "moderate"
    /\ review' = [review EXCEPT ![b] = call[r].verdict]
    /\ IF call[r].verdict = "APPROVED" THEN GoTo(r, "reviewEvent") ELSE Answer(r)
    /\ UNCHANGED <<booking, report, duplicate, events, score, queue, worker>>

\* recordTrustEvent: the event of an approved review, without a job.
ReviewEvent(r) ==
    LET b == call[r].subject IN
    /\ call[r].pc = "reviewEvent"
    /\ events' = Recorded(events, OwnerOf[b], <<"review", b>>)
    /\ Answer(r)
    /\ UNCHANGED <<booking, review, report, duplicate, score, queue, worker>>

\* One transaction; onboardAgent and the approval of a provider page record the
\* same event.  No job is queued.
VerifyIdentity(u) ==
    /\ "verifyIdentity" \in Ops
    /\ events[u][<<"identity", u>>] < MaxTimes
    /\ events' = Recorded(events, u, <<"identity", u>>)
    /\ UNCHANGED <<booking, review, report, duplicate, score, queue, worker, call>>

-----------------------------------------------------------------------------
(* The two writers of the cached score                                     *)

\* getTrustScore finds no cached score and computes one itself.
GetScore(r, u) ==
    /\ score[u] = Null
    /\ Start(r, "getTrustScore", "inlineRead", u, Null)
    /\ UNCHANGED <<booking, review, report, duplicate, events, score, queue, worker>>

InlineRead(r) ==
    /\ call[r].pc = "inlineRead"
    /\ call' = [call EXCEPT ![r].pc = "inlineWrite", ![r].seen = events[call[r].subject]]
    /\ UNCHANGED <<booking, review, report, duplicate, events, score, queue, worker>>

InlineWrite(r) ==
    /\ call[r].pc = "inlineWrite"
    /\ score' = [score EXCEPT ![call[r].subject] = call[r].seen]
    /\ Answer(r)
    /\ UNCHANGED <<booking, review, report, duplicate, events, queue, worker>>

\* Fault: only the events since the last recompute are read.
RecomputeReadRecent ==
    /\ worker = NoJob
    /\ queue # <<>>
    /\ LET u == Head(queue) IN
       worker' = [user |-> u,
                  seen |-> IF score[u] = Null THEN events[u]
                           ELSE [c \in Cause |-> events[u][c] - score[u][c]]]
    /\ queue' = Tail(queue)
    /\ UNCHANGED <<booking, review, report, duplicate, events, score, call>>

\* The worker takes the next job and reads the events of its user.
RecomputeRead ==
    /\ worker = NoJob
    /\ queue # <<>>
    /\ worker' = [user |-> Head(queue), seen |-> events[Head(queue)]]
    /\ queue' = Tail(queue)
    /\ UNCHANGED <<booking, review, report, duplicate, events, score, call>>

\* Fault: a score that is cached already is kept.
RecomputeWriteFirst ==
    /\ worker # NoJob
    /\ score' = [score EXCEPT ![worker.user] = IF @ = Null THEN worker.seen ELSE @]
    /\ worker' = NoJob
    /\ UNCHANGED <<booking, review, report, duplicate, events, queue, call>>

RecomputeWrite ==
    /\ worker # NoJob
    /\ score' = [score EXCEPT ![worker.user] = worker.seen]
    /\ worker' = NoJob
    /\ UNCHANGED <<booking, review, report, duplicate, events, queue, call>>

-----------------------------------------------------------------------------
(* What may fail                                                           *)

\* A rejected await: the method stops there, and a transaction is rolled back.
CallFails(r) ==
    /\ "dbError" \in Faults
    /\ call[r].pc # "idle"
    /\ Answer(r)
    /\ UNCHANGED <<booking, review, report, duplicate, events, score, queue, worker>>

\* A job is queued without attempts, so one that fails is not run again.
RecomputeFails ==
    /\ "dbError" \in Faults
    /\ worker # NoJob
    /\ worker' = NoJob
    /\ UNCHANGED <<booking, review, report, duplicate, events, score, queue, call>>

\* The process dies.  A job it was running is delivered again, or given up when
\* it had stalled before.
Crash ==
    /\ "crash" \in Faults
    /\ call' = [r \in Reqs |-> IdleCall]
    /\ worker' = NoJob
    /\ \/ UNCHANGED queue
       \/ worker # NoJob /\ queue' = <<worker.user>> \o queue
    /\ UNCHANGED <<booking, review, report, duplicate, events, score>>

-----------------------------------------------------------------------------
CallStarts(r) ==
    \/ \E b \in Bookings : ConfirmRead(r, b) \/ CancelRead(r, b)
    \/ \E b \in Bookings, o \in Outcome : OutcomeRead(r, b, o)
    \/ \E p \in Reports, u \in Reporters, t \in Suspects \cup {Null}, onListing \in BOOLEAN :
          ReportFraud(r, p, u, t, onListing)
    \/ \E p \in Reports, v \in Resolution : ResolveRead(r, p, v)
    \/ \E d \in Duplicates, v \in Resolution : DuplicateRead(r, d, v)
    \/ \E b \in Bookings : CreateReviewRead(r, b)
    \/ \E b \in Bookings, v \in {"APPROVED", "HIDDEN"} : ModerateRead(r, b, v)
    \/ \E u \in Users : GetScore(r, u)

CallGoesOn(r) ==
    \/ ConfirmWrite(r)
    \/ CancelWrite(r)
    \/ OutcomeWrite(r)
    \/ QueueJob(r)
    \/ ReporterEvent(r)
    \/ ResolveQueue(r)
    \/ ResolveCommit(r)
    \/ DuplicateWrite(r)
    \/ Penalise(r)
    \/ CreateReviewWrite(r)
    \/ ModerateWrite(r)
    \/ ReviewEvent(r)
    \/ InlineRead(r)
    \/ InlineWrite(r)

Recompute == RecomputeRead \/ RecomputeWrite

Next ==
    \/ \E r \in Reqs : CallStarts(r) \/ CallGoesOn(r) \/ CallFails(r)
    \/ \E d \in Duplicates : FlagDuplicate(d)
    \/ \E u \in Users : VerifyIdentity(u)
    \/ Recompute
    \/ RecomputeFails
    \/ Crash

Spec == Init /\ [][Next]_vars

\* Node resumes every request whose await is over, and BullMQ runs the jobs.
Fairness ==
    /\ \A r \in Reqs : WF_vars(CallGoesOn(r))
    /\ WF_vars(Recompute)

FairSpec == Spec /\ Fairness

-----------------------------------------------------------------------------
(* What the code does not enforce and some properties need                 *)

\* A report is with one administrator at a time: resolveFraudReport does not lock
\* the row it has read.  Requests about other reports, and every other request, run
\* at any time.
OneVerdictPerReport ==
    \A r, q \in Reqs :
        /\ call[r].pc \in {"resolve", "commit"}
        /\ call[q].pc \in {"resolve", "commit"}
        /\ call[r].subject = call[q].subject
        => r = q

\* Nobody reads the events of a user while somebody else has read them and has
\* yet to write the score: neither getTrustScore nor the worker waits for the
\* other.
OneScorePerUser ==
    /\ \A r, q \in Reqs :
          /\ call[r].pc = "inlineWrite"
          /\ call[q].pc = "inlineWrite"
          /\ call[r].subject = call[q].subject
          => r = q
    /\ \A r \in Reqs : call[r].pc = "inlineWrite" => worker.user # call[r].subject

\* A step that loses no job: a request that has jobs to add does not fail, and a
\* recompute that fails had nothing to write, or is delivered again.
NoJobIsLost ==
    /\ \A r \in Reqs : CallFails(r) \/ Crash => call[r].todo = <<>>
    /\ RecomputeFails \/ (Crash /\ UNCHANGED queue) => worker = NoJob \/ RecomputeWrite

-----------------------------------------------------------------------------
(* Properties                                                              *)

Elements(s) == {s[i] : i \in 1..Len(s)}

\* How many events about c a score counts; one that was never computed, none.
Counts(s, c) == IF s = Null THEN 0 ELSE s[c]

Behind(u, c) == Counts(score[u], c) # events[u][c]

\* A job for u is in the queue, or a request is on its way to add one.
Awaited(u) ==
    \/ u \in Elements(queue)
    \/ \E r \in Reqs : u \in Elements(call[r].todo)

\* The score of u counts all events about c, or a recompute that will count
\* them is under way.
CatchesUp(u, c) ==
    Behind(u, c) => \/ Awaited(u)
                    \/ worker.user = u /\ worker.seen[c] = events[u][c]

\* README.md of the backend, lines 72-74: the score is "recomputed via a
\* background job on every new event".  This much holds while no job is lost
\* and a score has one writer at a time: an outcome or a confirmed duplicate
\* reaches the score of both parties, although the worker writes a score
\* computed from events it read earlier.
OutcomesReachTheScore ==
    \A u \in Users, c \in OutcomeCause \cup DuplicateCause : CatchesUp(u, c)

\* The same sentence for a confirmed fraud report, whose job is in the queue
\* before the event is committed.
PenaltiesReachTheScore ==
    \A u \in Users, c \in {"report"} \X Reports : CatchesUp(u, c)

\* And in time it does.
ScoresSettle ==
    \A u \in Users, c \in OutcomeCause \cup DuplicateCause :
        Behind(u, c) ~> ~Behind(u, c)

\* backend-documentry.md, lines 63-64: events are inserted, "the score is always
\* a recomputation".  A score never loses an event it has counted, as long as it
\* has one writer at a time: no recompute overtakes a later one.
ScoresNeverForget ==
    [][\A u \in Users, c \in Cause :
          Counts(score'[u], c) >= Counts(score[u], c)]_vars

\* A report that is CONFIRMED has cost the user it names a trust event and its
\* listing the market, even when two administrators resolve it at once: the
\* verdict is written in the transaction that does both.
ConfirmedReportsArePenalised ==
    \A p \in Reports : report[p].status = "CONFIRMED" =>
        /\ report[p].user # Null => events[report[p].user][<<"report", p>>] > 0
        /\ report[p].onListing => report[p].flagged

\* While no two administrators resolve one report at once a verdict counts
\* once, whatever fails and however the worker runs: a report costs the user it
\* names one event when it was confirmed and none otherwise.
VerdictsCountOnce ==
    \A p \in Reports, u \in Users :
        events[u][<<"report", p>>] =
            IF report[p].status = "CONFIRMED" /\ report[p].user = u THEN 1 ELSE 0

\* The ledgers of both parties say that b was completed.
RecordedAsCompleted(b) ==
    \A u \in {StudentOf[b], OwnerOf[b]} : events[u][<<"COMPLETED", b>>] > 0

\* reviews.service.ts:14: "Reviews are available only after a completed booking".  A
\* booking with a review has been completed, and the ledgers of both parties say so;
\* and only a review that an administrator has looked at counts, for the owner alone.
\* The event lasts, the status does not: a request that read BOOKED or HELD before
\* the completion may still write CANCELLED or BOOKED over it, or dispute it.
ReviewsAreEarned ==
    \A b \in Bookings :
        /\ review[b] # "NONE" => RecordedAsCompleted(b)
        /\ \A u \in Users : events[u][<<"review", b>>] > 0 =>
               review[b] \in {"APPROVED", "HIDDEN"} /\ u = OwnerOf[b]
=============================================================================
