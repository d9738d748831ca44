----------------------------- MODULE TrustProofs -----------------------------
(***************************************************************************)
(* Proofs about Trust, for any number of users, bookings, reports,         *)
(* duplicates and requests.                                                *)
(***************************************************************************)
EXTENDS TrustRefinement, SequenceTheorems, TLAPS

-----------------------------------------------------------------------------
(* Sequences of users, and the log                                         *)

LEMMA HeadAndTail ==
    ASSUME NEW s \in Seq(Users), s # <<>>
    PROVE  /\ Head(s) \in Users
           /\ Tail(s) \in Seq(Users)
           /\ Elements(s) = {Head(s)} \cup Elements(Tail(s))
<1>1. /\ Head(s) \in Users /\ Tail(s) \in Seq(Users)
      /\ Len(Tail(s)) = Len(s) - 1
      /\ \A i \in 1..Len(Tail(s)) : Tail(s)[i] = s[i + 1]
  BY HeadTailProperties
<1>2. Len(s) \in Nat \ {0} /\ Head(s) = s[1]
  BY EmptySeq, LenProperties
<1>3. Elements(s) \subseteq {Head(s)} \cup Elements(Tail(s))
  <2>1. ASSUME NEW i \in 1..Len(s), i # 1 PROVE s[i] \in Elements(Tail(s))
    <3>1. i - 1 \in 1..Len(Tail(s)) /\ Tail(s)[i - 1] = s[i]
      BY <1>1, <1>2, <2>1
    <3>2. QED
      BY <3>1 DEF Elements
  <2>2. QED
    BY <1>2, <2>1 DEF Elements
<1>4. {Head(s)} \cup Elements(Tail(s)) \subseteq Elements(s)
  BY <1>1, <1>2 DEF Elements
<1>5. QED
  BY <1>1, <1>3, <1>4

LEMMA Appended ==
    ASSUME NEW s \in Seq(Users), NEW u \in Users
    PROVE  /\ Append(s, u) \in Seq(Users)
           /\ Elements(Append(s, u)) = Elements(s) \cup {u}
<1>1. /\ Append(s, u) \in Seq(Users) /\ Len(Append(s, u)) = Len(s) + 1
      /\ \A i \in 1..Len(s) : Append(s, u)[i] = s[i]
      /\ Append(s, u)[Len(s) + 1] = u
      /\ Len(s) \in Nat
  BY AppendProperties, LenProperties
<1>2. \A i \in 1..Len(Append(s, u)) : i \in 1..Len(s) \/ i = Len(s) + 1
  BY <1>1
<1>3. 1..Len(s) \subseteq 1..Len(Append(s, u)) /\ Len(s) + 1 \in 1..Len(Append(s, u))
  BY <1>1
<1>4. QED
  BY <1>1, <1>2, <1>3 DEF Elements

LEMMA Prepended ==
    ASSUME NEW s \in Seq(Users), NEW u \in Users
    PROVE  /\ <<u>> \o s \in Seq(Users)
           /\ Elements(<<u>> \o s) = Elements(s) \cup {u}
<1>1. /\ <<u>> \o s \in Seq(Users) /\ Len(<<u>> \o s) = Len(s) + 1
      /\ (<<u>> \o s)[1] = u
      /\ \A i \in 1..Len(s) : (<<u>> \o s)[i + 1] = s[i]
      /\ Len(s) \in Nat
  BY ConcatProperties, LenProperties
<1>2. \A i \in 1..Len(<<u>> \o s) : i = 1 \/ \E j \in 1..Len(s) : i = j + 1
  <2>1. ASSUME NEW i \in 1..Len(<<u>> \o s), i # 1 PROVE i - 1 \in 1..Len(s) /\ i = (i - 1) + 1
    BY <1>1, <2>1
  <2>2. QED
    BY <2>1
<1>3. 1 \in 1..Len(<<u>> \o s) /\ \A j \in 1..Len(s) : j + 1 \in 1..Len(<<u>> \o s)
  BY <1>1
<1>4. Elements(<<u>> \o s) \subseteq Elements(s) \cup {u}
  BY <1>1, <1>2 DEF Elements
<1>5. u \in Elements(<<u>> \o s)
  BY <1>1, <1>3 DEF Elements
<1>6. ASSUME NEW v \in Elements(s) PROVE v \in Elements(<<u>> \o s)
  <2>1. PICK j \in 1..Len(s) : v = s[j]
    BY DEF Elements
  <2>2. j + 1 \in 1..Len(<<u>> \o s) /\ (<<u>> \o s)[j + 1] = v
    BY <1>1, <1>3, <2>1
  <2>3. QED
    BY <2>2 DEF Elements
<1>7. QED
  BY <1>1, <1>4, <1>5, <1>6

LEMMA OwnersType ==
    ASSUME NEW d \in Duplicates
    PROVE  OwnersToPenalise(d) \in Seq(Users) \ {<<>>}
<1>1. PICK u \in Users, v \in Users : OwnersOf[d] = <<u, v>>
  BY PartiesAssumption
<1>2. OwnersToPenalise(d) \in {<<u>>, <<u, v>>}
  BY <1>1 DEF OwnersToPenalise
<1>3. /\ <<u>> \in Seq(Users) /\ <<u>> # <<>>
      /\ <<u, v>> \in Seq(Users) /\ <<u, v>> # <<>>
  OBVIOUS
<1>4. QED
  BY <1>2, <1>3

LEMMA NobodyTodo == Elements(<<>>) = {}
BY DEF Elements

\* One event more, and nothing else.
LEMMA OneMore ==
    ASSUME NEW log \in [Users -> Tally], NEW u \in Users, NEW c \in Cause
    PROVE  /\ Recorded(log, u, c) \in [Users -> Tally]
           /\ \A v \in Users, d \in Cause :
                 Recorded(log, u, c)[v][d] =
                     IF v = u /\ d = c THEN log[v][d] + 1 ELSE log[v][d]
BY DEF Recorded, Tally

-----------------------------------------------------------------------------
(* Type correctness                                                        *)

\* The requests of each kind, as TypeOK describes them.
AtOutcome == [pc : {"writeOutcome"}, subject : Bookings, verdict : Outcome,
              todo : {<<>>}, seen : {Null}]
AtConfirm == [pc : {"writeBooked"}, subject : Bookings, verdict : {"BOOKED"},
              todo : {<<>>}, seen : {Null}]
AtCancel == [pc : {"writeCancelled"}, subject : Bookings, verdict : {"CANCELLED"},
             todo : {<<>>}, seen : {Null}]
AtJobs == [pc : {"queueJobs"}, subject : Bookings, verdict : {"BOOKED"} \cup Outcome,
           todo : Seq(Users) \ {<<>>}, seen : {Null}]
AtReporter == [pc : {"reporterEvent"}, subject : Reports, verdict : {Null},
               todo : {<<>>}, seen : {Null}]
AtReport == [pc : {"resolve", "commit"}, subject : Reports, verdict : Resolution,
             todo : {<<>>}, seen : {Null}]
AtDuplicate == [pc : {"resolveDuplicate"}, subject : Duplicates, verdict : Resolution,
                todo : {<<>>}, seen : {Null}]
AtPenalty == [pc : {"penalise", "queuePenalty"}, subject : Duplicates,
              verdict : Resolution, todo : Seq(Users) \ {<<>>}, seen : {Null}]
AtNewReview == [pc : {"writeReview"}, subject : Bookings, verdict : {"PENDING"},
                todo : {<<>>}, seen : {Null}]
AtReview == [pc : {"moderate", "reviewEvent"}, subject : Bookings,
             verdict : {"APPROVED", "HIDDEN"}, todo : {<<>>}, seen : {Null}]
AtScore == [pc : {"inlineRead"}, subject : Users, verdict : {Null},
            todo : {<<>>}, seen : {Null}]
AtScoreRead == [pc : {"inlineWrite"}, subject : Users, verdict : {Null},
                todo : {<<>>}, seen : Tally]

LEMMA Kinds ==
    Request = AtOutcome \cup AtConfirm \cup AtCancel \cup AtJobs \cup AtReporter
              \cup AtReport \cup AtDuplicate \cup AtPenalty \cup AtNewReview \cup AtReview
              \cup AtScore \cup AtScoreRead
BY DEF Request, AtOutcome, AtConfirm, AtCancel, AtJobs, AtReporter, AtReport, AtDuplicate,
       AtPenalty, AtNewReview, AtReview, AtScore, AtScoreRead

\* The await a request is at tells its kind.
LEMMA KindAt ==
    ASSUME TypeOK, NEW r \in Reqs
    PROVE  /\ call[r].pc = "writeOutcome" => call[r] \in AtOutcome
           /\ call[r].pc = "writeBooked" => call[r] \in AtConfirm
           /\ call[r].pc = "writeCancelled" => call[r] \in AtCancel
           /\ call[r].pc = "queueJobs" => call[r] \in AtJobs
           /\ call[r].pc = "reporterEvent" => call[r] \in AtReporter
           /\ call[r].pc \in {"resolve", "commit"} => call[r] \in AtReport
           /\ call[r].pc = "resolveDuplicate" => call[r] \in AtDuplicate
           /\ call[r].pc \in {"penalise", "queuePenalty"} => call[r] \in AtPenalty
           /\ call[r].pc = "writeReview" => call[r] \in AtNewReview
           /\ call[r].pc \in {"moderate", "reviewEvent"} => call[r] \in AtReview
           /\ call[r].pc = "inlineRead" => call[r] \in AtScore
           /\ call[r].pc = "inlineWrite" => call[r] \in AtScoreRead
           /\ call[r].pc = "idle" => call[r] = IdleCall
<1>1. call[r] \in Request \cup {IdleCall}
  BY DEF TypeOK
<1>2. IdleCall.pc = "idle"
  BY DEF IdleCall
<1>3. QED
  BY <1>1, <1>2, Kinds DEF AtOutcome, AtConfirm, AtCancel, AtJobs, AtReporter, AtReport,
         AtDuplicate, AtPenalty, AtNewReview, AtReview, AtScore, AtScoreRead

\* Only a request that has jobs to queue has users to do.
LEMMA TodoOf ==
    ASSUME TypeOK, NEW r \in Reqs
    PROVE  IF call[r].pc \in {"queueJobs", "penalise", "queuePenalty"}
           THEN call[r].todo \in Seq(Users) /\ call[r].todo # <<>>
           ELSE call[r].todo = <<>>
<1>1. call[r] \in Request \cup {IdleCall}
  BY DEF TypeOK
<1>2. IdleCall.pc = "idle" /\ IdleCall.todo = <<>>
  BY DEF IdleCall
<1>3. QED
  BY <1>1, <1>2, Kinds DEF AtOutcome, AtConfirm, AtCancel, AtJobs, AtReporter, AtReport,
         AtDuplicate, AtPenalty, AtNewReview, AtReview, AtScore, AtScoreRead

LEMMA CallType ==
    ASSUME TypeOK, NEW r \in Reqs, NEW next \in Request \cup {IdleCall},
           call' = [call EXCEPT ![r] = next]
    PROVE  call' \in [Reqs -> Request \cup {IdleCall}]
BY DEF TypeOK

LEMMA AnswerType ==
    ASSUME TypeOK, NEW r \in Reqs, Answer(r)
    PROVE  call' \in [Reqs -> Request \cup {IdleCall}]
BY DEF TypeOK, Answer

\* Every row that can be an event's cause is a cause.
LEMMA Causes ==
    /\ \A b \in Bookings : /\ <<"review", b>> \in Cause
                           /\ \A o \in Outcome : <<o, b>> \in Cause
    /\ \A p \in Reports : <<"report", p>> \in Cause /\ <<"reporter", p>> \in Cause
    /\ \A d \in Duplicates : <<"duplicate", d>> \in Cause
    /\ \A u \in Users : <<"identity", u>> \in Cause
BY DEF Cause, OutcomeCause, ReviewCause, ReportCause, DuplicateCause, IdentityCause

\* The log changes by one or two events about users, or not at all.
LEMMA LogType ==
    ASSUME TypeOK, NEW u \in Users, NEW c \in Cause, events' = Recorded(events, u, c)
    PROVE  events' \in [Users -> Tally]
BY OneMore DEF TypeOK

\* A request at a report is at one that was filed.
RowsExist ==
    \A r \in Reqs : call[r].pc \in {"reporterEvent", "resolve", "commit"} =>
        report[call[r].subject].status # "NONE"

LEMMA RowAt ==
    ASSUME TypeOK, RowsExist, NEW r \in Reqs,
           call[r].pc \in {"reporterEvent", "resolve", "commit"}
    PROVE  /\ call[r].subject \in Reports
           /\ report[call[r].subject] \in ReportRow
<1>1. call[r] \in AtReporter \cup AtReport
  BY KindAt
<1>2. call[r].subject \in Reports
  BY <1>1 DEF AtReporter, AtReport
<1>3. report[call[r].subject].status # "NONE"
  BY DEF RowsExist
<1>4. QED
  BY <1>2, <1>3 DEF TypeOK, NoReport

LEMMA StartsType ==
    ASSUME TypeOK, NEW r \in Reqs, CallStarts(r)
    PROVE  TypeOK'
<1> USE DEF TypeOK
<1>1. ASSUME NEW op, NEW pc, NEW x, NEW v, Start(r, op, pc, x, v),
             [pc |-> pc, subject |-> x, verdict |-> v, todo |-> <<>>, seen |-> Null] \in Request,
             UNCHANGED <<booking, review, report, duplicate, events, score, queue, worker>>
      PROVE  TypeOK'
  BY <1>1, CallType DEF Start
<1>2. ASSUME NEW b \in Bookings, NEW o \in Outcome, OutcomeRead(r, b, o) PROVE TypeOK'
  BY <1>1, <1>2, Kinds DEF OutcomeRead, AtOutcome
<1>confirm. ASSUME NEW b \in Bookings, ConfirmRead(r, b) PROVE TypeOK'
  BY <1>1, <1>confirm, Kinds DEF ConfirmRead, AtConfirm
<1>cancel. ASSUME NEW b \in Bookings, CancelRead(r, b) PROVE TypeOK'
  BY <1>1, <1>cancel, Kinds DEF CancelRead, AtCancel
<1>3. ASSUME NEW p \in Reports, NEW u \in Reporters, NEW t \in Suspects \cup {Null},
             NEW onListing \in BOOLEAN, ReportFraud(r, p, u, t, onListing)
      PROVE  TypeOK'
  <2>1. [pc |-> "reporterEvent", subject |-> p, verdict |-> Null,
         todo |-> <<>>, seen |-> Null] \in Request
    BY Kinds DEF AtReporter
  <2>2. call' \in [Reqs -> Request \cup {IdleCall}]
    BY <1>3, <2>1, CallType DEF ReportFraud, Start
  <2>3. u \in Users /\ t \in Users \cup {Null}
    BY PartiesAssumption
  <2>4. report' \in [Reports -> ReportRow \cup {NoReport}]
    BY <1>3, <2>3 DEF ReportFraud, ReportRow, ReportStatus
  <2>5. QED
    BY <1>3, <2>2, <2>4 DEF ReportFraud
<1>4. ASSUME NEW p \in Reports, NEW v \in Resolution, ResolveRead(r, p, v) PROVE TypeOK'
  BY <1>1, <1>4, Kinds DEF ResolveRead, AtReport
<1>5. ASSUME NEW d \in Duplicates, NEW v \in Resolution, DuplicateRead(r, d, v) PROVE TypeOK'
  BY <1>1, <1>5, Kinds DEF DuplicateRead, AtDuplicate
<1>6. ASSUME NEW b \in Bookings, CreateReviewRead(r, b) PROVE TypeOK'
  BY <1>1, <1>6, Kinds DEF CreateReviewRead, AtNewReview
<1>7. ASSUME NEW b \in Bookings, NEW v \in {"APPROVED", "HIDDEN"}, ModerateRead(r, b, v)
      PROVE  TypeOK'
  BY <1>1, <1>7, Kinds DEF ModerateRead, AtReview
<1>8. ASSUME NEW u \in Users, GetScore(r, u) PROVE TypeOK'
  BY <1>1, <1>8, Kinds DEF GetScore, AtScore
<1>9. QED
  BY <1>confirm, <1>cancel, <1>2, <1>3, <1>4, <1>5, <1>6, <1>7, <1>8 DEF CallStarts

LEMMA GoesOnType ==
    ASSUME TypeOK, RowsExist, NEW r \in Reqs, CallGoesOn(r)
    PROVE  TypeOK'
<1> USE PartiesAssumption DEF TypeOK
<1>1. CASE OutcomeWrite(r)
  <2>1. call[r] \in AtOutcome
    BY <1>1, KindAt DEF OutcomeWrite
  <2> DEFINE b == call[r].subject
             c == <<call[r].verdict, b>>
             once == Recorded(events, StudentOf[b], c)
  <2>2. /\ b \in Bookings /\ c \in Cause /\ call[r].verdict \in Outcome
        /\ StudentOf[b] \in Users /\ OwnerOf[b] \in Users
    BY <2>1, Causes DEF AtOutcome
  <2>3. once \in [Users -> Tally]
    BY <2>2, OneMore
  <2>4. events' \in [Users -> Tally]
    <3>1. events' = Recorded(once, OwnerOf[b], c)
      BY <1>1 DEF OutcomeWrite
    <3>2. QED
      BY <2>2, <2>3, <3>1, OneMore
  <2>5. <<OwnerOf[b], StudentOf[b]>> \in Seq(Users) \ {<<>>}
    BY <2>2
  <2>6. [call[r] EXCEPT !.pc = "queueJobs", !.todo = <<OwnerOf[b], StudentOf[b]>>] \in Request
    BY <2>1, <2>5, Kinds DEF AtOutcome, AtJobs
  <2>7. call' \in [Reqs -> Request \cup {IdleCall}]
    BY <1>1, <2>6 DEF OutcomeWrite, WillQueue
  <2>8. booking' \in [Bookings -> BookingStatus]
    BY <1>1, <2>2 DEF OutcomeWrite, BookingStatus
  <2>9. QED
    BY <1>1, <2>4, <2>7, <2>8 DEF OutcomeWrite
<1>confirm. CASE ConfirmWrite(r)
  <2>1. call[r] \in AtConfirm
    BY <1>confirm, KindAt DEF ConfirmWrite
  <2> DEFINE b == call[r].subject
  <2>2. b \in Bookings /\ <<StudentOf[b], OwnerOf[b]>> \in Seq(Users) \ {<<>>}
    BY <2>1 DEF AtConfirm
  <2>3. [call[r] EXCEPT !.pc = "queueJobs", !.todo = <<StudentOf[b], OwnerOf[b]>>] \in Request
    BY <2>1, <2>2, Kinds DEF AtConfirm, AtJobs
  <2>4. call' \in [Reqs -> Request \cup {IdleCall}]
    BY <1>confirm, <2>3 DEF ConfirmWrite, WillQueue
  <2>5. booking' \in [Bookings -> BookingStatus]
    BY <1>confirm, <2>2 DEF ConfirmWrite, BookingStatus
  <2>6. QED
    BY <1>confirm, <2>4, <2>5 DEF ConfirmWrite
<1>cancel. CASE CancelWrite(r)
  <2>1. booking' \in [Bookings -> BookingStatus]
    BY <1>cancel DEF CancelWrite, BookingStatus
  <2>2. QED
    BY <1>cancel, <2>1, AnswerType DEF CancelWrite
<1>2. CASE QueueJob(r)
  <2>1. call[r] \in AtJobs \cup AtPenalty
    BY <1>2, KindAt DEF QueueJob
  <2> DEFINE todo == call[r].todo
  <2>2. todo \in Seq(Users) /\ todo # <<>>
    BY <2>1 DEF AtJobs, AtPenalty
  <2>3. Head(todo) \in Users /\ Tail(todo) \in Seq(Users)
    BY <2>2, HeadAndTail
  <2>4. queue' \in Seq(Users)
    BY <1>2, <2>3, Appended DEF QueueJob
  <2>5. call' \in [Reqs -> Request \cup {IdleCall}]
    <3>1. CASE Tail(todo) = <<>>
      BY <1>2, <3>1, AnswerType DEF QueueJob
    <3>2. CASE Tail(todo) # <<>>
      <4>1. CASE call[r].pc = "queueJobs"
        <5>1. call[r] \in AtJobs
          BY <4>1, KindAt
        <5>2. [call[r] EXCEPT !.pc = "queueJobs", !.todo = Tail(todo)] \in Request
          BY <2>3, <3>2, <5>1, Kinds DEF AtJobs
        <5>3. QED
          BY <1>2, <3>2, <4>1, <5>2 DEF QueueJob, WillQueue
      <4>2. CASE call[r].pc # "queueJobs"
        <5>1. call[r] \in AtPenalty
          BY <1>2, <4>2, KindAt DEF QueueJob
        <5>2. [call[r] EXCEPT !.pc = "penalise", !.todo = Tail(todo)] \in Request
          BY <2>3, <3>2, <5>1, Kinds DEF AtPenalty
        <5>3. QED
          BY <1>2, <3>2, <4>2, <5>2 DEF QueueJob, WillQueue
      <4>3. QED
        BY <4>1, <4>2
    <3>3. QED
      BY <3>1, <3>2
  <2>6. QED
    BY <1>2, <2>4, <2>5 DEF QueueJob
<1>3. CASE ReporterEvent(r)
  <2>1. call[r] \in AtReporter
    BY <1>3, KindAt DEF ReporterEvent
  <2>2. call[r].subject \in Reports /\ report[call[r].subject] \in ReportRow \cup {NoReport}
    BY <2>1 DEF AtReporter
  <2>3. CASE report[call[r].subject].reporter \in Users
    <3>1. events' \in [Users -> Tally]
      BY <1>3, <2>2, <2>3, Causes, LogType DEF ReporterEvent
    <3>2. QED
      BY <1>3, <3>1, AnswerType DEF ReporterEvent
  <2>4. CASE report[call[r].subject].reporter \notin Users
    <3>1. events' = events
      BY <1>3, <2>4 DEF ReporterEvent, Recorded
    <3>2. QED
      BY <1>3, <3>1, AnswerType DEF ReporterEvent
  <2>5. QED
    BY <2>3, <2>4
<1>4. CASE ResolveQueue(r)
  <2>1. call[r] \in AtReport
    BY <1>4, KindAt DEF ResolveQueue
  <2>2. report[call[r].subject] \in ReportRow \cup {NoReport}
    BY <2>1 DEF AtReport
  <2>3. report[call[r].subject].user \in Users
    BY <1>4, <2>2 DEF ResolveQueue, Penalises, ReportRow, NoReport
  <2>4. queue' \in Seq(Users)
    BY <1>4, <2>3, Appended DEF ResolveQueue
  <2>5. [call[r] EXCEPT !.pc = "commit"] \in Request
    BY <2>1, Kinds DEF AtReport
  <2>6. call' \in [Reqs -> Request \cup {IdleCall}]
    BY <1>4, <2>5 DEF ResolveQueue, GoTo
  <2>7. QED
    BY <1>4, <2>4, <2>6 DEF ResolveQueue
<1>5. CASE ResolveCommit(r)
  <2>1. call[r] \in AtReport
    BY <1>5, KindAt DEF ResolveCommit
  <2> DEFINE p == call[r].subject
  <2>2. p \in Reports /\ report[p] \in ReportRow \cup {NoReport} /\ call[r].verdict \in Resolution
    BY <2>1 DEF AtReport
  <2>3. events' \in [Users -> Tally]
    <3>1. CASE Penalises(r)
      <4>1. report[p].user \in Users
        BY <2>2, <3>1 DEF Penalises, ReportRow, NoReport
      <4>2. QED
        BY <1>5, <2>2, <3>1, <4>1, Causes, LogType DEF ResolveCommit
    <3>2. CASE ~Penalises(r)
      BY <1>5, <3>2 DEF ResolveCommit
    <3>3. QED
      BY <3>1, <3>2
  <2>4. call' \in [Reqs -> Request \cup {IdleCall}]
    BY <1>5, AnswerType DEF ResolveCommit
  <2>5. report[p] \in ReportRow
    BY <1>5, RowAt DEF ResolveCommit
  <2>6. report' \in [Reports -> ReportRow \cup {NoReport}]
    BY <1>5, <2>2, <2>5 DEF ResolveCommit, ReportRow, ReportStatus
  <2>7. QED
    BY <1>5, <2>3, <2>4, <2>6 DEF ResolveCommit
<1>6. CASE DuplicateWrite(r)
  <2>1. call[r] \in AtDuplicate
    BY <1>6, KindAt DEF DuplicateWrite
  <2> DEFINE d == call[r].subject
  <2>2. d \in Duplicates /\ call[r].verdict \in Resolution
    BY <2>1 DEF AtDuplicate
  <2>3. OwnersToPenalise(d) \in Seq(Users) \ {<<>>}
    BY <2>2, OwnersType
  <2>4. [call[r] EXCEPT !.pc = "penalise", !.todo = OwnersToPenalise(d)] \in Request
    BY <2>1, <2>3, Kinds DEF AtDuplicate, AtPenalty
  <2>5. call' \in [Reqs -> Request \cup {IdleCall}]
    <3>1. CASE call[r].verdict = "CONFIRMED"
      BY <1>6, <2>4, <3>1 DEF DuplicateWrite, WillQueue
    <3>2. CASE call[r].verdict # "CONFIRMED"
      BY <1>6, <3>2, AnswerType DEF DuplicateWrite
    <3>3. QED
      BY <3>1, <3>2
  <2>6. duplicate' \in [Duplicates -> {"NONE"} \cup ReportStatus]
    BY <1>6, <2>2 DEF DuplicateWrite, ReportStatus
  <2>7. QED
    BY <1>6, <2>5, <2>6 DEF DuplicateWrite
<1>7. CASE Penalise(r)
  <2>1. call[r] \in AtPenalty
    BY <1>7, KindAt DEF Penalise
  <2>2. call[r].subject \in Duplicates /\ Head(call[r].todo) \in Users
    BY <2>1, HeadAndTail DEF AtPenalty
  <2>3. events' \in [Users -> Tally]
    BY <1>7, <2>2, Causes, LogType DEF Penalise
  <2>4. [call[r] EXCEPT !.pc = "queuePenalty"] \in Request
    BY <2>1, Kinds DEF AtPenalty
  <2>5. call' \in [Reqs -> Request \cup {IdleCall}]
    BY <1>7, <2>4 DEF Penalise, GoTo
  <2>6. QED
    BY <1>7, <2>3, <2>5 DEF Penalise
<1>8. CASE CreateReviewWrite(r)
  BY <1>8, AnswerType DEF CreateReviewWrite, ReviewStatus
<1>9. CASE ModerateWrite(r)
  <2>1. call[r] \in AtReview
    BY <1>9, KindAt DEF ModerateWrite
  <2>2. [call[r] EXCEPT !.pc = "reviewEvent"] \in Request
    BY <2>1, Kinds DEF AtReview
  <2>3. call' \in [Reqs -> Request \cup {IdleCall}]
    BY <1>9, <2>2, AnswerType DEF ModerateWrite, GoTo
  <2>4. review' \in [Bookings -> {"NONE"} \cup ReviewStatus]
    BY <1>9, <2>1 DEF ModerateWrite, AtReview, ReviewStatus
  <2>5. QED
    BY <1>9, <2>3, <2>4 DEF ModerateWrite
<1>10. CASE ReviewEvent(r)
  <2>1. call[r] \in AtReview
    BY <1>10, KindAt DEF ReviewEvent
  <2>2. call[r].subject \in Bookings /\ OwnerOf[call[r].subject] \in Users
    BY <2>1 DEF AtReview
  <2>3. events' \in [Users -> Tally]
    BY <1>10, <2>2, Causes, LogType DEF ReviewEvent
  <2>4. QED
    BY <1>10, <2>3, AnswerType DEF ReviewEvent
<1>11. CASE InlineRead(r)
  <2>1. call[r] \in AtScore /\ events[call[r].subject] \in Tally
    BY <1>11, KindAt DEF InlineRead, AtScore
  <2>2. [call[r] EXCEPT !.pc = "inlineWrite", !.seen = events[call[r].subject]] \in Request
    BY <2>1, Kinds DEF AtScore, AtScoreRead
  <2>3. call' \in [Reqs -> Request \cup {IdleCall}]
    BY <1>11, <2>2 DEF InlineRead
  <2>4. QED
    BY <1>11, <2>3 DEF InlineRead
<1>12. CASE InlineWrite(r)
  <2>1. call[r] \in AtScoreRead
    BY <1>12, KindAt DEF InlineWrite
  <2>2. score' \in [Users -> Tally \cup {Null}]
    BY <1>12, <2>1 DEF InlineWrite, AtScoreRead
  <2>3. QED
    BY <1>12, <2>2, AnswerType DEF InlineWrite
<1>13. QED
  BY <1>confirm, <1>cancel, <1>1, <1>2, <1>3, <1>4, <1>5, <1>6, <1>7, <1>8, <1>9,
     <1>10, <1>11, <1>12 DEF CallGoesOn

LEMMA TypeStep ==
    ASSUME TypeOK, RowsExist, [Next]_vars
    PROVE  TypeOK'
<1>1. CASE UNCHANGED vars
  BY <1>1 DEF vars, TypeOK
<1>2. ASSUME NEW r \in Reqs, CallFails(r) PROVE TypeOK'
  BY <1>2, AnswerType DEF CallFails, TypeOK
<1>3. ASSUME NEW d \in Duplicates, FlagDuplicate(d) PROVE TypeOK'
  BY <1>3 DEF FlagDuplicate, TypeOK, ReportStatus
<1>4. ASSUME NEW u \in Users, VerifyIdentity(u) PROVE TypeOK'
  <2>1. events' \in [Users -> Tally]
    BY <1>4, Causes, LogType DEF VerifyIdentity
  <2>2. QED
    BY <1>4, <2>1 DEF VerifyIdentity, TypeOK
<1>5. CASE RecomputeRead
  <2>1. queue \in Seq(Users) /\ queue # <<>>
    BY <1>5 DEF RecomputeRead, TypeOK
  <2>2. Head(queue) \in Users /\ Tail(queue) \in Seq(Users)
    BY <2>1, HeadAndTail
  <2>3. worker' \in [user : Users, seen : Tally]
    BY <1>5, <2>2 DEF RecomputeRead, TypeOK
  <2>4. QED
    BY <1>5, <2>2, <2>3 DEF RecomputeRead, TypeOK
<1>6. CASE RecomputeWrite
  <2>1. worker \in [user : Users, seen : Tally]
    BY <1>6 DEF RecomputeWrite, TypeOK
  <2>2. QED
    BY <1>6, <2>1 DEF RecomputeWrite, TypeOK
<1>7. CASE RecomputeFails
  BY <1>7 DEF RecomputeFails, TypeOK
<1>8. CASE Crash
  <2>1. queue' \in Seq(Users)
    <3>1. CASE UNCHANGED queue
      BY <3>1 DEF TypeOK
    <3>2. CASE worker # NoJob /\ queue' = <<worker.user>> \o queue
      <4>1. worker.user \in Users
        BY <3>2 DEF TypeOK
      <4>2. QED
        BY <3>2, <4>1, Prepended DEF TypeOK
    <3>3. QED
      BY <1>8, <3>1, <3>2 DEF Crash
  <2>2. QED
    BY <1>8, <2>1 DEF Crash, TypeOK
<1>9. QED
  BY <1>1, <1>2, <1>3, <1>4, <1>5, <1>6, <1>7, <1>8, StartsType, GoesOnType
     DEF Next, Recompute

-----------------------------------------------------------------------------
(* The rows of fraud_reports                                               *)

\* Two steps write reports.
LEMMA ReportSteps ==
    ASSUME [Next]_vars
    PROVE  \/ UNCHANGED report
           \/ \E r \in Reqs, q \in Reports, u \in Reporters, t \in Suspects \cup {Null},
                onListing \in BOOLEAN : ReportFraud(r, q, u, t, onListing)
           \/ \E r \in Reqs : ResolveCommit(r)
<1>1. ASSUME NEW r \in Reqs, CallStarts(r)
      PROVE  \/ UNCHANGED report
             \/ \E q \in Reports, u \in Reporters, t \in Suspects \cup {Null},
                  onListing \in BOOLEAN : ReportFraud(r, q, u, t, onListing)
  BY <1>1 DEF CallStarts, ConfirmRead, CancelRead, OutcomeRead, ResolveRead, DuplicateRead,
     CreateReviewRead,
              ModerateRead, GetScore
<1>2. ASSUME NEW r \in Reqs, CallGoesOn(r)
      PROVE  UNCHANGED report \/ ResolveCommit(r)
  BY <1>2 DEF CallGoesOn, ConfirmWrite, CancelWrite, OutcomeWrite, QueueJob, ReporterEvent,
     ResolveQueue,
              DuplicateWrite, Penalise, CreateReviewWrite, ModerateWrite, ReviewEvent,
              InlineRead, InlineWrite
<1>3. \/ UNCHANGED report
      \/ \E r \in Reqs : CallStarts(r) \/ CallGoesOn(r)
  BY DEF Next, vars, CallFails, FlagDuplicate, VerifyIdentity, Recompute,
         RecomputeRead, RecomputeWrite, RecomputeFails, Crash
<1>4. QED
  BY <1>1, <1>2, <1>3

\* No step takes a report back, or changes what it says but its verdict.
LEMMA RowsStay ==
    ASSUME TypeOK, RowsExist, [Next]_vars, NEW p \in Reports, report[p].status # "NONE"
    PROVE  /\ report'[p].status # "NONE"
           /\ report'[p].user = report[p].user
           /\ report'[p].onListing = report[p].onListing
           /\ report[p].flagged => report'[p].flagged
<1>1. report[p] \in ReportRow
  BY DEF TypeOK, NoReport
<1>2. CASE UNCHANGED report
  BY <1>2
<1>3. ASSUME NEW r \in Reqs, NEW q \in Reports, NEW u \in Reporters,
             NEW t \in Suspects \cup {Null}, NEW onListing \in BOOLEAN,
             ReportFraud(r, q, u, t, onListing)
      PROVE  report'[p] = report[p]
  BY <1>3 DEF ReportFraud, TypeOK
<1>4. ASSUME NEW r \in Reqs, ResolveCommit(r)
      PROVE  /\ report'[p].status # "NONE"
             /\ report'[p].user = report[p].user
             /\ report'[p].onListing = report[p].onListing
             /\ report[p].flagged => report'[p].flagged
  <2>1. call[r] \in AtReport
    BY <1>4, KindAt DEF ResolveCommit
  <2>2. call[r].verdict \in Resolution
    BY <2>1 DEF AtReport
  <2>3. CASE call[r].subject = p
    BY <1>1, <1>4, <2>2, <2>3 DEF ResolveCommit, TypeOK, ReportRow, Resolution
  <2>4. CASE call[r].subject # p
    BY <1>4, <2>4 DEF ResolveCommit, TypeOK
  <2>5. QED
    BY <2>3, <2>4
<1>5. QED
  BY <1>2, <1>3, <1>4, ReportSteps

\* What r goes on with is all that WillQueue changes.
LEMMA CallsMoveOn ==
    ASSUME TypeOK, NEW r \in Reqs, NEW pc, NEW users, WillQueue(r, pc, users), NEW q \in Reqs
    PROVE  IF q = r THEN call'[q].pc = pc /\ call'[q].todo = users
                    ELSE call'[q] = call[q]
<1>1. call[r] \in Request \cup {IdleCall}
  BY DEF TypeOK
<1>2. CASE q = r
  <2>1. call'[r] = [call[r] EXCEPT !.pc = pc, !.todo = users]
    BY DEF WillQueue, TypeOK
  <2>2. QED
    BY <1>1, <1>2, <2>1 DEF Request, IdleCall
<1>3. CASE q # r
  BY <1>3 DEF WillQueue, TypeOK
<1>4. QED
  BY <1>2, <1>3

\* A request comes to a report where it is filed, or where it is found pending.
LEMMA CallsMove ==
    ASSUME TypeOK, RowsExist, [Next]_vars, NEW q \in Reqs,
           call'[q].pc \in {"reporterEvent", "resolve", "commit"}
    PROVE  \/ /\ call[q].pc \in {"reporterEvent", "resolve", "commit"}
              /\ call'[q].pc = call[q].pc \/ call[q].pc = "resolve"
              /\ call'[q].subject = call[q].subject
           \/ report'[call'[q].subject].status = "PENDING"
<1> DEFINE AtRow(c) == c.pc \in {"reporterEvent", "resolve", "commit"}
<1>1. CASE call'[q] = call[q]
  BY <1>1
<1>2. ASSUME NEW r \in Reqs, CallStarts(r)
      PROVE  call'[q] = call[q] \/ report'[call'[q].subject].status = "PENDING"
  <2>1. ASSUME NEW op, NEW pc, NEW x, NEW v, Start(r, op, pc, x, v),
               pc \notin {"reporterEvent", "resolve", "commit"}
        PROVE  call'[q] = call[q]
    BY <2>1 DEF Start, TypeOK
  <2>2. ASSUME NEW p \in Reports, NEW u \in Reporters, NEW t \in Suspects \cup {Null},
               NEW onListing \in BOOLEAN, ReportFraud(r, p, u, t, onListing)
        PROVE  call'[q] = call[q] \/ report'[call'[q].subject].status = "PENDING"
    BY <2>2 DEF ReportFraud, Start, TypeOK
  <2>3. ASSUME NEW p \in Reports, NEW v \in Resolution, ResolveRead(r, p, v)
        PROVE  call'[q] = call[q] \/ report'[call'[q].subject].status = "PENDING"
    BY <2>3 DEF ResolveRead, Start, TypeOK
  <2>4. ASSUME NEW b, NEW v, OutcomeRead(r, b, v) PROVE call'[q] = call[q]
    BY <2>1, <2>4 DEF OutcomeRead
  <2>confirm. ASSUME NEW b, ConfirmRead(r, b) PROVE call'[q] = call[q]
    BY <2>1, <2>confirm DEF ConfirmRead
  <2>cancel. ASSUME NEW b, CancelRead(r, b) PROVE call'[q] = call[q]
    BY <2>1, <2>cancel DEF CancelRead
  <2>5. ASSUME NEW d, NEW v, DuplicateRead(r, d, v) PROVE call'[q] = call[q]
    BY <2>1, <2>5 DEF DuplicateRead
  <2>6. ASSUME NEW b, CreateReviewRead(r, b) PROVE call'[q] = call[q]
    BY <2>1, <2>6 DEF CreateReviewRead
  <2>7. ASSUME NEW b, NEW v, ModerateRead(r, b, v) PROVE call'[q] = call[q]
    BY <2>1, <2>7 DEF ModerateRead
  <2>8. ASSUME NEW u, GetScore(r, u) PROVE call'[q] = call[q]
    BY <2>1, <2>8 DEF GetScore
  <2>9. QED
    BY <1>2, <2>confirm, <2>cancel, <2>2, <2>3, <2>4, <2>5, <2>6, <2>7, <2>8 DEF CallStarts
<1>3. ASSUME NEW r \in Reqs, Answer(r) PROVE call'[q] = call[q]
  BY <1>3 DEF Answer, IdleCall, TypeOK
<1>4. ASSUME NEW r \in Reqs, CallGoesOn(r)
      PROVE  \/ call'[q] = call[q]
             \/ call[q].pc = "resolve" /\ call'[q].subject = call[q].subject
  <2>1. ASSUME NEW next, call' = [call EXCEPT ![r] = next], ~AtRow(next)
        PROVE  call'[q] = call[q]
    BY <2>1 DEF TypeOK
  <2>2. call[r] \in Request \cup {IdleCall}
    BY DEF TypeOK
  <2>3. ASSUME NEW pc, NEW users,
               pc \notin {"reporterEvent", "resolve", "commit"}
        PROVE  /\ ~AtRow([call[r] EXCEPT !.pc = pc, !.todo = users])
               /\ ~AtRow([call[r] EXCEPT !.pc = pc, !.seen = users])
               /\ ~AtRow([call[r] EXCEPT !.pc = pc])
    BY <2>2, <2>3 DEF Request, IdleCall
  <2>4. CASE ResolveQueue(r)
    <3>1. call[r] \in AtReport
      BY <2>4, KindAt DEF ResolveQueue
    <3>2. [call[r] EXCEPT !.pc = "commit"].subject = call[r].subject
      BY <3>1 DEF AtReport
    <3>3. QED
      BY <2>4, <3>2 DEF ResolveQueue, GoTo, TypeOK
  <2>5. CASE OutcomeWrite(r)
    BY <2>1, <2>3, <2>5 DEF OutcomeWrite, WillQueue
  <2>confirm. CASE ConfirmWrite(r)
    BY <2>1, <2>3, <2>confirm DEF ConfirmWrite, WillQueue
  <2>6. CASE QueueJob(r)
    <3>1. Answer(r) \/ \E pc \in {"queueJobs", "penalise"} : WillQueue(r, pc, Tail(call[r].todo))
      BY <2>6 DEF QueueJob
    <3>2. ASSUME NEW pc \in {"queueJobs", "penalise"}, WillQueue(r, pc, Tail(call[r].todo))
          PROVE  call'[q] = call[q]
      BY <2>2, <3>2, CallsMoveOn DEF TypeOK
    <3>3. QED
      BY <1>3, <3>1, <3>2
  <2>7. CASE DuplicateWrite(r)
    <3>1. Answer(r) \/ WillQueue(r, "penalise", OwnersToPenalise(call[r].subject))
      BY <2>7 DEF DuplicateWrite
    <3>2. ASSUME WillQueue(r, "penalise", OwnersToPenalise(call[r].subject))
          PROVE  call'[q] = call[q]
      BY <2>2, <3>2, CallsMoveOn DEF TypeOK
    <3>3. QED
      BY <1>3, <3>1, <3>2
  <2>8. CASE Penalise(r)
    BY <2>1, <2>3, <2>8 DEF Penalise, GoTo
  <2>9. CASE ModerateWrite(r)
    BY <1>3, <2>1, <2>3, <2>9 DEF ModerateWrite, GoTo
  <2>10. CASE InlineRead(r)
    BY <2>1, <2>3, <2>10 DEF InlineRead
  <2>11. QED
    BY <1>3, <1>4, <2>confirm, <2>4, <2>5, <2>6, <2>7, <2>8, <2>9, <2>10 DEF CallGoesOn,
       CancelWrite, ReporterEvent, ResolveCommit, CreateReviewWrite, ReviewEvent, InlineWrite
<1>5. \/ call' = call
      \/ \E r \in Reqs : CallStarts(r) \/ CallGoesOn(r) \/ Answer(r)
      \/ call'[q] = IdleCall
  BY DEF Next, vars, CallFails, FlagDuplicate, VerifyIdentity, Recompute,
         RecomputeRead, RecomputeWrite, RecomputeFails, Crash
<1>6. QED
  BY <1>1, <1>2, <1>3, <1>4, <1>5 DEF IdleCall

LEMMA RowsStep ==
    ASSUME TypeOK, RowsExist, [Next]_vars
    PROVE  RowsExist'
<1> SUFFICES ASSUME NEW q \in Reqs,
                    call'[q].pc \in {"reporterEvent", "resolve", "commit"}
             PROVE  report'[call'[q].subject].status # "NONE"
  BY DEF RowsExist
<1>1. CASE /\ call[q].pc \in {"reporterEvent", "resolve", "commit"}
           /\ call'[q].subject = call[q].subject
  <2>1. call[q].subject \in Reports /\ report[call[q].subject].status # "NONE"
    BY <1>1, RowAt DEF RowsExist
  <2>2. QED
    BY <1>1, <2>1, RowsStay
<1>2. QED
  BY <1>1, CallsMove

Base == TypeOK /\ RowsExist

LEMMA BaseHolds == Spec => []Base
<1>1. Init => Base
  <2>1. <<>> \in Seq(Users)
    OBVIOUS
  <2>2. Init => TypeOK
    BY <2>1 DEF Init, TypeOK, Tally, BookingStatus
  <2>3. Init => RowsExist
    BY DEF Init, RowsExist, IdleCall
  <2>4. QED
    BY <2>2, <2>3 DEF Base
<1>2. Base /\ [Next]_vars => Base'
  BY TypeStep, RowsStep DEF Base
<1>3. QED
  BY <1>1, <1>2, PTL DEF Spec

\* Every variable keeps its type, whatever overlaps and whatever fails: trust.service,
\* fraud.service, reviews.service and the recompute worker.
THEOREM TypeCorrect == Spec => []TypeOK
<1>1. Base => TypeOK
  BY DEF Base
<1>2. QED
  BY <1>1, BaseHolds, PTL

-----------------------------------------------------------------------------
(* Verdicts                                                                *)

\* Six steps record events.
LEMMA LogSteps ==
    ASSUME [Next]_vars
    PROVE  \/ UNCHANGED events
           \/ \E r \in Reqs : \/ OutcomeWrite(r) \/ ReporterEvent(r) \/ ResolveCommit(r)
                              \/ Penalise(r) \/ ReviewEvent(r)
           \/ \E v \in Users : VerifyIdentity(v)
BY DEF Next, vars, CallFails, FlagDuplicate, Recompute, RecomputeRead, RecomputeWrite,
       RecomputeFails, Crash, CallStarts, ConfirmRead, CancelRead, OutcomeRead, ReportFraud,
       ResolveRead,
       DuplicateRead, CreateReviewRead, ModerateRead, GetScore, CallGoesOn, ConfirmWrite,
       CancelWrite, QueueJob,
       ResolveQueue, DuplicateWrite, CreateReviewWrite, ModerateWrite, InlineRead,
       InlineWrite

LEMMA OneMoreGrows ==
    ASSUME NEW log \in [Users -> Tally], NEW u \in Users, NEW c \in Cause,
           NEW v \in Users, NEW d \in Cause
    PROVE  /\ Recorded(log, u, c)[v][d] >= log[v][d]
           /\ Recorded(log, u, c)[v][d] \in Nat
<1>1. log[v][d] \in Nat
  BY DEF Tally
<1>2. QED
  BY <1>1, OneMore

\* The log only grows: nothing in the backend deletes a trust event.
LEMMA LogGrows ==
    ASSUME TypeOK, RowsExist, [Next]_vars, NEW u \in Users, NEW c \in Cause
    PROVE  events'[u][c] >= events[u][c]
<1>1. events \in [Users -> Tally] /\ events[u][c] \in Nat
  BY DEF TypeOK, Tally
<1>2. CASE UNCHANGED events
  BY <1>1, <1>2
<1>3. ASSUME NEW v \in Users, NEW d \in Cause, events' = Recorded(events, v, d)
      PROVE  events'[u][c] >= events[u][c]
  BY <1>1, <1>3, OneMore
<1>4. ASSUME NEW r \in Reqs, OutcomeWrite(r) PROVE events'[u][c] >= events[u][c]
  <2>1. call[r] \in AtOutcome
    BY <1>4, KindAt DEF OutcomeWrite
  <2> DEFINE b == call[r].subject
             d == <<call[r].verdict, b>>
             once == Recorded(events, StudentOf[b], d)
  <2>2. /\ b \in Bookings /\ d \in Cause
        /\ StudentOf[b] \in Users /\ OwnerOf[b] \in Users
    BY <2>1, Causes, PartiesAssumption DEF AtOutcome
  <2>3. events' = Recorded(once, OwnerOf[b], d)
    BY <1>4 DEF OutcomeWrite
  <2> HIDE DEF b, d
  <2>4. once \in [Users -> Tally]
    BY <1>1, <2>2, OneMore
  <2>5. once[u][c] >= events[u][c] /\ once[u][c] \in Nat
    BY <1>1, <2>2, OneMoreGrows
  <2> HIDE DEF once
  <2>6. events'[u][c] >= once[u][c] /\ events'[u][c] \in Nat
    BY <2>2, <2>3, <2>4, OneMoreGrows
  <2>7. QED
    BY <1>1, <2>5, <2>6
<1>5. ASSUME NEW r \in Reqs, ReporterEvent(r) PROVE events'[u][c] >= events[u][c]
  <2>1. call[r].subject \in Reports /\ report[call[r].subject] \in ReportRow
    BY <1>5, RowAt DEF ReporterEvent
  <2>2. report[call[r].subject].reporter \in Users
    BY <2>1 DEF ReportRow
  <2>3. QED
    BY <1>3, <1>5, <2>1, <2>2, Causes DEF ReporterEvent
<1>6. ASSUME NEW r \in Reqs, ResolveCommit(r) PROVE events'[u][c] >= events[u][c]
  <2>1. call[r].subject \in Reports /\ report[call[r].subject] \in ReportRow
    BY <1>6, RowAt DEF ResolveCommit
  <2>2. CASE Penalises(r)
    <3>1. report[call[r].subject].user \in Users
      BY <2>1, <2>2 DEF Penalises, ReportRow
    <3>2. QED
      BY <1>3, <1>6, <2>1, <2>2, <3>1, Causes DEF ResolveCommit
  <2>3. CASE ~Penalises(r)
    BY <1>2, <1>6, <2>3 DEF ResolveCommit
  <2>4. QED
    BY <2>2, <2>3
<1>7. ASSUME NEW r \in Reqs, Penalise(r) PROVE events'[u][c] >= events[u][c]
  <2>1. call[r] \in AtPenalty
    BY <1>7, KindAt DEF Penalise
  <2>2. call[r].subject \in Duplicates /\ Head(call[r].todo) \in Users
    BY <2>1, HeadAndTail DEF AtPenalty
  <2>3. QED
    BY <1>3, <1>7, <2>2, Causes DEF Penalise
<1>8. ASSUME NEW r \in Reqs, ReviewEvent(r) PROVE events'[u][c] >= events[u][c]
  <2>1. call[r] \in AtReview
    BY <1>8, KindAt DEF ReviewEvent
  <2>2. call[r].subject \in Bookings /\ OwnerOf[call[r].subject] \in Users
    BY <2>1, PartiesAssumption DEF AtReview
  <2>3. QED
    BY <1>3, <1>8, <2>2, Causes DEF ReviewEvent
<1>9. ASSUME NEW v \in Users, VerifyIdentity(v) PROVE events'[u][c] >= events[u][c]
  BY <1>3, <1>9, Causes DEF VerifyIdentity
<1>10. QED
  BY <1>2, <1>4, <1>5, <1>6, <1>7, <1>8, <1>9, LogSteps

LEMMA PenalisedStep ==
    ASSUME TypeOK, RowsExist, ConfirmedReportsArePenalised, [Next]_vars
    PROVE  ConfirmedReportsArePenalised'
<1> SUFFICES ASSUME NEW p \in Reports, report'[p].status = "CONFIRMED"
             PROVE  /\ report'[p].user # Null =>
                          events'[report'[p].user][<<"report", p>>] > 0
                    /\ report'[p].onListing => report'[p].flagged
  BY DEF ConfirmedReportsArePenalised
<1> DEFINE c == <<"report", p>>
<1>1. c \in Cause /\ events \in [Users -> Tally]
  BY Causes DEF TypeOK
<1>2. CASE report[p].status = "CONFIRMED"
  <2>1. /\ report[p] \in ReportRow
        /\ report'[p].user = report[p].user
        /\ report'[p].onListing = report[p].onListing
        /\ report[p].flagged => report'[p].flagged
    BY <1>2, RowsStay DEF TypeOK, NoReport
  <2>2. ASSUME report[p].user # Null PROVE events'[report[p].user][c] > 0
    <3>1. report[p].user \in Users
      BY <2>1, <2>2 DEF ReportRow
    <3>2. events[report[p].user][c] > 0 /\ events[report[p].user][c] \in Nat
      BY <1>1, <1>2, <2>2, <3>1 DEF ConfirmedReportsArePenalised, Tally
    <3>3. events'[report[p].user][c] \in Nat
      BY <1>1, <3>1, TypeStep DEF TypeOK, Tally
    <3>4. QED
      BY <1>1, <3>1, <3>2, <3>3, LogGrows
  <2>3. report[p].onListing => report[p].flagged
    BY <1>2 DEF ConfirmedReportsArePenalised
  <2>4. QED
    BY <2>1, <2>2, <2>3
<1>3. CASE report[p].status # "CONFIRMED"
  <2>1. PICK r \in Reqs : ResolveCommit(r) /\ call[r].subject = p
    <3>1. report'[p].status # report[p].status
      BY <1>3
    <3>2. ASSUME NEW r \in Reqs, NEW q \in Reports, NEW u \in Reporters,
                 NEW t \in Suspects \cup {Null}, NEW onListing \in BOOLEAN,
                 ReportFraud(r, q, u, t, onListing)
          PROVE  FALSE
      BY <1>3, <3>2 DEF ReportFraud, TypeOK
    <3>3. ASSUME NEW r \in Reqs, ResolveCommit(r) PROVE call[r].subject = p
      BY <3>1, <3>3 DEF ResolveCommit, TypeOK
    <3>4. QED
      BY <3>1, <3>2, <3>3, ReportSteps
  <2>2. call[r].subject \in Reports /\ report[p] \in ReportRow /\ call[r].verdict = "CONFIRMED"
    <3>1. call[r].subject \in Reports /\ report[p] \in ReportRow
      BY <2>1, RowAt DEF ResolveCommit
    <3>2. QED
      BY <2>1, <3>1 DEF ResolveCommit, TypeOK, ReportRow
  <2>3. /\ report'[p].user = report[p].user
        /\ report'[p].onListing = report[p].onListing
        /\ report[p].onListing => report'[p].flagged
    BY <2>1, <2>2 DEF ResolveCommit, TypeOK, ReportRow
  <2>4. ASSUME report[p].user # Null PROVE events'[report[p].user][c] > 0
    <3>1. report[p].user \in Users /\ events[report[p].user][c] \in Nat
      BY <1>1, <2>2, <2>4 DEF ReportRow, Tally
    <3>2. events' = Recorded(events, report[p].user, c)
      BY <2>1, <2>2, <2>4 DEF ResolveCommit, Penalises
    <3>3. events'[report[p].user][c] = events[report[p].user][c] + 1
      BY <1>1, <3>1, <3>2, OneMore
    <3>4. QED
      BY <3>1, <3>3
  <2>5. QED
    BY <2>3, <2>4
<1>4. QED
  BY <1>2, <1>3

\* A confirmed report has cost the user it names an event and its listing the market,
\* however many administrators resolve it and whatever fails: resolveFraudReport of
\* fraud.service writes the verdict in the transaction that does both.
THEOREM ConfirmedArePenalised == Spec => []ConfirmedReportsArePenalised
<1>1. Init => ConfirmedReportsArePenalised
  BY DEF Init, ConfirmedReportsArePenalised, NoReport
<1>2. Base /\ ConfirmedReportsArePenalised /\ [Next]_vars => ConfirmedReportsArePenalised'
  BY PenalisedStep DEF Base
<1>3. QED
  BY <1>1, <1>2, BaseHolds, PTL DEF Spec

-----------------------------------------------------------------------------
(* Outcomes and duplicates reach the score                                 *)

\* What a step of r does to the request q.
LEMMA Moves ==
    ASSUME TypeOK, NEW r \in Reqs, NEW q \in Reqs
    PROVE  /\ \A op, pc, x, v : Start(r, op, pc, x, v) =>
                  IF q = r THEN call'[q].pc = pc /\ call'[q].todo = <<>>
                           ELSE call'[q] = call[q]
           /\ \A pc : GoTo(r, pc) =>
                  IF q = r THEN call'[q].pc = pc /\ call'[q].todo = call[q].todo
                           ELSE call'[q] = call[q]
           /\ Answer(r) => IF q = r THEN call'[q] = IdleCall ELSE call'[q] = call[q]
<1>1. call[r] \in Request \cup {IdleCall}
  BY DEF TypeOK
<1>2. ASSUME NEW op, NEW pc, NEW x, NEW v, Start(r, op, pc, x, v)
      PROVE  IF q = r THEN call'[q].pc = pc /\ call'[q].todo = <<>>
                      ELSE call'[q] = call[q]
  BY <1>2 DEF Start, TypeOK
<1>3. ASSUME NEW pc, GoTo(r, pc)
      PROVE  IF q = r THEN call'[q].pc = pc /\ call'[q].todo = call[q].todo
                      ELSE call'[q] = call[q]
  <2>1. CASE q = r
    <3>1. call'[r] = [call[r] EXCEPT !.pc = pc]
      BY <1>3 DEF GoTo, TypeOK
    <3>2. QED
      BY <1>1, <2>1, <3>1 DEF Request, IdleCall
  <2>2. CASE q # r
    BY <1>3, <2>2 DEF GoTo, TypeOK
  <2>3. QED
    BY <2>1, <2>2
<1>4. Answer(r) => IF q = r THEN call'[q] = IdleCall ELSE call'[q] = call[q]
  BY DEF Answer, TypeOK
<1>5. QED
  BY <1>2, <1>3, <1>4

\* A user somebody is to queue a job for stays one, until the job is queued.
LEMMA TodoStays ==
    ASSUME TypeOK, NEW r \in Reqs, CallStarts(r) \/ CallGoesOn(r),
           NEW u \in Users, NEW q \in Reqs, u \in Elements(call[q].todo)
    PROVE  u \in Elements(queue') \/ u \in Elements(call'[q].todo)
<1>1. call[q].pc \in {"queueJobs", "penalise", "queuePenalty"}
  BY TodoOf, NobodyTodo
<1>2. call[q].todo \in Seq(Users) /\ call[q].todo # <<>>
  BY <1>1, TodoOf
<1>3. CASE CallStarts(r)
  <2>1. \E op, pc, x, v : Start(r, op, pc, x, v)
    BY <1>3 DEF CallStarts, ConfirmRead, CancelRead, OutcomeRead, ReportFraud, ResolveRead,
       DuplicateRead,
       CreateReviewRead, ModerateRead, GetScore
  <2>2. call[r].pc = "idle"
    BY <2>1 DEF Start
  <2>3. call'[q] = call[q]
    BY <1>1, <2>1, <2>2, Moves
  <2>4. QED
    BY <2>3
<1>4. CASE QueueJob(r)
  <2>1. CASE q = r
    <3>1. /\ Elements(call[q].todo) =
                {Head(call[q].todo)} \cup Elements(Tail(call[q].todo))
          /\ Head(call[q].todo) \in Users
      BY <1>2, HeadAndTail
    <3>2. Head(call[q].todo) \in Elements(queue')
      BY <1>4, <2>1, <3>1, Appended DEF QueueJob, TypeOK
    <3>3. CASE Tail(call[q].todo) = <<>>
      BY <3>1, <3>2, <3>3, NobodyTodo
    <3>4. CASE Tail(call[q].todo) # <<>>
      <4>1. PICK pc : WillQueue(r, pc, Tail(call[q].todo))
        BY <1>4, <2>1, <3>4 DEF QueueJob
      <4>2. call'[q].todo = Tail(call[q].todo)
        BY <2>1, <4>1, CallsMoveOn
      <4>3. QED
        BY <3>1, <3>2, <4>2
    <3>5. QED
      BY <3>3, <3>4
  <2>2. CASE q # r
    <3>1. Answer(r) \/ \E pc : WillQueue(r, pc, Tail(call[r].todo))
      BY <1>4 DEF QueueJob
    <3>2. call'[q] = call[q]
      BY <2>2, <3>1, Moves, CallsMoveOn
    <3>3. QED
      BY <3>2
  <2>3. QED
    BY <2>1, <2>2
<1>5. CASE Penalise(r)
  <2>1. call'[q].todo = call[q].todo
    BY <1>5, Moves DEF Penalise
  <2>2. QED
    BY <2>1
<1>6. CASE CallGoesOn(r) /\ ~QueueJob(r) /\ ~Penalise(r)
  <2>1. call[r].pc \notin {"queueJobs", "penalise", "queuePenalty"}
    BY <1>6 DEF CallGoesOn, ConfirmWrite, CancelWrite, OutcomeWrite, ReporterEvent,
       ResolveQueue, ResolveCommit,
       DuplicateWrite, CreateReviewWrite, ModerateWrite, ReviewEvent, InlineRead, InlineWrite
  <2>2. q # r
    BY <1>1, <2>1
  <2>3. \E next : call' = [call EXCEPT ![r] = next]
    <3>1. \/ Answer(r)
          \/ \E pc : GoTo(r, pc)
          \/ \E pc, users : WillQueue(r, pc, users)
          \/ InlineRead(r)
      BY <1>6 DEF CallGoesOn, ConfirmWrite, CancelWrite, OutcomeWrite, ReporterEvent,
         ResolveQueue, ResolveCommit,
         DuplicateWrite, CreateReviewWrite, ModerateWrite, ReviewEvent, InlineWrite
    <3>2. QED
      BY <3>1 DEF Answer, GoTo, WillQueue, InlineRead
  <2>4. call'[q] = call[q]
    BY <2>2, <2>3 DEF TypeOK
  <2>5. QED
    BY <2>4
<1>7. QED
  BY <1>3, <1>4, <1>5, <1>6

\* The queue only loses a job when the worker takes it, as long as no job is lost.
LEMMA AwaitedStays ==
    ASSUME TypeOK, NoJobIsLost, [Next]_vars, ~RecomputeRead,
           NEW u \in Users, Awaited(u)
    PROVE  Awaited(u)'
<1>1. \/ queue' = queue
      \/ \E r \in Reqs : QueueJob(r) \/ ResolveQueue(r)
      \/ worker # NoJob /\ queue' = <<worker.user>> \o queue
  BY DEF Next, vars, CallFails, FlagDuplicate, VerifyIdentity, Recompute, RecomputeWrite,
         RecomputeFails, Crash, CallStarts, ConfirmRead, CancelRead, OutcomeRead,
         ReportFraud, ResolveRead,
         DuplicateRead, CreateReviewRead, ModerateRead, GetScore, CallGoesOn,
         ConfirmWrite, CancelWrite, OutcomeWrite, ReporterEvent, ResolveCommit,
         DuplicateWrite, Penalise,
         CreateReviewWrite, ModerateWrite, ReviewEvent, InlineRead, InlineWrite
<1>2. \/ queue' = queue
      \/ \E v \in Users : queue' = Append(queue, v) \/ queue' = <<v>> \o queue
  <2>1. ASSUME NEW r \in Reqs, QueueJob(r) PROVE \E v \in Users : queue' = Append(queue, v)
    <3>1. Head(call[r].todo) \in Users
      BY <2>1, TodoOf, HeadAndTail DEF QueueJob
    <3>2. QED
      BY <2>1, <3>1 DEF QueueJob
  <2>2. ASSUME NEW r \in Reqs, ResolveQueue(r)
        PROVE  \E v \in Users : queue' = Append(queue, v)
    <3>1. call[r] \in AtReport
      BY <2>2, KindAt DEF ResolveQueue
    <3>2. report[call[r].subject].user \in Users
      BY <2>2, <3>1 DEF ResolveQueue, Penalises, AtReport, TypeOK, ReportRow, NoReport
    <3>3. QED
      BY <2>2, <3>2 DEF ResolveQueue
  <2>3. worker # NoJob => worker.user \in Users
    BY DEF TypeOK
  <2>4. QED
    BY <1>1, <2>1, <2>2, <2>3
<1>3. Elements(queue) \subseteq Elements(queue')
  <2>1. queue \in Seq(Users)
    BY DEF TypeOK
  <2>2. ASSUME NEW v \in Users, queue' = Append(queue, v)
        PROVE  Elements(queue) \subseteq Elements(queue')
    BY <2>1, <2>2, Appended
  <2>3. ASSUME NEW v \in Users, queue' = <<v>> \o queue
        PROVE  Elements(queue) \subseteq Elements(queue')
    BY <2>1, <2>3, Prepended
  <2>4. QED
    BY <1>2, <2>2, <2>3
<1>4. CASE u \in Elements(queue)
  BY <1>3, <1>4 DEF Awaited
<1>5. CASE \E q \in Reqs : u \in Elements(call[q].todo)
  <2>1. PICK q \in Reqs : u \in Elements(call[q].todo)
    BY <1>5
  <2>2. call[q].todo # <<>>
    BY <2>1, NobodyTodo
  <2>3. CASE call' = call
    BY <2>1, <2>3 DEF Awaited
  <2>4. CASE \E r \in Reqs : CallStarts(r) \/ CallGoesOn(r)
    <3>1. u \in Elements(queue') \/ u \in Elements(call'[q].todo)
      BY <2>1, <2>4, TodoStays
    <3>2. QED
      BY <3>1 DEF Awaited
  <2>5. CASE \E r \in Reqs : CallFails(r)
    <3>1. PICK r \in Reqs : CallFails(r)
      BY <2>5
    <3>2. r # q
      BY <2>2, <3>1 DEF NoJobIsLost
    <3>3. call'[q] = call[q]
      BY <3>1, <3>2, Moves DEF CallFails
    <3>4. QED
      BY <2>1, <3>3 DEF Awaited
  <2>6. ~Crash
    BY <2>2 DEF NoJobIsLost
  <2>7. QED
    BY <2>3, <2>4, <2>5, <2>6 DEF Next, vars, FlagDuplicate, VerifyIdentity, Recompute,
       RecomputeWrite, RecomputeFails
<1>6. QED
  BY <1>4, <1>5 DEF Awaited

\* An event that a job is queued for: the request that records it adds the job.
LEMMA NewEventAwaited ==
    ASSUME TypeOK, RowsExist, [Next]_vars,
           NEW u \in Users, NEW c \in OutcomeCause \cup DuplicateCause
    PROVE  events'[u][c] = events[u][c] \/ Awaited(u)'
<1>1. /\ c \in Cause /\ events \in [Users -> Tally]
      /\ c[1] \in Outcome \cup {"duplicate"}
  BY DEF Cause, OutcomeCause, DuplicateCause, TypeOK
<1>2. ASSUME NEW v \in Users, NEW d \in Cause, events' = Recorded(events, v, d),
             d[1] \in {"report", "reporter", "review", "identity"}
      PROVE  events'[u][c] = events[u][c]
  <2>1. c # d
    BY <1>1, <1>2 DEF Outcome
  <2>2. QED
    BY <1>1, <1>2, <2>1, OneMore
<1>3. ASSUME NEW r \in Reqs, OutcomeWrite(r)
      PROVE  events'[u][c] = events[u][c] \/ Awaited(u)'
  <2>1. call[r] \in AtOutcome
    BY <1>3, KindAt DEF OutcomeWrite
  <2> DEFINE b == call[r].subject
             d == <<call[r].verdict, b>>
             once == Recorded(events, StudentOf[b], d)
  <2>2. /\ b \in Bookings /\ d \in Cause
        /\ StudentOf[b] \in Users /\ OwnerOf[b] \in Users
    BY <2>1, Causes, PartiesAssumption DEF AtOutcome
  <2>3. events' = Recorded(once, OwnerOf[b], d)
    BY <1>3 DEF OutcomeWrite
  <2>4. call'[r].todo = <<OwnerOf[b], StudentOf[b]>>
    BY <1>3, CallsMoveOn DEF OutcomeWrite
  <2> HIDE DEF b, d
  <2>5. once \in [Users -> Tally]
    BY <1>1, <2>2, OneMore
  <2>6. CASE u \in {OwnerOf[b], StudentOf[b]}
    <3>1. u \in Elements(call'[r].todo)
      BY <2>4, <2>6 DEF Elements
    <3>2. QED
      BY <3>1 DEF Awaited
  <2>7. CASE u \notin {OwnerOf[b], StudentOf[b]}
    <3>1. once[u][c] = events[u][c]
      BY <1>1, <2>2, <2>7, OneMore
    <3> HIDE DEF once
    <3>2. events'[u][c] = once[u][c]
      BY <1>1, <2>2, <2>3, <2>5, <2>7, OneMore
    <3>3. QED
      BY <3>1, <3>2
  <2>8. QED
    BY <2>6, <2>7
<1>4. ASSUME NEW r \in Reqs, Penalise(r)
      PROVE  events'[u][c] = events[u][c] \/ Awaited(u)'
  <2>1. call[r] \in AtPenalty
    BY <1>4, KindAt DEF Penalise
  <2> DEFINE v == Head(call[r].todo)
             d == <<"duplicate", call[r].subject>>
  <2>2. d \in Cause /\ v \in Users /\ v \in Elements(call[r].todo)
    BY <2>1, HeadAndTail, Causes DEF AtPenalty
  <2>3. events' = Recorded(events, v, d) /\ call'[r].todo = call[r].todo
    BY <1>4, Moves DEF Penalise
  <2> HIDE DEF v, d
  <2>4. CASE u = v
    BY <2>2, <2>3, <2>4 DEF Awaited
  <2>5. CASE u # v
    BY <1>1, <2>2, <2>3, <2>5, OneMore
  <2>6. QED
    BY <2>4, <2>5
<1>5. ASSUME NEW r \in Reqs, ReporterEvent(r) PROVE events'[u][c] = events[u][c]
  <2>1. call[r].subject \in Reports /\ report[call[r].subject] \in ReportRow
    BY <1>5, RowAt DEF ReporterEvent
  <2>2. report[call[r].subject].reporter \in Users
    BY <2>1 DEF ReportRow
  <2>3. QED
    BY <1>2, <1>5, <2>1, <2>2, Causes DEF ReporterEvent
<1>6. ASSUME NEW r \in Reqs, ResolveCommit(r) PROVE events'[u][c] = events[u][c]
  <2>1. call[r].subject \in Reports /\ report[call[r].subject] \in ReportRow
    BY <1>6, RowAt DEF ResolveCommit
  <2>2. CASE Penalises(r)
    <3>1. report[call[r].subject].user \in Users
      BY <2>1, <2>2 DEF Penalises, ReportRow
    <3>2. QED
      BY <1>2, <1>6, <2>1, <2>2, <3>1, Causes DEF ResolveCommit
  <2>3. CASE ~Penalises(r)
    BY <1>6, <2>3 DEF ResolveCommit
  <2>4. QED
    BY <2>2, <2>3
<1>7. ASSUME NEW r \in Reqs, ReviewEvent(r) PROVE events'[u][c] = events[u][c]
  <2>1. call[r] \in AtReview
    BY <1>7, KindAt DEF ReviewEvent
  <2>2. call[r].subject \in Bookings /\ OwnerOf[call[r].subject] \in Users
    BY <2>1, PartiesAssumption DEF AtReview
  <2>3. QED
    BY <1>2, <1>7, <2>2, Causes DEF ReviewEvent
<1>8. ASSUME NEW v \in Users, VerifyIdentity(v) PROVE events'[u][c] = events[u][c]
  BY <1>2, <1>8, Causes DEF VerifyIdentity
<1>9. QED
  BY <1>3, <1>4, <1>5, <1>6, <1>7, <1>8, LogSteps

\* A request that is about to write a score has just read the events, or stood there before.
LEMMA ScoreCalls ==
    ASSUME TypeOK, [Next]_vars, NEW q \in Reqs, call'[q].pc = "inlineWrite"
    PROVE  \/ call'[q] = call[q]
           \/ /\ call'[q].subject \in Users
              /\ call'[q].seen = events[call'[q].subject]
              /\ UNCHANGED <<events, score, queue, worker>>
<1>1. IdleCall.pc = "idle"
  BY DEF IdleCall
<1>2. ASSUME NEW r \in Reqs, CallStarts(r) PROVE call'[q] = call[q]
  <2>1. ASSUME NEW op, NEW pc, NEW x, NEW v, Start(r, op, pc, x, v), pc # "inlineWrite"
        PROVE  call'[q] = call[q]
    BY <2>1, Moves
  <2>2. QED
    BY <1>2, <2>1 DEF CallStarts, ConfirmRead, CancelRead, OutcomeRead, ReportFraud,
       ResolveRead, DuplicateRead,
       CreateReviewRead, ModerateRead, GetScore
<1>3. ASSUME NEW r \in Reqs, Answer(r) PROVE call'[q] = call[q]
  BY <1>1, <1>3, Moves
<1>4. ASSUME NEW r \in Reqs, InlineRead(r), q = r
      PROVE  /\ call'[q].subject \in Users
             /\ call'[q].seen = events[call'[q].subject]
             /\ UNCHANGED <<events, score, queue, worker>>
  <2>1. call[r] \in AtScore
    BY <1>4, KindAt DEF InlineRead
  <2>2. call'[r] = [call[r] EXCEPT !.pc = "inlineWrite", !.seen = events[call[r].subject]]
    BY <1>4 DEF InlineRead, TypeOK
  <2>3. call'[r].subject = call[r].subject /\ call'[r].seen = events[call[r].subject]
    BY <2>1, <2>2 DEF AtScore
  <2>4. QED
    BY <1>4, <2>1, <2>3 DEF InlineRead, AtScore
<1>5. ASSUME NEW r \in Reqs, InlineRead(r), q # r PROVE call'[q] = call[q]
  BY <1>5 DEF InlineRead, TypeOK
<1>6. ASSUME NEW r \in Reqs, CallGoesOn(r), ~InlineRead(r) PROVE call'[q] = call[q]
  <2>1. ASSUME NEW pc, GoTo(r, pc), pc # "inlineWrite" PROVE call'[q] = call[q]
    BY <2>1, Moves
  <2>2. ASSUME NEW pc, NEW users, WillQueue(r, pc, users), pc # "inlineWrite"
        PROVE  call'[q] = call[q]
    BY <2>2, CallsMoveOn
  <2>3. CASE ConfirmWrite(r) \/ OutcomeWrite(r) \/ QueueJob(r) \/ DuplicateWrite(r)
    BY <1>3, <2>2, <2>3 DEF ConfirmWrite, OutcomeWrite, QueueJob, DuplicateWrite
  <2>4. CASE ResolveQueue(r) \/ Penalise(r) \/ ModerateWrite(r)
    BY <1>3, <2>1, <2>4 DEF ResolveQueue, Penalise, ModerateWrite
  <2>5. CASE \/ CancelWrite(r) \/ ReporterEvent(r) \/ ResolveCommit(r)
            \/ CreateReviewWrite(r) \/ ReviewEvent(r) \/ InlineWrite(r)
    BY <1>3, <2>5 DEF CancelWrite, ReporterEvent, ResolveCommit, CreateReviewWrite, ReviewEvent,
                      InlineWrite
  <2>6. QED
    BY <1>6, <2>3, <2>4, <2>5 DEF CallGoesOn
<1>7. ASSUME Crash PROVE FALSE
  BY <1>1, <1>7 DEF Crash
<1>8. CASE call' = call
  BY <1>8
<1>9. QED
  BY <1>2, <1>3, <1>4, <1>5, <1>6, <1>7, <1>8 DEF Next, vars, CallFails, FlagDuplicate,
     VerifyIdentity, Recompute, RecomputeRead, RecomputeWrite, RecomputeFails

\* Only the worker and getTrustScore write scores, and only what they have read.
LEMMA ScoreSteps ==
    ASSUME [Next]_vars
    PROVE  \/ UNCHANGED <<score, worker>>
           \/ UNCHANGED score /\ (RecomputeFails \/ Crash)
           \/ RecomputeRead
           \/ RecomputeWrite
           \/ \E r \in Reqs : InlineWrite(r)
<1>2. ASSUME NEW r \in Reqs, CallStarts(r) PROVE UNCHANGED <<score, worker>>
  BY <1>2 DEF CallStarts, ConfirmRead, CancelRead, OutcomeRead, ReportFraud, ResolveRead,
     DuplicateRead,
     CreateReviewRead, ModerateRead, GetScore
<1>3. ASSUME NEW r \in Reqs, CallGoesOn(r), ~InlineWrite(r) PROVE UNCHANGED <<score, worker>>
  <2>1. CASE \/ ConfirmWrite(r) \/ CancelWrite(r) \/ OutcomeWrite(r)
            \/ QueueJob(r) \/ ReporterEvent(r)
    BY <2>1 DEF ConfirmWrite, CancelWrite, OutcomeWrite, QueueJob, ReporterEvent
  <2>2. CASE ResolveQueue(r) \/ ResolveCommit(r) \/ DuplicateWrite(r) \/ Penalise(r)
    BY <2>2 DEF ResolveQueue, ResolveCommit, DuplicateWrite, Penalise
  <2>3. CASE CreateReviewWrite(r) \/ ModerateWrite(r) \/ ReviewEvent(r) \/ InlineRead(r)
    BY <2>3 DEF CreateReviewWrite, ModerateWrite, ReviewEvent, InlineRead
  <2>4. QED
    BY <1>3, <2>1, <2>2, <2>3 DEF CallGoesOn
<1>4. ASSUME NEW r \in Reqs, CallFails(r) PROVE UNCHANGED <<score, worker>>
  BY <1>4 DEF CallFails
<1>5. ASSUME NEW d \in Duplicates, FlagDuplicate(d) PROVE UNCHANGED <<score, worker>>
  BY <1>5 DEF FlagDuplicate
<1>6. ASSUME NEW u \in Users, VerifyIdentity(u) PROVE UNCHANGED <<score, worker>>
  BY <1>6 DEF VerifyIdentity
<1>7. RecomputeFails \/ Crash => UNCHANGED score
  BY DEF RecomputeFails, Crash
<1>8. CASE UNCHANGED vars
  BY <1>8 DEF vars
<1>9. QED
  BY <1>2, <1>3, <1>4, <1>5, <1>6, <1>7, <1>8 DEF Next, Recompute

\* What getTrustScore writes, and what the worker does.
LEMMA ScoreWritten ==
    ASSUME TypeOK
    PROVE  /\ \A r \in Reqs : InlineWrite(r) =>
                  /\ call[r].pc = "inlineWrite"
                  /\ call[r].subject \in Users /\ call[r].seen \in Tally
                  /\ call'[r] = IdleCall
                  /\ score' = [score EXCEPT ![call[r].subject] = call[r].seen]
                  /\ UNCHANGED <<events, queue, worker>>
           /\ RecomputeWrite =>
                  /\ worker.user \in Users /\ worker.seen \in Tally
                  /\ worker' = NoJob
                  /\ score' = [score EXCEPT ![worker.user] = worker.seen]
                  /\ UNCHANGED <<events, queue, call>>
<1>1. ASSUME NEW r \in Reqs, InlineWrite(r)
      PROVE  /\ call[r].pc = "inlineWrite"
             /\ call[r].subject \in Users /\ call[r].seen \in Tally
             /\ call'[r] = IdleCall
             /\ score' = [score EXCEPT ![call[r].subject] = call[r].seen]
             /\ UNCHANGED <<events, queue, worker>>
  <2>1. call[r] \in AtScoreRead
    BY <1>1, KindAt DEF InlineWrite
  <2>2. QED
    BY <1>1, <2>1 DEF InlineWrite, Answer, AtScoreRead, TypeOK
<1>2. RecomputeWrite =>
          /\ worker.user \in Users /\ worker.seen \in Tally
          /\ worker' = NoJob
          /\ score' = [score EXCEPT ![worker.user] = worker.seen]
          /\ UNCHANGED <<events, queue, call>>
  BY DEF RecomputeWrite, TypeOK
<1>3. QED
  BY <1>1, <1>2

-----------------------------------------------------------------------------
\* Without a job on its way, the worker has read every event about c or the score
\* counts every one of them, and whoever is about to write that score has read them.
Fresh(u, c) ==
    \/ Awaited(u)
    \/ /\ IF worker.user = u
          THEN worker.seen[c] = events[u][c]
          ELSE Counts(score[u], c) = events[u][c]
       /\ \A r \in Reqs : call[r].pc = "inlineWrite" /\ call[r].subject = u =>
              call[r].seen[c] = events[u][c]

\* A request that is about to write the score of u has read every event about c.
LEMMA FreshCalls ==
    ASSUME TypeOK, [Next]_vars, NEW u \in Users, NEW c, Fresh(u, c), ~Awaited(u),
           events'[u][c] = events[u][c],
           NEW r \in Reqs, call'[r].pc = "inlineWrite", call'[r].subject = u
    PROVE  call'[r].seen[c] = events'[u][c]
<1>1. CASE call'[r] = call[r]
  BY <1>1 DEF Fresh
<1>2. CASE call'[r].seen = events[call'[r].subject]
  BY <1>2
<1>3. QED
  BY <1>1, <1>2, ScoreCalls

LEMMA FreshStep ==
    ASSUME TypeOK, RowsExist, OneScorePerUser, OneScorePerUser', NoJobIsLost, [Next]_vars,
           NEW u \in Users, NEW c \in Promised, Fresh(u, c)
    PROVE  Fresh(u, c)'
<1>1. /\ c \in Cause
      /\ events'[u][c] = events[u][c] \/ Awaited(u)'
  BY NewEventAwaited DEF Promised, Cause
<1>2. CASE Awaited(u)'
  BY <1>2 DEF Fresh
<1>3. CASE RecomputeRead /\ ~Awaited(u)'
  <2>1. /\ queue \in Seq(Users) /\ queue # <<>> /\ NoJob.user # u
        /\ worker = NoJob /\ worker'.user = Head(queue)
        /\ worker'.seen = events[Head(queue)]
        /\ UNCHANGED <<events, score, call>> /\ queue' = Tail(queue)
    BY <1>3, NullAssumption DEF RecomputeRead, TypeOK, NoJob
  <2>2. CASE u = Head(queue)
    <3>1. \A r \in Reqs : call'[r].pc = "inlineWrite" => call'[r].subject # u
      BY <2>1, <2>2 DEF OneScorePerUser
    <3>2. QED
      BY <2>1, <2>2, <3>1 DEF Fresh
  <2>3. CASE u # Head(queue)
    <3>1. ~Awaited(u)
      BY <1>3, <2>1, <2>3, HeadAndTail DEF Awaited
    <3>2. QED
      BY <2>1, <2>3, <3>1 DEF Fresh
  <2>4. QED
    BY <2>2, <2>3
<1>4. CASE ~RecomputeRead /\ ~Awaited(u)'
  <2>1. ~Awaited(u) /\ events'[u][c] = events[u][c]
    BY <1>1, <1>4, AwaitedStays
  <2>2. \A r \in Reqs : call'[r].pc = "inlineWrite" /\ call'[r].subject = u =>
            call'[r].seen[c] = events'[u][c]
    BY <2>1, FreshCalls
  <2>3. IF worker.user = u THEN worker.seen[c] = events[u][c]
                           ELSE Counts(score[u], c) = events[u][c]
    BY <2>1 DEF Fresh
  <2> DEFINE Known == IF worker'.user = u THEN worker'.seen[c] = events'[u][c]
                                          ELSE Counts(score'[u], c) = events'[u][c]
  <2>4. ASSUME UNCHANGED <<score, worker>> PROVE Known
    BY <2>1, <2>3, <2>4 DEF Counts
  <2>5. ASSUME RecomputeWrite PROVE Known
    <3>1. /\ worker.user \in Users /\ worker.seen \in Tally /\ worker' = NoJob
          /\ score' = [score EXCEPT ![worker.user] = worker.seen]
      BY <2>5, ScoreWritten
    <3>2. worker'.user # u /\ worker.seen # Null
      BY <3>1, NullAssumption, NullIsNoTally DEF NoJob
    <3>3. score'[u] = IF worker.user = u THEN worker.seen ELSE score[u]
      BY <3>1 DEF TypeOK
    <3>4. QED
      BY <2>1, <2>3, <3>2, <3>3 DEF Counts
  <2>6. ASSUME NEW r \in Reqs, InlineWrite(r) PROVE Known
    <3>1. /\ call[r].pc = "inlineWrite" /\ call[r].subject \in Users
          /\ call[r].seen \in Tally /\ worker' = worker
          /\ score' = [score EXCEPT ![call[r].subject] = call[r].seen]
      BY <2>6, ScoreWritten
    <3>2. CASE call[r].subject = u
      <4>1. score'[u] = call[r].seen /\ call[r].seen # Null
        BY <3>1, <3>2, NullIsNoTally DEF TypeOK
      <4>2. call[r].seen[c] = events[u][c]
        BY <2>1, <3>1, <3>2 DEF Fresh
      <4>3. worker'.user # u
        BY <3>1, <3>2 DEF OneScorePerUser
      <4>4. QED
        BY <2>1, <4>1, <4>2, <4>3 DEF Counts
    <3>3. CASE call[r].subject # u
      <4>1. score'[u] = score[u]
        BY <3>1, <3>3 DEF TypeOK
      <4>2. QED
        BY <2>1, <2>3, <3>1, <4>1 DEF Counts
    <3>4. QED
      BY <3>2, <3>3
  <2>7. ASSUME RecomputeFails \/ Crash, ~RecomputeWrite, UNCHANGED score PROVE Known
    <3>1. CASE worker = NoJob
      BY <2>1, <2>3, <2>7, <3>1 DEF RecomputeFails, Crash, Counts
    <3>2. CASE worker # NoJob
      <4>1. queue' = <<worker.user>> \o queue /\ worker' = NoJob /\ worker.user \in Users
        BY <2>7, <3>2 DEF NoJobIsLost, Crash, TypeOK
      <4>2. worker.user \in Elements(queue')
        BY <4>1, Prepended DEF TypeOK
      <4>3. worker.user # u
        BY <1>4, <4>2 DEF Awaited
      <4>4. worker'.user # u
        BY <4>1, NullAssumption DEF NoJob
      <4>5. QED
        BY <2>1, <2>3, <2>7, <4>3, <4>4 DEF Counts
    <3>3. QED
      BY <3>1, <3>2
  <2>8. Known
    BY <1>4, <2>4, <2>5, <2>6, <2>7, ScoreSteps
  <2>9. QED
    BY <2>2, <2>8 DEF Fresh
<1>5. QED
  BY <1>2, <1>3, <1>4

AllFresh == \A u \in Users, c \in Promised : Fresh(u, c)

LEMMA AllFreshHolds == Spec /\ []OneScorePerUser /\ [][NoJobIsLost]_vars => []AllFresh
<1>1. Init => AllFresh
  <2>1. ASSUME Init, NEW u \in Users, NEW c \in Promised PROVE Fresh(u, c)
    <3>1. c \in Cause
      BY DEF Promised, Cause
    <3>2. /\ worker.user # u /\ score[u] = Null /\ events[u][c] = 0
          /\ \A r \in Reqs : call[r].pc = "idle"
      BY <2>1, <3>1, NullAssumption DEF Init, NoJob, IdleCall
    <3>3. QED
      BY <3>2 DEF Fresh, Counts
  <2>2. QED
    BY <2>1 DEF AllFresh
<1>2. Base /\ OneScorePerUser /\ OneScorePerUser' /\ AllFresh /\ [Next /\ NoJobIsLost]_vars => AllFresh'
  <2>1. ASSUME Base, OneScorePerUser, OneScorePerUser', AllFresh, Next, NoJobIsLost
        PROVE  AllFresh'
    BY <2>1, FreshStep DEF Base, AllFresh
  <2>2. ASSUME AllFresh, UNCHANGED vars PROVE AllFresh'
    BY <2>2 DEF AllFresh, Fresh, Awaited, Elements, Counts, vars
  <2>3. QED
    BY <2>1, <2>2
<1>3. [Next]_vars /\ [NoJobIsLost]_vars => [Next /\ NoJobIsLost]_vars
  OBVIOUS
<1>4. QED
  BY <1>1, <1>2, <1>3, BaseHolds, PTL DEF Spec

\* While no job is lost and a score has one writer at a time, the cached score of a user
\* counts every outcome and every confirmed duplicate, or a recompute that will count
\* it is on its way, whatever else fails: the jobs are added after the commit, and the
\* worker of trust-recompute.processor reads all events anew.
THEOREM OutcomesReach ==
    Spec /\ []OneScorePerUser /\ [][NoJobIsLost]_vars => []OutcomesReachTheScore
<1>1. AllFresh => OutcomesReachTheScore
  BY DEF AllFresh, Fresh, Promised, OutcomesReachTheScore, CatchesUp, Behind
<1>2. QED
  BY <1>1, AllFreshHolds, PTL

-----------------------------------------------------------------------------
(* Scores never forget                                                     *)

\* The score counts no more than whoever will write it has read, and that no more than
\* there is.
Ordered ==
    \A u \in Users, c \in Cause :
        /\ Counts(score[u], c) <= events[u][c]
        /\ worker.user = u => /\ Counts(score[u], c) <= worker.seen[c]
                              /\ worker.seen[c] <= events[u][c]
        /\ \A r \in Reqs : call[r].pc = "inlineWrite" /\ call[r].subject = u =>
              /\ Counts(score[u], c) <= call[r].seen[c]
              /\ call[r].seen[c] <= events[u][c]

LEMMA Numbers ==
    ASSUME TypeOK, NEW u \in Users, NEW c \in Cause
    PROVE  /\ Counts(score[u], c) \in Nat
           /\ events[u][c] \in Nat
           /\ worker.user = u => worker.seen \in Tally /\ worker.seen[c] \in Nat
           /\ \A r \in Reqs : call[r].pc = "inlineWrite" =>
                  call[r].seen \in Tally /\ call[r].seen[c] \in Nat
<1>1. score[u] \in Tally \cup {Null} /\ events[u] \in Tally
  BY DEF TypeOK
<1>2. Counts(score[u], c) \in Nat /\ events[u][c] \in Nat
  BY <1>1 DEF Counts, Tally
<1>3. worker.user = u => worker.seen \in Tally
  BY NullAssumption DEF TypeOK, NoJob
<1>4. \A r \in Reqs : call[r].pc = "inlineWrite" => call[r].seen \in Tally
  BY KindAt DEF AtScoreRead
<1>5. QED
  BY <1>2, <1>3, <1>4 DEF Tally

LEMMA OrderedStep ==
    ASSUME TypeOK, RowsExist, OneScorePerUser, Ordered, [Next]_vars,
           NEW u \in Users, NEW c \in Cause
    PROVE  /\ Counts(score'[u], c) >= Counts(score[u], c)
           /\ Counts(score'[u], c) <= events'[u][c]
           /\ worker'.user = u => /\ Counts(score'[u], c) <= worker'.seen[c]
                                  /\ worker'.seen[c] <= events'[u][c]
           /\ \A r \in Reqs : call'[r].pc = "inlineWrite" /\ call'[r].subject = u =>
                  /\ Counts(score'[u], c) <= call'[r].seen[c]
                  /\ call'[r].seen[c] <= events'[u][c]
<1> DEFINE Calls == \A r \in Reqs : call[r].pc = "inlineWrite" /\ call[r].subject = u =>
                        /\ Counts(score[u], c) <= call[r].seen[c]
                        /\ call[r].seen[c] <= events[u][c]
           Moved == /\ Counts(score'[u], c) >= Counts(score[u], c)
                    /\ Counts(score'[u], c) <= events'[u][c]
                    /\ worker'.user = u => /\ Counts(score'[u], c) <= worker'.seen[c]
                                           /\ worker'.seen[c] <= events'[u][c]
<1>1. /\ Counts(score[u], c) <= events[u][c]
      /\ worker.user = u => /\ Counts(score[u], c) <= worker.seen[c]
                            /\ worker.seen[c] <= events[u][c]
      /\ Calls
  BY DEF Ordered
<1>2. /\ Counts(score[u], c) \in Nat /\ events[u][c] \in Nat
      /\ worker.user = u => worker.seen \in Tally /\ worker.seen[c] \in Nat
      /\ \A r \in Reqs : call[r].pc = "inlineWrite" =>
             call[r].seen \in Tally /\ call[r].seen[c] \in Nat
  BY Numbers
<1>3. events'[u][c] >= events[u][c] /\ events'[u][c] \in Nat
  BY LogGrows, TypeStep DEF TypeOK, Tally
<1>4. NoJob.user # u
  BY NullAssumption DEF NoJob
<1>5. ASSUME UNCHANGED <<score, worker>> PROVE Moved
  BY <1>1, <1>2, <1>3, <1>5
<1>6. ASSUME UNCHANGED score, RecomputeFails \/ Crash PROVE Moved
  <2>1. worker' = NoJob
    BY <1>6 DEF RecomputeFails, Crash
  <2>2. QED
    BY <1>1, <1>2, <1>3, <1>4, <1>6, <2>1
<1>7. ASSUME RecomputeRead PROVE Moved
  <2>1. score' = score /\ events' = events /\ (worker'.user = u => worker'.seen = events[u])
    BY <1>7 DEF RecomputeRead
  <2>2. QED
    BY <1>1, <1>2, <1>3, <2>1
<1>8. CASE RecomputeWrite
  <2>1. /\ worker' = NoJob /\ worker.user \in Users /\ events' = events /\ call' = call
        /\ score' = [score EXCEPT ![worker.user] = worker.seen]
    BY <1>8, ScoreWritten
  <2>2. CASE worker.user = u
    <3>1. score'[u] = worker.seen /\ worker.seen # Null
      BY <1>2, <2>1, <2>2, NullIsNoTally DEF TypeOK
    <3>2. Counts(score'[u], c) = worker.seen[c]
      BY <3>1 DEF Counts
    <3>3. \A r \in Reqs : call[r].pc = "inlineWrite" => call[r].subject # u
      BY <2>2 DEF OneScorePerUser
    <3>4. QED
      BY <1>1, <1>2, <1>3, <1>4, <2>1, <2>2, <3>2, <3>3
  <2>3. CASE worker.user # u
    <3>1. score'[u] = score[u]
      BY <2>1, <2>3 DEF TypeOK
    <3>2. QED
      BY <1>1, <1>2, <1>3, <1>4, <2>1, <3>1
  <2>4. QED
    BY <2>2, <2>3
<1>9. ASSUME NEW r \in Reqs, InlineWrite(r)
      PROVE  /\ Moved
             /\ \A q \in Reqs : call'[q].pc = "inlineWrite" /\ call'[q].subject = u =>
                    /\ Counts(score'[u], c) <= call'[q].seen[c]
                    /\ call'[q].seen[c] <= events'[u][c]
  <2>1. /\ call[r].pc = "inlineWrite" /\ call[r].subject \in Users /\ call[r].seen \in Tally
        /\ call'[r] = IdleCall /\ worker' = worker /\ events' = events
        /\ score' = [score EXCEPT ![call[r].subject] = call[r].seen]
    BY <1>9, ScoreWritten
  <2>2. \A q \in Reqs : call'[q].pc = "inlineWrite" => q # r /\ call'[q] = call[q]
    BY <1>9, <2>1, Moves DEF InlineWrite, IdleCall
  <2>3. CASE call[r].subject = u
    <3>1. score'[u] = call[r].seen /\ call[r].seen # Null
      BY <2>1, <2>3, NullIsNoTally DEF TypeOK
    <3>2. Counts(score'[u], c) = call[r].seen[c]
      BY <3>1 DEF Counts
    <3>3. worker'.user # u
      BY <2>1, <2>3 DEF OneScorePerUser
    <3>4. \A q \in Reqs : call'[q].pc = "inlineWrite" => call'[q].subject # u
      BY <2>1, <2>2, <2>3 DEF OneScorePerUser
    <3>5. QED
      BY <1>1, <1>2, <2>1, <2>3, <3>2, <3>3, <3>4
  <2>4. CASE call[r].subject # u
    <3>1. score'[u] = score[u]
      BY <2>1, <2>4 DEF TypeOK
    <3>2. QED
      BY <1>1, <1>2, <2>1, <2>2, <3>1
  <2>5. QED
    BY <2>3, <2>4
<1>10. ASSUME score' = score, NEW r \in Reqs,
              call'[r].pc = "inlineWrite", call'[r].subject = u
       PROVE  /\ Counts(score'[u], c) <= call'[r].seen[c]
              /\ call'[r].seen[c] <= events'[u][c]
  <2>1. CASE call'[r] = call[r]
    <3>1. call[r].seen[c] \in Nat
      BY <1>2, <1>10, <2>1
    <3>2. QED
      BY <1>1, <1>2, <1>3, <1>10, <2>1, <3>1
  <2>2. CASE call'[r].seen = events[call'[r].subject]
    BY <1>1, <1>2, <1>3, <1>10, <2>2
  <2>3. QED
    BY <1>10, <2>1, <2>2, ScoreCalls
<1>11. CASE RecomputeRead \/ UNCHANGED score
  <2>1. score' = score
    BY <1>11 DEF RecomputeRead
  <2>2. Moved
    BY <1>5, <1>6, <1>7, <1>11, ScoreSteps, ScoreWritten, <1>8, <1>9
  <2>3. QED
    BY <1>10, <2>1, <2>2
<1>12. QED
  BY <1>8, <1>9, <1>11, ScoreSteps

LEMMA OrderedHolds == Spec /\ []OneScorePerUser => []Ordered
<1>1. Init => Ordered
  BY NullAssumption DEF Init, IdleCall, Ordered, Counts, NoJob
<1>2. Base /\ OneScorePerUser /\ Ordered /\ [Next]_vars => Ordered'
  BY OrderedStep DEF Base, Ordered, Counts
<1>3. QED
  BY <1>1, <1>2, BaseHolds, PTL DEF Spec

\* Whatever fails, a score keeps every event it has counted as long as it has one writer at
\* a time, the worker of trust-recompute.processor or a request of trust.service.
THEOREM NeverForget == Spec /\ []OneScorePerUser => ScoresNeverForget
<1>1. Base /\ OneScorePerUser /\ Ordered /\ [Next]_vars =>
        [\A u \in Users, c \in Cause : Counts(score'[u], c) >= Counts(score[u], c)]_vars
  BY OrderedStep DEF Base
<1>2. QED
  BY <1>1, OrderedHolds, BaseHolds, PTL DEF Spec, ScoresNeverForget

-----------------------------------------------------------------------------
(* Trust implements TrustLedger                                            *)

LedgerMove == [Ledger!LedgerNext]_(Ledger!ledgerVars)

DueUsers == {u \in Users : Due(u)}

LEMMA NothingMoves ==
    ASSUME UNCHANGED <<events, score>>, DueUsers' = DueUsers
    PROVE  LedgerMove
BY DEF LedgerMove, Ledger!ledgerVars, DueUsers

LEMMA AskMoves ==
    ASSUME UNCHANGED <<events, score>>,
           NEW users \in SUBSET Users, DueUsers' = DueUsers \cup users
    PROVE  LedgerMove
<1>1. Ledger!Ask(users)
  BY DEF Ledger!Ask, DueUsers
<1>2. QED
  BY <1>1 DEF LedgerMove, Ledger!LedgerNext

\* The log as TrustLedger writes it.
Grown(log, c, times) == [u \in Users |-> [log[u] EXCEPT ![c] = @ + times[u]]]

LEMMA LogMoves ==
    ASSUME NEW log \in [Users -> Tally], NEW new \in [Users -> Tally],
           NEW c \in Cause, NEW times \in [Users -> 0..2],
           \A u \in Users, d \in Cause :
               new[u][d] = IF d = c THEN log[u][d] + times[u] ELSE log[u][d]
    PROVE  new = Grown(log, c, times)
<1> DEFINE grown(u) == [log[u] EXCEPT ![c] = @ + times[u]]
<1>1. ASSUME NEW u \in Users PROVE new[u] = grown(u)
  <2>1. log[u] \in Tally /\ new[u] \in Tally /\ times[u] \in Nat
    OBVIOUS
  <2>2. grown(u) \in [Cause -> Nat]
    BY <2>1 DEF Tally
  <2>3. \A d \in Cause : new[u][d] = grown(u)[d]
    BY <2>1 DEF Tally
  <2> HIDE DEF grown
  <2>4. QED
    BY <2>1, <2>2, <2>3 DEF Tally
<1> HIDE DEF grown
<1>2. new = [u \in Users |-> grown(u)]
  BY <1>1
<1>3. QED
  BY <1>2 DEF grown, Grown

\* An event of one user, whose score is due if the event is promised to count.
LEMMA EventMoves ==
    ASSUME TypeOK, NEW v \in Users, NEW c \in Cause,
           events' = Recorded(events, v, c), UNCHANGED score, DueUsers' = DueUsers,
           c \in Promised => v \in DueUsers
    PROVE  LedgerMove
<1> DEFINE times == [u \in Users |-> IF u = v THEN 1 ELSE 0]
<1>1. times \in [Users -> 0..2] /\ \A u \in Users : times[u] = IF u = v THEN 1 ELSE 0
  OBVIOUS
<1> HIDE DEF times
<1>2. /\ events \in [Users -> Tally] /\ events' \in [Users -> Tally]
      /\ \A u \in Users, d \in Cause :
            events'[u][d] = IF u = v /\ d = c THEN events[u][d] + 1 ELSE events[u][d]
  BY OneMore DEF TypeOK
<1>3. \A u \in Users, d \in Cause :
          events'[u][d] = IF d = c THEN events[u][d] + times[u] ELSE events[u][d]
  <2>1. \A u \in Users, d \in Cause : events[u][d] \in Nat
    BY <1>2 DEF Tally
  <2>2. QED
    BY <1>1, <1>2, <2>1
<1>4. events' = Grown(events, c, times)
  BY <1>1, <1>2, <1>3, LogMoves
<1>5. {u \in Users : c \in Promised /\ times[u] > 0} \subseteq DueUsers
  BY <1>1
<1>6. Ledger!Happen(c, times)
  BY <1>4, <1>5 DEF Ledger!Happen, DueUsers, Grown
<1>7. QED
  BY <1>1, <1>6 DEF LedgerMove, Ledger!LedgerNext

\* A score that is written, by whoever.
LEMMA RescoreMoves ==
    ASSUME TypeOK, NEW u \in Users, NEW s \in Tally,
           score' = [score EXCEPT ![u] = s], UNCHANGED events,
           \A c \in Cause : /\ Counts(score'[u], c) >= Counts(score[u], c)
                            /\ Counts(score'[u], c) <= events'[u][c],
           \/ DueUsers' = DueUsers
           \/ /\ DueUsers' = DueUsers \ {u}
              /\ \A c \in Promised : Counts(score'[u], c) = events[u][c]
    PROVE  LedgerMove
<1>1. /\ score' \in [Users -> Tally \cup {Null}]
      /\ score'[u] # Null
      /\ \A v \in Users \ {u} : score'[v] = score[v]
      /\ score'[u] = s
  BY NullIsNoTally DEF TypeOK
<1>2. \A c \in Cause : Counts(score[u], c) \in Nat /\ Counts(score'[u], c) \in Nat
                       /\ events[u][c] \in Nat
  BY <1>1, Numbers DEF Counts, Tally
<1>3. \A c \in Cause : Counts(score'[u], c) \in Counts(score[u], c)..events[u][c]
  BY <1>2
<1>4. Ledger!Rescore(u)
  BY <1>1, <1>3 DEF Ledger!Rescore, Ledger!Counted, Ledger!Counting, Counts, Tally, DueUsers
<1>5. QED
  BY <1>4 DEF LedgerMove, Ledger!LedgerNext

\* Nobody's score becomes due, or ceases to be, without a job.
LEMMA DueStays ==
    ASSUME UNCHANGED <<queue, worker>>, \A q \in Reqs : call'[q].todo = call[q].todo
    PROVE  DueUsers' = DueUsers
BY DEF DueUsers, Due, Awaited

LEMMA TodoKept ==
    ASSUME TypeOK, NEW r \in Reqs, NEW q \in Reqs
    PROVE  /\ \A op, pc, x, v : Start(r, op, pc, x, v) => call'[q].todo = call[q].todo
           /\ \A pc : GoTo(r, pc) => call'[q].todo = call[q].todo
           /\ Answer(r) /\ call[r].todo = <<>> => call'[q].todo = call[q].todo
           /\ InlineRead(r) => call'[q].todo = call[q].todo
<1>1. ASSUME NEW op, NEW pc, NEW x, NEW v, Start(r, op, pc, x, v)
      PROVE  call'[q].todo = call[q].todo
  <2>1. call[r].todo = <<>>
    BY <1>1, TodoOf DEF Start
  <2>2. QED
    BY <1>1, <2>1, Moves
<1>2. ASSUME NEW pc, GoTo(r, pc) PROVE call'[q].todo = call[q].todo
  BY <1>2, Moves
<1>3. Answer(r) /\ call[r].todo = <<>> => call'[q].todo = call[q].todo
  BY Moves DEF IdleCall
<1>4. ASSUME InlineRead(r) PROVE call'[q].todo = call[q].todo
  <2>1. call[r] \in AtScore
    BY <1>4, KindAt DEF InlineRead
  <2>2. call' = [call EXCEPT ![r] =
            [call[r] EXCEPT !.pc = "inlineWrite", !.seen = events[call[r].subject]]]
    BY <1>4 DEF InlineRead
  <2>3. CASE q = r
    <3>1. call'[r] = [call[r] EXCEPT !.pc = "inlineWrite", !.seen = events[call[r].subject]]
      BY <2>2 DEF TypeOK
    <3>2. QED
      BY <2>1, <2>3, <3>1 DEF AtScore
  <2>4. CASE q # r
    BY <2>2, <2>4 DEF TypeOK
  <2>5. QED
    BY <2>3, <2>4
<1>5. QED
  BY <1>1, <1>2, <1>3, <1>4

\* A request that gets jobs to add, or adds one.
LEMMA DueGrows ==
    ASSUME NEW r \in Reqs, NEW users \in SUBSET Users, UNCHANGED worker,
           \A q \in Reqs \ {r} : call'[q].todo = call[q].todo,
           Elements(queue') \cup Elements(call'[r].todo) =
               Elements(queue) \cup Elements(call[r].todo) \cup users
    PROVE  DueUsers' = DueUsers \cup users
<1>1. ASSUME NEW u \in Users PROVE Due(u)' <=> Due(u) \/ u \in users
  <2>1. \A q \in Reqs \ {r} : Elements(call'[q].todo) = Elements(call[q].todo)
    OBVIOUS
  <2>2. Awaited(u) <=> \/ u \in Elements(queue) \cup Elements(call[r].todo)
                       \/ \E q \in Reqs \ {r} : u \in Elements(call[q].todo)
    BY DEF Awaited
  <2>3. Awaited(u)' <=> \/ u \in Elements(queue') \cup Elements(call'[r].todo)
                        \/ \E q \in Reqs \ {r} : u \in Elements(call'[q].todo)
    BY DEF Awaited
  <2>4. QED
    BY <2>1, <2>2, <2>3 DEF Due
<1>2. QED
  BY <1>1 DEF DueUsers

\* An outcome is an event of both parties, or two of somebody who is both.
LEMMA OutcomeMoves ==
    ASSUME TypeOK, NEW r \in Reqs, OutcomeWrite(r)
    PROVE  LedgerMove
<1>1. call[r] \in AtOutcome
  BY KindAt DEF OutcomeWrite
<1> DEFINE b == call[r].subject
           c == <<call[r].verdict, b>>
           s == StudentOf[b]
           o == OwnerOf[b]
           once == Recorded(events, s, c)
           one(u, v) == IF u = v THEN 1 ELSE 0
           times == [u \in Users |-> one(u, s) + one(u, o)]
<1>2. /\ b \in Bookings /\ c \in Cause /\ c \in Promised
      /\ s \in Users /\ o \in Users
  BY <1>1, Causes, PartiesAssumption DEF AtOutcome, Promised, OutcomeCause
<1>3. /\ events' = Recorded(once, o, c) /\ UNCHANGED <<score, queue, worker>>
      /\ WillQueue(r, "queueJobs", <<o, s>>)
  BY DEF OutcomeWrite
<1>4. call[r].todo = <<>>
  BY <1>1 DEF AtOutcome
<1> HIDE DEF b, c, s, o
<1>5. /\ times \in [Users -> 0..2]
      /\ \A u \in Users : times[u] = one(u, s) + one(u, o)
  OBVIOUS
<1>6. events \in [Users -> Tally] /\ \A u \in Users, d \in Cause : events[u][d] \in Nat
  BY DEF TypeOK, Tally
<1>7. once \in [Users -> Tally] /\ \A u \in Users, d \in Cause :
          once[u][d] = IF d = c THEN events[u][d] + one(u, s) ELSE events[u][d]
  <2>1. /\ once \in [Users -> Tally]
        /\ \A u \in Users, d \in Cause :
              once[u][d] = IF u = s /\ d = c THEN events[u][d] + 1 ELSE events[u][d]
    BY <1>2, <1>6, OneMore
  <2> HIDE DEF once
  <2>2. QED
    BY <1>6, <2>1
<1> HIDE DEF once
<1>8. events' \in [Users -> Tally] /\ \A u \in Users, d \in Cause :
          events'[u][d] = IF u = o /\ d = c THEN once[u][d] + 1 ELSE once[u][d]
  BY <1>2, <1>3, <1>7, OneMore
<1>9. \A u \in Users, d \in Cause :
          events'[u][d] = IF d = c THEN events[u][d] + times[u] ELSE events[u][d]
  <2> HIDE DEF times
  <2>1. QED
    BY <1>5, <1>6, <1>7, <1>8
<1>10. ASSUME NEW u \in Users PROVE times[u] > 0 <=> u \in {o, s}
  <2> HIDE DEF times
  <2>1. times[u] = one(u, s) + one(u, o)
    BY <1>5
  <2>2. CASE u = s /\ u = o
    BY <2>1, <2>2
  <2>3. CASE u = s /\ u # o
    BY <2>1, <2>3
  <2>4. CASE u # s /\ u = o
    BY <2>1, <2>4
  <2>5. CASE u # s /\ u # o
    BY <2>1, <2>5
  <2>6. QED
    BY <2>2, <2>3, <2>4, <2>5
<1> HIDE DEF times
<1>11. events' = Grown(events, c, times)
  BY <1>2, <1>5, <1>6, <1>8, <1>9, LogMoves
<1>12. DueUsers' = DueUsers \cup {o, s}
  <2>1. Elements(<<o, s>>) = {o, s}
    BY DEF Elements
  <2>2. call'[r].todo = <<o, s>> /\ \A q \in Reqs \ {r} : call'[q] = call[q]
    BY <1>3, CallsMoveOn
  <2> DEFINE users == {o, s}
  <2>3. users \in SUBSET Users
    BY <1>2
  <2>4. Elements(queue') \cup Elements(call'[r].todo) =
            Elements(queue) \cup Elements(call[r].todo) \cup users
    BY <1>3, <1>4, <2>1, <2>2, NobodyTodo
  <2> HIDE DEF users
  <2>5. DueUsers' = DueUsers \cup users
    BY <1>3, <2>2, <2>3, <2>4, DueGrows
  <2>6. QED
    BY <2>5 DEF users
<1>13. {u \in Users : c \in Promised /\ times[u] > 0} = {o, s}
  BY <1>2, <1>10
<1>14. Ledger!Happen(c, times)
  BY <1>3, <1>11, <1>12, <1>13 DEF Ledger!Happen, DueUsers, Grown
<1>15. QED
  BY <1>2, <1>5, <1>14 DEF LedgerMove, Ledger!LedgerNext

\* The jobs that a request adds to the queue, or is to add.
LEMMA JobMoves ==
    ASSUME TypeOK, RowsExist, NEW r \in Reqs,
           QueueJob(r) \/ ResolveQueue(r) \/ DuplicateWrite(r) \/ ConfirmWrite(r)
    PROVE  LedgerMove
<1>1. CASE QueueJob(r)
  <2>1. call[r].todo \in Seq(Users) /\ call[r].todo # <<>>
    BY <1>1, TodoOf DEF QueueJob
  <2>2. /\ Head(call[r].todo) \in Users
        /\ Elements(call[r].todo) = {Head(call[r].todo)} \cup Elements(Tail(call[r].todo))
    BY <2>1, HeadAndTail
  <2>3. Elements(queue') = Elements(queue) \cup {Head(call[r].todo)}
    BY <1>1, <2>2, Appended DEF QueueJob, TypeOK
  <2>4. call'[r].todo = Tail(call[r].todo) /\ \A q \in Reqs \ {r} : call'[q] = call[q]
    <3>1. CASE Tail(call[r].todo) = <<>> /\ Answer(r)
      <4>1. IdleCall.todo = <<>>
        BY DEF IdleCall
      <4>2. \A q \in Reqs : IF q = r THEN call'[q] = IdleCall ELSE call'[q] = call[q]
        BY <3>1, Moves
      <4>3. QED
        BY <3>1, <4>1, <4>2
    <3>2. ASSUME NEW pc, WillQueue(r, pc, Tail(call[r].todo))
          PROVE  call'[r].todo = Tail(call[r].todo) /\ \A q \in Reqs \ {r} : call'[q] = call[q]
      BY <3>2, CallsMoveOn
    <3>3. QED
      BY <1>1, <3>1, <3>2 DEF QueueJob
  <2>5. Elements(queue') \cup Elements(call'[r].todo) =
            Elements(queue) \cup Elements(call[r].todo) \cup {}
    BY <2>2, <2>3, <2>4
  <2>6. DueUsers' = DueUsers \cup {}
    BY <1>1, <2>4, <2>5, DueGrows DEF QueueJob
  <2>7. QED
    BY <1>1, <2>6, NothingMoves DEF QueueJob
<1>2. CASE ResolveQueue(r)
  <2> DEFINE u == report[call[r].subject].user
  <2>1. u \in Users
    BY <1>2, RowAt DEF ResolveQueue, Penalises, ReportRow
  <2>2. queue' = Append(queue, u)
    BY <1>2 DEF ResolveQueue
  <2> HIDE DEF u
  <2>3. Elements(queue') = Elements(queue) \cup {u}
    BY <2>1, <2>2, Appended DEF TypeOK
  <2>4. \A q \in Reqs : call'[q].todo = call[q].todo
    BY <1>2, TodoKept DEF ResolveQueue
  <2>5. Elements(queue') \cup Elements(call'[r].todo) =
            Elements(queue) \cup Elements(call[r].todo) \cup {u}
    BY <2>3, <2>4
  <2>6. DueUsers' = DueUsers \cup {u}
    <3> DEFINE users == {u}
    <3>1. users \in SUBSET Users /\ UNCHANGED worker
      BY <1>2, <2>1 DEF ResolveQueue
    <3>2. Elements(queue') \cup Elements(call'[r].todo) =
              Elements(queue) \cup Elements(call[r].todo) \cup users
      BY <2>5
    <3> HIDE DEF users
    <3>3. DueUsers' = DueUsers \cup users
      BY <2>4, <3>1, <3>2, DueGrows
    <3>4. QED
      BY <3>3 DEF users
  <2>7. QED
    BY <1>2, <2>1, <2>6, AskMoves DEF ResolveQueue
<1>3. CASE DuplicateWrite(r) /\ call[r].verdict = "CONFIRMED"
  <2> DEFINE owners == OwnersToPenalise(call[r].subject)
             users == Elements(owners)
  <2>1. call[r] \in AtDuplicate
    BY <1>3, KindAt DEF DuplicateWrite
  <2>2. owners \in Seq(Users)
    BY <2>1, OwnersType DEF AtDuplicate
  <2>3. users \in SUBSET Users
    BY <2>2 DEF Elements
  <2>4. call[r].todo = <<>>
    BY <2>1 DEF AtDuplicate
  <2>5. WillQueue(r, "penalise", owners) /\ UNCHANGED <<events, score, queue, worker>>
    BY <1>3 DEF DuplicateWrite
  <2> HIDE DEF owners
  <2>6. call'[r].todo = owners /\ \A q \in Reqs \ {r} : call'[q] = call[q]
    BY <2>5, CallsMoveOn
  <2>7. Elements(queue') \cup Elements(call'[r].todo) =
            Elements(queue) \cup Elements(call[r].todo) \cup users
    BY <2>4, <2>5, <2>6, NobodyTodo
  <2> HIDE DEF users
  <2>8. DueUsers' = DueUsers \cup users
    BY <2>3, <2>5, <2>6, <2>7, DueGrows
  <2>9. QED
    BY <2>3, <2>5, <2>8, AskMoves
<1>4. CASE DuplicateWrite(r) /\ call[r].verdict # "CONFIRMED"
  <2>1. call[r].todo = <<>> /\ Answer(r)
    BY <1>4, TodoOf DEF DuplicateWrite
  <2>2. \A q \in Reqs : call'[q].todo = call[q].todo
    BY <2>1, TodoKept
  <2>3. QED
    BY <1>4, <2>2, DueStays, NothingMoves DEF DuplicateWrite
<1>5. CASE ConfirmWrite(r)
  <2> DEFINE parties == <<StudentOf[call[r].subject], OwnerOf[call[r].subject]>>
             users == Elements(parties)
  <2>1. call[r] \in AtConfirm
    BY <1>5, KindAt DEF ConfirmWrite
  <2>2. parties \in Seq(Users)
    BY <2>1, PartiesAssumption DEF AtConfirm
  <2>3. users \in SUBSET Users
    BY <2>2 DEF Elements
  <2>4. call[r].todo = <<>>
    BY <2>1 DEF AtConfirm
  <2>5. WillQueue(r, "queueJobs", parties) /\ UNCHANGED <<events, score, queue, worker>>
    BY <1>5 DEF ConfirmWrite
  <2> HIDE DEF parties
  <2>6. call'[r].todo = parties /\ \A q \in Reqs \ {r} : call'[q] = call[q]
    BY <2>5, CallsMoveOn
  <2>7. Elements(queue') \cup Elements(call'[r].todo) =
            Elements(queue) \cup Elements(call[r].todo) \cup users
    BY <2>4, <2>5, <2>6, NobodyTodo
  <2> HIDE DEF users
  <2>8. DueUsers' = DueUsers \cup users
    BY <2>3, <2>5, <2>6, <2>7, DueGrows
  <2>9. QED
    BY <2>3, <2>5, <2>8, AskMoves
<1>6. QED
  BY <1>1, <1>2, <1>3, <1>4, <1>5

\* The other events: each is of one user, and no job is added.
LEMMA EventSteps ==
    ASSUME TypeOK, RowsExist, NEW r \in Reqs,
           ReporterEvent(r) \/ ResolveCommit(r) \/ Penalise(r) \/ ReviewEvent(r)
    PROVE  LedgerMove
<1>1. /\ UNCHANGED <<score, queue, worker>>
      /\ \A q \in Reqs : call'[q].todo = call[q].todo
  <2>1. CASE ReporterEvent(r) \/ ResolveCommit(r) \/ ReviewEvent(r)
    <3>1. call[r].todo = <<>>
      BY <2>1, TodoOf DEF ReporterEvent, ResolveCommit, ReviewEvent
    <3>2. QED
      BY <2>1, <3>1, TodoKept DEF ReporterEvent, ResolveCommit, ReviewEvent
  <2>2. CASE Penalise(r)
    BY <2>2, TodoKept DEF Penalise
  <2>3. QED
    BY <2>1, <2>2
<1>2. DueUsers' = DueUsers
  BY <1>1, DueStays
<1>3. \A c \in Promised : c[1] \in Outcome \cup {"duplicate"}
  BY DEF Promised, OutcomeCause, DuplicateCause
<1>4. ASSUME NEW v \in Users, NEW c \in Cause, events' = Recorded(events, v, c),
             c[1] \in {"report", "reporter", "review"}
      PROVE  LedgerMove
  <2>1. c \notin Promised
    BY <1>3, <1>4 DEF Outcome
  <2>2. QED
    BY <1>1, <1>2, <1>4, <2>1, EventMoves
<1>5. CASE ReporterEvent(r)
  <2>1. call[r].subject \in Reports /\ report[call[r].subject].reporter \in Users
    BY <1>5, RowAt DEF ReporterEvent, ReportRow
  <2>2. QED
    BY <1>4, <1>5, <2>1, Causes DEF ReporterEvent
<1>6. CASE ResolveCommit(r) /\ Penalises(r)
  <2>1. call[r].subject \in Reports /\ report[call[r].subject].user \in Users
    BY <1>6, RowAt DEF ResolveCommit, Penalises, ReportRow
  <2>2. QED
    BY <1>4, <1>6, <2>1, Causes DEF ResolveCommit
<1>7. CASE ResolveCommit(r) /\ ~Penalises(r)
  BY <1>1, <1>2, <1>7, NothingMoves DEF ResolveCommit
<1>8. CASE ReviewEvent(r)
  <2>1. call[r].subject \in Bookings /\ OwnerOf[call[r].subject] \in Users
    BY <1>8, KindAt, PartiesAssumption DEF ReviewEvent, AtReview
  <2>2. QED
    BY <1>4, <1>8, <2>1, Causes DEF ReviewEvent
<1>9. CASE Penalise(r)
  <2> DEFINE v == Head(call[r].todo)
             c == <<"duplicate", call[r].subject>>
  <2>1. call[r] \in AtPenalty
    BY <1>9, KindAt DEF Penalise
  <2>2. v \in Users /\ v \in Elements(call[r].todo) /\ c \in Cause
    BY <2>1, HeadAndTail, Causes DEF AtPenalty
  <2>3. events' = Recorded(events, v, c)
    BY <1>9 DEF Penalise
  <2>4. v \in DueUsers
    BY <2>2 DEF DueUsers, Due, Awaited
  <2> HIDE DEF v, c
  <2>5. QED
    BY <1>1, <1>2, <2>2, <2>3, <2>4, EventMoves
<1>10. QED
  BY <1>5, <1>6, <1>7, <1>8, <1>9

\* The score of a user is due no more once it counts all that was promised.
LEMMA ScoreMoves ==
    ASSUME Base, OneScorePerUser, Ordered, AllFresh', [Next]_vars,
           RecomputeWrite \/ \E r \in Reqs : InlineWrite(r)
    PROVE  LedgerMove
<1>1. TypeOK /\ \A u \in Users, c \in Cause :
          /\ Counts(score'[u], c) >= Counts(score[u], c)
          /\ Counts(score'[u], c) <= events'[u][c]
  BY OrderedStep DEF Base
<1>2. ASSUME NEW r \in Reqs, InlineWrite(r) PROVE LedgerMove
  <2>1. /\ call[r].pc = "inlineWrite"
        /\ call[r].subject \in Users /\ call[r].seen \in Tally
        /\ score' = [score EXCEPT ![call[r].subject] = call[r].seen]
        /\ UNCHANGED <<events, queue, worker>>
    BY <1>1, <1>2, ScoreWritten
  <2>2. call[r].todo = <<>> /\ Answer(r)
    BY <1>1, <1>2, <2>1, TodoOf DEF InlineWrite
  <2>3. \A q \in Reqs : call'[q].todo = call[q].todo
    BY <1>1, <2>2, TodoKept
  <2>4. DueUsers' = DueUsers
    BY <2>1, <2>3, DueStays
  <2>5. QED
    BY <1>1, <2>1, <2>4, RescoreMoves
<1>3. CASE RecomputeWrite
  <2> PICK u \in Users : u = worker.user
    BY <1>1, <1>3, ScoreWritten
  <2>1. /\ u = worker.user /\ worker.seen \in Tally /\ worker' = NoJob
        /\ score' = [score EXCEPT ![u] = worker.seen]
        /\ UNCHANGED <<events, queue, call>>
    BY <1>1, <1>3, ScoreWritten
  <2>2. \A v \in Users : /\ Awaited(v)' <=> Awaited(v)
                         /\ Due(v)' <=> Awaited(v)
                         /\ Due(v) <=> Awaited(v) \/ v = u
    BY <2>1, NullAssumption DEF Due, Awaited, NoJob
  <2>3. CASE Awaited(u)
    <3>1. DueUsers' = DueUsers
      BY <2>2, <2>3 DEF DueUsers
    <3>2. QED
      BY <1>1, <2>1, <3>1, RescoreMoves
  <2>4. CASE ~Awaited(u)
    <3>1. DueUsers' = DueUsers \ {u}
      BY <2>2, <2>4 DEF DueUsers
    <3>2. worker'.user # u /\ ~Awaited(u)'
      BY <2>1, <2>2, <2>4, NullAssumption DEF NoJob
    <3>3. ASSUME NEW c \in Promised PROVE Counts(score'[u], c) = events[u][c]
      <4>1. Fresh(u, c)'
        BY <2>1 DEF AllFresh
      <4>2. QED
        BY <2>1, <3>2, <4>1 DEF Fresh
    <3>4. QED
      BY <1>1, <2>1, <3>1, <3>3, RescoreMoves
  <2>5. QED
    BY <2>3, <2>4
<1>4. QED
  BY <1>2, <1>3

\* What the worker takes, and what a fault leaves to do, is due as before.
LEMMA WorkerMoves ==
    ASSUME TypeOK, NoJobIsLost, ~RecomputeWrite, RecomputeRead \/ RecomputeFails \/ Crash
    PROVE  LedgerMove
<1>1. UNCHANGED <<events, score>>
  BY DEF RecomputeRead, RecomputeFails, Crash
<1>2. queue \in Seq(Users) /\ \A u \in Users : NoJob.user # u
  BY NullAssumption DEF TypeOK, NoJob
<1>3. CASE RecomputeRead
  <2>1. /\ worker = NoJob /\ worker'.user = Head(queue) /\ UNCHANGED call
        /\ queue' = Tail(queue)
        /\ Elements(queue) = {Head(queue)} \cup Elements(Tail(queue))
    BY <1>2, <1>3, HeadAndTail DEF RecomputeRead
  <2>2. \A u \in Users : Due(u)' <=> Due(u)
    BY <1>2, <2>1 DEF Due, Awaited
  <2>3. QED
    BY <1>1, <2>2, NothingMoves DEF DueUsers
<1>4. CASE Crash
  <2>1. \A q \in Reqs : call[q].todo = <<>> /\ call'[q].todo = <<>>
    BY <1>4 DEF NoJobIsLost, Crash, IdleCall
  <2>2. \A u \in Users : /\ Awaited(u) <=> u \in Elements(queue)
                         /\ Awaited(u)' <=> u \in Elements(queue')
    BY <2>1, NobodyTodo DEF Awaited
  <2>3. \A u \in Users : worker'.user # u
    BY <1>2, <1>4 DEF Crash
  <2>4. CASE queue' = queue
    <3>1. worker = NoJob
      BY <1>4, <2>4 DEF NoJobIsLost
    <3>2. \A u \in Users : Due(u)' <=> Due(u)
      BY <1>2, <2>2, <2>3, <2>4, <3>1 DEF Due
    <3>3. QED
      BY <1>1, <3>2, NothingMoves DEF DueUsers
  <2>5. CASE worker # NoJob /\ queue' = <<worker.user>> \o queue
    <3>1. worker.user \in Users
      BY <2>5 DEF TypeOK
    <3>2. Elements(queue') = Elements(queue) \cup {worker.user}
      BY <1>2, <2>5, <3>1, Prepended
    <3>3. \A u \in Users : Due(u)' <=> Due(u)
      BY <2>2, <2>3, <3>2 DEF Due
    <3>4. QED
      BY <1>1, <3>3, NothingMoves DEF DueUsers
  <2>6. QED
    BY <1>4, <2>4, <2>5 DEF Crash
<1>5. ~RecomputeFails
  BY DEF NoJobIsLost, RecomputeFails
<1>6. QED
  BY <1>3, <1>4, <1>5

\* The steps that record no event, write no score and touch no job.
LEMMA QuietMoves ==
    ASSUME TypeOK, NEW r \in Reqs,
           \/ CallStarts(r)
           \/ CancelWrite(r)
           \/ CreateReviewWrite(r)
           \/ ModerateWrite(r)
           \/ InlineRead(r)
           \/ CallFails(r) /\ call[r].todo = <<>>
    PROVE  LedgerMove
<1>1. UNCHANGED <<events, score, queue, worker>>
  BY DEF CallStarts, ConfirmRead, CancelRead, OutcomeRead, ReportFraud, ResolveRead,
     DuplicateRead, CreateReviewRead,
     ModerateRead, GetScore, CancelWrite, CreateReviewWrite, ModerateWrite, InlineRead,
     CallFails
<1>2. ASSUME NEW q \in Reqs PROVE call'[q].todo = call[q].todo
  <2>1. CASE CallStarts(r)
    <3>1. \E op, pc, x, v : Start(r, op, pc, x, v)
      BY <2>1 DEF CallStarts, ConfirmRead, CancelRead, OutcomeRead, ReportFraud, ResolveRead,
         DuplicateRead,
         CreateReviewRead, ModerateRead, GetScore
    <3>2. QED
      BY <3>1, TodoKept
  <2>2. CASE CancelWrite(r) \/ CreateReviewWrite(r) \/ ModerateWrite(r)
    <3>1. call[r].todo = <<>>
      BY <2>2, TodoOf DEF CancelWrite, CreateReviewWrite, ModerateWrite
    <3>2. QED
      BY <2>2, <3>1, TodoKept DEF CancelWrite, CreateReviewWrite, ModerateWrite
  <2>3. CASE InlineRead(r)
    BY <2>3, TodoKept
  <2>4. CASE CallFails(r) /\ call[r].todo = <<>>
    BY <2>4, TodoKept DEF CallFails
  <2>5. QED
    BY <2>1, <2>2, <2>3, <2>4
<1>3. QED
  BY <1>1, <1>2, DueStays, NothingMoves

LEMMA LedgerStep ==
    ASSUME Base, OneScorePerUser, Ordered, AllFresh', [Next /\ NoJobIsLost]_vars
    PROVE  LedgerMove
<1>1. TypeOK /\ RowsExist /\ [Next]_vars
  BY DEF Base
<1>2. CASE UNCHANGED vars
  BY <1>2, DueStays, NothingMoves DEF vars
<1>3. ASSUME NEW r \in Reqs, CallStarts(r) PROVE LedgerMove
  BY <1>1, <1>3, QuietMoves
<1>4. ASSUME NEW r \in Reqs, CallGoesOn(r) PROVE LedgerMove
  BY <1>1, <1>4, OutcomeMoves, JobMoves, EventSteps, QuietMoves, ScoreMoves DEF CallGoesOn
<1>5. ASSUME NEW r \in Reqs, CallFails(r), NoJobIsLost PROVE LedgerMove
  <2>1. call[r].todo = <<>>
    BY <1>5 DEF NoJobIsLost
  <2>2. QED
    BY <1>1, <1>5, <2>1, QuietMoves
<1>6. ASSUME NEW d \in Duplicates, FlagDuplicate(d) PROVE LedgerMove
  BY <1>6, DueStays, NothingMoves DEF FlagDuplicate
<1>7. ASSUME NEW u \in Users, VerifyIdentity(u) PROVE LedgerMove
  <2> DEFINE c == <<"identity", u>>
  <2>1. /\ c \in Cause /\ c \notin Promised
        /\ events' = Recorded(events, u, c) /\ UNCHANGED <<score, queue, worker, call>>
    BY <1>7, Causes DEF VerifyIdentity, Promised, OutcomeCause, DuplicateCause, Outcome
  <2> HIDE DEF c
  <2>2. DueUsers' = DueUsers
    BY <2>1, DueStays
  <2>3. QED
    BY <1>1, <2>1, <2>2, EventMoves
<1>8. CASE RecomputeWrite
  BY <1>1, <1>8, ScoreMoves
<1>9. ASSUME RecomputeRead \/ RecomputeFails \/ Crash, NoJobIsLost PROVE LedgerMove
  BY <1>1, <1>8, <1>9, WorkerMoves
<1>10. QED
  BY <1>2, <1>3, <1>4, <1>5, <1>6, <1>7, <1>8, <1>9 DEF Next, Recompute

\* While no job is lost and a score has one writer at a time, everything the services and
\* the worker of trust-recompute.processor do is a step of TrustLedger: a score that stays due
\* until it counts every outcome and every duplicate, and never forgets an event.
THEOREM LedgerImplemented ==
    Spec /\ []OneScorePerUser /\ [][NoJobIsLost]_vars => ImplementsLedger
<1>1. Init => Ledger!LedgerInit
  <2>1. ASSUME Init PROVE {u \in Users : Due(u)} = {}
    BY <2>1, NobodyTodo, NullAssumption DEF Init, Due, Awaited, NoJob, IdleCall
  <2>2. QED
    BY <2>1 DEF Init, Ledger!LedgerInit
<1>2. /\ Base /\ OneScorePerUser /\ Ordered /\ AllFresh'
      /\ [Next]_vars /\ [NoJobIsLost]_vars
      => LedgerMove
  BY LedgerStep
<1>3. QED
  BY <1>1, <1>2, BaseHolds, OrderedHolds, AllFreshHolds, PTL
     DEF Spec, ImplementsLedger, Ledger!LedgerSpec, LedgerMove

-----------------------------------------------------------------------------
(* Verdicts, while a report has one administrator at a time, and reviews   *)

LEMMA OtherCause ==
    ASSUME NEW log \in [Users -> Tally], NEW u \in Users, NEW c \in Cause,
           NEW v \in Users, NEW d \in Cause, d # c
    PROVE  /\ Recorded(log, u, c) \in [Users -> Tally]
           /\ Recorded(log, u, c)[v][d] = log[v][d]
  BY OneMore

\* Which event a step records, by its cause: the methods that are not about
\* reports or reviews leave the events about those alone.
LEMMA EventsOfMethods ==
    ASSUME TypeOK, RowsExist, [Next]_vars, NEW u \in Users, NEW c \in Cause,
           c[1] \in {"report", "review"}
    PROVE  \/ events'[u][c] = events[u][c]
           \/ \E r \in Reqs : /\ ResolveCommit(r) /\ Penalises(r)
                             /\ c = <<"report", call[r].subject>>
                             /\ u = report[call[r].subject].user
           \/ \E r \in Reqs : /\ ReviewEvent(r)
                             /\ c = <<"review", call[r].subject>>
                             /\ u = OwnerOf[call[r].subject]
<1>1. events \in [Users -> Tally]
  BY DEF TypeOK
<1>2. ASSUME NEW r \in Reqs, OutcomeWrite(r) PROVE events'[u][c] = events[u][c]
  <2>1. call[r] \in AtOutcome
    BY <1>2, KindAt DEF OutcomeWrite
  <2> DEFINE g == call[r].subject
             d == <<call[r].verdict, g>>
             once == Recorded(events, StudentOf[g], d)
  <2>2. /\ g \in Bookings /\ d \in Cause
        /\ StudentOf[g] \in Users /\ OwnerOf[g] \in Users
    BY <2>1, Causes, PartiesAssumption DEF AtOutcome
  <2>3. c # d
    BY <2>1 DEF AtOutcome, Outcome
  <2>4. events' = Recorded(once, OwnerOf[g], d)
    BY <1>2 DEF OutcomeWrite
  <2> HIDE DEF g, d
  <2>5. once \in [Users -> Tally] /\ once[u][c] = events[u][c]
    BY <1>1, <2>2, <2>3, OtherCause
  <2> HIDE DEF once
  <2>6. QED
    BY <2>2, <2>3, <2>4, <2>5, OtherCause
<1>3. ASSUME NEW r \in Reqs, ReporterEvent(r) PROVE events'[u][c] = events[u][c]
  <2>1. /\ call[r].subject \in Reports
        /\ report[call[r].subject].reporter \in Users
    BY <1>3, RowAt DEF ReporterEvent, ReportRow
  <2>2. <<"reporter", call[r].subject>> \in Cause
    BY <2>1, Causes
  <2>3. <<"reporter", call[r].subject>> # c
    <3>1. <<"reporter", call[r].subject>>[1] = "reporter"
      OBVIOUS
    <3>2. QED
      BY <3>1
  <2>4. QED
    BY <1>1, <1>3, <2>1, <2>2, <2>3, OtherCause DEF ReporterEvent
<1>4. ASSUME NEW r \in Reqs, ResolveCommit(r)
      PROVE  \/ events'[u][c] = events[u][c]
             \/ /\ Penalises(r)
                /\ c = <<"report", call[r].subject>>
                /\ u = report[call[r].subject].user
  <2>1. call[r].subject \in Reports /\ report[call[r].subject] \in ReportRow
    BY <1>4, RowAt DEF ResolveCommit
  <2>2. CASE Penalises(r)
    <3>1. report[call[r].subject].user \in Users
      BY <2>1, <2>2 DEF Penalises, ReportRow
    <3>2. events' = Recorded(events, report[call[r].subject].user,
                             <<"report", call[r].subject>>)
      BY <1>4, <2>2 DEF ResolveCommit
    <3>3. <<"report", call[r].subject>> \in Cause
      BY <2>1, Causes
    <3>4. QED
      BY <1>1, <2>2, <3>1, <3>2, <3>3, OneMore
  <2>3. CASE ~Penalises(r)
    BY <1>4, <2>3 DEF ResolveCommit
  <2>4. QED
    BY <2>2, <2>3
<1>5. ASSUME NEW r \in Reqs, Penalise(r) PROVE events'[u][c] = events[u][c]
  <2>1. call[r] \in AtPenalty
    BY <1>5, KindAt DEF Penalise
  <2>2. call[r].subject \in Duplicates /\ Head(call[r].todo) \in Users
    BY <2>1, HeadAndTail DEF AtPenalty
  <2>3. <<"duplicate", call[r].subject>> \in Cause /\ <<"duplicate", call[r].subject>> # c
    BY <2>2, Causes
  <2>4. QED
    BY <1>1, <1>5, <2>2, <2>3, OtherCause DEF Penalise
<1>6. ASSUME NEW r \in Reqs, ReviewEvent(r)
      PROVE  \/ events'[u][c] = events[u][c]
             \/ c = <<"review", call[r].subject>> /\ u = OwnerOf[call[r].subject]
  <2>1. call[r] \in AtReview
    BY <1>6, KindAt DEF ReviewEvent
  <2>2. call[r].subject \in Bookings /\ OwnerOf[call[r].subject] \in Users
    BY <2>1, PartiesAssumption DEF AtReview
  <2>3. <<"review", call[r].subject>> \in Cause
    BY <2>2, Causes
  <2>4. QED
    BY <1>1, <1>6, <2>2, <2>3, OneMore DEF ReviewEvent
<1>7. ASSUME NEW v \in Users, VerifyIdentity(v) PROVE events'[u][c] = events[u][c]
  <2>1. <<"identity", v>> \in Cause /\ <<"identity", v>> # c
    BY Causes
  <2>2. QED
    BY <1>1, <1>7, <2>1, OtherCause DEF VerifyIdentity
<1>8. QED
  BY <1>2, <1>3, <1>4, <1>5, <1>6, <1>7, LogSteps

\* The strengthening: a report that is about to be resolved has no verdict.
VerdictInv ==
    /\ VerdictsCountOnce
    /\ \A r \in Reqs : call[r].pc \in {"resolve", "commit"} =>
           report[call[r].subject].status = "PENDING"

\* With nobody else at it, a report stays pending while it is being resolved.
LEMMA PendingStep ==
    ASSUME TypeOK, RowsExist, OneVerdictPerReport, VerdictInv, [Next]_vars,
           NEW q \in Reqs, call'[q].pc \in {"resolve", "commit"}
    PROVE  report'[call'[q].subject].status = "PENDING"
<1>1. CASE report'[call'[q].subject].status = "PENDING"
  BY <1>1
<1>2. CASE /\ call'[q].pc = call[q].pc \/ call[q].pc = "resolve"
           /\ call'[q].subject = call[q].subject
  <2> DEFINE x == call[q].subject
  <2>1. call[q].pc \in {"resolve", "commit"} /\ report[x].status = "PENDING"
    BY <1>2 DEF VerdictInv
  <2>2. ASSUME NEW r \in Reqs, NEW p, NEW u, NEW t, NEW onListing,
               ReportFraud(r, p, u, t, onListing)
        PROVE  report'[x] = report[x]
    <3>1. p # x
      BY <2>1, <2>2 DEF ReportFraud
    <3>2. report' = [report EXCEPT ![p] = report'[p]]
      BY <2>2 DEF ReportFraud, TypeOK
    <3>3. x \in Reports
      BY <2>1, RowAt
    <3>4. QED
      BY <3>1, <3>2, <3>3 DEF TypeOK
  <2>3. ASSUME NEW r \in Reqs, ResolveCommit(r) PROVE report'[x] = report[x]
    <3>1. call[r].pc \in {"resolve", "commit"}
      BY <2>3 DEF ResolveCommit
    <3>2. r # q
      BY <2>3 DEF ResolveCommit, Answer, IdleCall, TypeOK
    <3>3. call[r].subject # x
      BY <2>1, <3>1, <3>2 DEF OneVerdictPerReport
    <3>4. x \in Reports
      BY <2>1, RowAt
    <3>5. QED
      BY <2>3, <3>3, <3>4 DEF ResolveCommit, TypeOK
  <2>4. report'[x] = report[x]
    BY <2>2, <2>3, ReportSteps
  <2>5. QED
    BY <1>2, <2>1, <2>4
<1>3. QED
  BY <1>1, <1>2, CallsMove

LEMMA VerdictStep ==
    ASSUME TypeOK, RowsExist, VerdictInv, [Next]_vars,
           NEW p \in Reports, NEW u \in Users
    PROVE  events'[u][<<"report", p>>] =
               IF report'[p].status = "CONFIRMED" /\ report'[p].user = u THEN 1 ELSE 0
<1> DEFINE c == <<"report", p>>
<1>1. c \in Cause /\ events \in [Users -> Tally]
  BY Causes DEF TypeOK
<1>2. events[u][c] = IF report[p].status = "CONFIRMED" /\ report[p].user = u THEN 1 ELSE 0
  BY DEF VerdictInv, VerdictsCountOnce
<1>3. ASSUME NEW r \in Reqs, ResolveCommit(r), call[r].subject = p
      PROVE  events'[u][c] =
                 IF report'[p].status = "CONFIRMED" /\ report'[p].user = u THEN 1 ELSE 0
  <2>1. report[p].status = "PENDING" /\ report[p] \in ReportRow
    BY <1>3, RowAt DEF VerdictInv, ResolveCommit
  <2>2. report'[p].status = call[r].verdict /\ report'[p].user = report[p].user
    BY <1>3, <2>1 DEF ResolveCommit, TypeOK, ReportRow
  <2>3. events[u][c] = 0
    BY <1>2, <2>1
  <2>4. CASE Penalises(r)
    <3>1. report[p].user \in Users /\ call[r].verdict = "CONFIRMED"
      BY <1>3, <2>1, <2>4 DEF Penalises, ReportRow
    <3>2. events' = Recorded(events, report[p].user, c)
      BY <1>3, <2>4 DEF ResolveCommit
    <3>3. QED
      BY <1>1, <2>2, <2>3, <3>1, <3>2, OneMore
  <2>5. CASE ~Penalises(r)
    <3>1. events' = events
      BY <1>3, <2>5 DEF ResolveCommit
    <3>2. call[r].verdict # "CONFIRMED" \/ report[p].user = Null
      BY <1>3, <2>5 DEF Penalises
    <3>3. QED
      BY <2>2, <2>3, <3>1, <3>2, NullAssumption
  <2>6. QED
    BY <2>4, <2>5
<1>4. ASSUME ~\E r \in Reqs : ResolveCommit(r) /\ call[r].subject = p
      PROVE  events'[u][c] =
                 IF report'[p].status = "CONFIRMED" /\ report'[p].user = u THEN 1 ELSE 0
  <2>1. events'[u][c] = events[u][c]
    <3>1. ASSUME NEW r \in Reqs, c = <<"report", call[r].subject>> PROVE call[r].subject = p
      BY <3>1
    <3>2. ASSUME NEW r \in Reqs, ReviewEvent(r) PROVE c # <<"review", call[r].subject>>
      OBVIOUS
    <3>3. c[1] = "report"
      OBVIOUS
    <3> HIDE DEF c
    <3>4. QED
      BY <1>1, <1>4, <3>1, <3>2, <3>3, EventsOfMethods
  <2>2. \/ report'[p] = report[p]
        \/ report[p].status = "NONE" /\ report'[p].status = "PENDING"
    <3>1. ASSUME NEW r \in Reqs, NEW x \in Reports, NEW v \in Reporters,
                 NEW t \in Suspects \cup {Null}, NEW onListing \in BOOLEAN,
                 ReportFraud(r, x, v, t, onListing)
          PROVE  \/ report'[p] = report[p]
                 \/ report[p].status = "NONE" /\ report'[p].status = "PENDING"
      BY <3>1 DEF ReportFraud, TypeOK
    <3>2. ASSUME NEW r \in Reqs, ResolveCommit(r) PROVE report'[p] = report[p]
      BY <1>4, <3>2 DEF ResolveCommit, TypeOK
    <3>3. QED
      BY <3>1, <3>2, ReportSteps
  <2>3. QED
    BY <1>2, <2>1, <2>2
<1>5. QED
  BY <1>3, <1>4

\* While no two administrators resolve one report at once a verdict counts exactly once,
\* whatever fails, whoever else is at work and however the worker runs:
\* resolveFraudReport of fraud.service asks for a pending report, and a transaction that
\* is rolled back takes its event with it.
THEOREM VerdictsOnce == Spec /\ []OneVerdictPerReport => []VerdictsCountOnce
<1>1. Init => VerdictInv
  <2>1. ASSUME Init, NEW p \in Reports, NEW u \in Users
        PROVE  /\ events[u][<<"report", p>>] = 0
               /\ report[p].status = "NONE"
    <3>1. <<"report", p>> \in Cause
      BY Causes
    <3>2. QED
      BY <2>1, <3>1 DEF Init, NoReport
  <2>2. QED
    BY <2>1 DEF Init, VerdictInv, VerdictsCountOnce, IdleCall
<1>2. TypeOK /\ RowsExist /\ OneVerdictPerReport /\ VerdictInv /\ [Next]_vars => VerdictInv'
  BY PendingStep, VerdictStep DEF VerdictInv, VerdictsCountOnce
<1>3. VerdictInv => VerdictsCountOnce
  BY DEF VerdictInv
<1>4. QED
  BY <1>1, <1>2, <1>3, BaseHolds, PTL DEF Spec, Base

\* The strengthening: a booking that is completed has its events, and so has one that a
\* request is about to review; a review that a request has read is still there.
EarnedInv ==
    /\ ReviewsAreEarned
    /\ \A b \in Bookings : booking[b] = "COMPLETED" => RecordedAsCompleted(b)
    /\ \A r \in Reqs, b \in Bookings : call[r].subject = b =>
          /\ call[r].pc = "writeReview" => RecordedAsCompleted(b)
          /\ call[r].pc = "moderate" => review[b] # "NONE"
          /\ call[r].pc = "reviewEvent" => review[b] \in {"APPROVED", "HIDDEN"}

AboutReviews == {"writeReview", "moderate", "reviewEvent"}

\* The steps that change no review, nor come closer to it.
Aside ==
    /\ UNCHANGED review
    /\ \A q \in Reqs : call'[q] = call[q] \/ call'[q].pc \notin AboutReviews

LEMMA Elsewhere ==
    ASSUME TypeOK, NEW r \in Reqs, NEW op, NEW pc, NEW subject, NEW verdict,
           Start(r, op, pc, subject, verdict), pc \notin AboutReviews
    PROVE  \A q \in Reqs : call'[q] = call[q] \/ call'[q].pc \notin AboutReviews
BY DEF Start, TypeOK

\* What the other steps are.
LEMMA ReviewSteps ==
    ASSUME TypeOK, [Next]_vars
    PROVE  \/ Aside
           \/ \E r \in Reqs : \/ \E b \in Bookings : CreateReviewRead(r, b)
                              \/ \E b \in Bookings, v \in {"APPROVED", "HIDDEN"} :
                                    ModerateRead(r, b, v)
                              \/ CreateReviewWrite(r) \/ ModerateWrite(r)
<1>1. ASSUME NEW r \in Reqs, CallStarts(r)
      PROVE  \/ Aside
             \/ \E b \in Bookings : CreateReviewRead(r, b)
             \/ \E b \in Bookings, v \in {"APPROVED", "HIDDEN"} : ModerateRead(r, b, v)
  <2>1. ASSUME NEW p, NEW u, NEW t, NEW onListing, ReportFraud(r, p, u, t, onListing)
        PROVE  Aside
    BY <2>1, Elsewhere DEF ReportFraud, Aside, AboutReviews
  <2>2. ASSUME NEW p, NEW v, ResolveRead(r, p, v) PROVE Aside
    BY <2>2, Elsewhere DEF ResolveRead, Aside, AboutReviews
  <2>3. ASSUME NEW d, NEW v, DuplicateRead(r, d, v) PROVE Aside
    BY <2>3, Elsewhere DEF DuplicateRead, Aside, AboutReviews
  <2>4. ASSUME NEW u, GetScore(r, u) PROVE Aside
    BY <2>4, Elsewhere DEF GetScore, Aside, AboutReviews
  <2>5. ASSUME NEW b, NEW o, OutcomeRead(r, b, o) PROVE Aside
    BY <2>5, Elsewhere DEF OutcomeRead, Aside, AboutReviews
  <2>6. ASSUME NEW b, ConfirmRead(r, b) PROVE Aside
    BY <2>6, Elsewhere DEF ConfirmRead, Aside, AboutReviews
  <2>7. ASSUME NEW b, CancelRead(r, b) PROVE Aside
    BY <2>7, Elsewhere DEF CancelRead, Aside, AboutReviews
  <2>8. QED
    BY <1>1, <2>1, <2>2, <2>3, <2>4, <2>5, <2>6, <2>7 DEF CallStarts
<1>2. ASSUME NEW r \in Reqs, Answer(r), UNCHANGED review PROVE Aside
  BY <1>2 DEF Answer, IdleCall, TypeOK, Aside, AboutReviews
<1>3. ASSUME NEW r \in Reqs, NEW next, call' = [call EXCEPT ![r] = next],
             next.pc \notin AboutReviews, UNCHANGED review
      PROVE  Aside
  BY <1>3 DEF TypeOK, Aside
<1>4. ASSUME NEW r \in Reqs, NEW pc, NEW users, WillQueue(r, pc, users),
             pc \notin AboutReviews, UNCHANGED review
      PROVE  Aside
  BY <1>4, CallsMoveOn DEF Aside
<1>5. ASSUME NEW r \in Reqs, CallGoesOn(r)
      PROVE  Aside \/ CreateReviewWrite(r) \/ ModerateWrite(r)
  <2>1. call[r] \in Request \cup {IdleCall}
    BY DEF TypeOK
  <2>2. CASE QueueJob(r)
    <3>1. \/ Answer(r)
          \/ \E pc \in {"queueJobs", "penalise"} : WillQueue(r, pc, Tail(call[r].todo))
      BY <2>2 DEF QueueJob
    <3>2. QED
      BY <1>2, <1>4, <2>2, <3>1 DEF QueueJob, AboutReviews
  <2>3. CASE \/ CancelWrite(r) \/ ReporterEvent(r) \/ ResolveCommit(r)
            \/ ReviewEvent(r) \/ InlineWrite(r)
    BY <1>2, <2>3 DEF CancelWrite, ReporterEvent, ResolveCommit, ReviewEvent, InlineWrite
  <2>4. CASE ResolveQueue(r)
    <3>1. [call[r] EXCEPT !.pc = "commit"].pc = "commit"
      BY <2>1 DEF Request, IdleCall
    <3>2. QED
      BY <1>3, <2>4, <3>1 DEF ResolveQueue, GoTo, AboutReviews
  <2>5. CASE DuplicateWrite(r) \/ ConfirmWrite(r) \/ OutcomeWrite(r)
    BY <1>2, <1>4, <2>5 DEF DuplicateWrite, ConfirmWrite, OutcomeWrite, AboutReviews
  <2>6. CASE Penalise(r)
    <3>1. [call[r] EXCEPT !.pc = "queuePenalty"].pc = "queuePenalty"
      BY <2>1 DEF Request, IdleCall
    <3>2. QED
      BY <1>3, <2>6, <3>1 DEF Penalise, GoTo, AboutReviews
  <2>7. CASE InlineRead(r)
    <3>1. ASSUME NEW seen
          PROVE  [call[r] EXCEPT !.pc = "inlineWrite", !.seen = seen].pc = "inlineWrite"
      BY <2>1 DEF Request, IdleCall
    <3>2. QED
      BY <1>3, <2>7, <3>1 DEF InlineRead, AboutReviews
  <2>8. QED
    BY <1>5, <2>2, <2>3, <2>4, <2>5, <2>6, <2>7 DEF CallGoesOn
<1>6. ASSUME NEW r \in Reqs, CallFails(r) PROVE Aside
  BY <1>2, <1>6 DEF CallFails
<1>7. ASSUME Crash PROVE Aside
  BY <1>7 DEF Crash, Aside, AboutReviews, IdleCall
<1>8. ASSUME \/ UNCHANGED vars \/ Recompute \/ RecomputeFails
             \/ \E d \in Duplicates : FlagDuplicate(d)
             \/ \E u \in Users : VerifyIdentity(u)
      PROVE  Aside
  BY <1>8 DEF vars, Recompute, RecomputeRead, RecomputeWrite, RecomputeFails, FlagDuplicate,
              VerifyIdentity, Aside
<1>9. QED
  BY <1>1, <1>5, <1>6, <1>7, <1>8 DEF Next

\* A booking becomes COMPLETED in the transaction that records it for both parties.
LEMMA CompletionRecorded ==
    ASSUME TypeOK, [Next]_vars, NEW b \in Bookings, booking'[b] = "COMPLETED"
    PROVE  booking[b] = "COMPLETED" \/ RecordedAsCompleted(b)'
<1>1. \/ UNCHANGED booking
      \/ \E r \in Reqs : ConfirmWrite(r) \/ CancelWrite(r) \/ OutcomeWrite(r)
  <2>1. ASSUME NEW r \in Reqs, CallStarts(r) PROVE UNCHANGED booking
    BY <2>1 DEF CallStarts, ConfirmRead, CancelRead, OutcomeRead, ReportFraud, ResolveRead,
                DuplicateRead, CreateReviewRead, ModerateRead, GetScore
  <2>2. ASSUME NEW r \in Reqs, CallGoesOn(r)
        PROVE  UNCHANGED booking \/ ConfirmWrite(r) \/ CancelWrite(r) \/ OutcomeWrite(r)
    BY <2>2 DEF CallGoesOn, QueueJob, ReporterEvent, ResolveQueue, ResolveCommit,
                DuplicateWrite, Penalise, CreateReviewWrite, ModerateWrite, ReviewEvent,
                InlineRead, InlineWrite
  <2>3. QED
    BY <2>1, <2>2 DEF Next, vars, CallFails, FlagDuplicate, VerifyIdentity, Recompute,
                      RecomputeRead, RecomputeWrite, RecomputeFails, Crash
<1>2. ASSUME NEW r \in Reqs, ConfirmWrite(r) \/ CancelWrite(r) PROVE booking[b] = "COMPLETED"
  BY <1>2 DEF ConfirmWrite, CancelWrite, TypeOK
<1>3. ASSUME NEW r \in Reqs, OutcomeWrite(r), booking[b] # "COMPLETED"
      PROVE  RecordedAsCompleted(b)'
  <2>1. call[r].subject = b /\ call[r].verdict = "COMPLETED"
    BY <1>3 DEF OutcomeWrite, TypeOK
  <2> DEFINE c == <<"COMPLETED", b>>
             s == StudentOf[b]
             o == OwnerOf[b]
             once == Recorded(events, s, c)
  <2>2. c \in Cause /\ s \in Users /\ o \in Users /\ events \in [Users -> Tally]
    BY Causes, PartiesAssumption DEF Outcome, TypeOK
  <2>3. events' = Recorded(once, o, c)
    BY <1>3, <2>1 DEF OutcomeWrite
  <2>4. RecordedAsCompleted(b)' <=> events'[s][c] > 0 /\ events'[o][c] > 0
    BY DEF RecordedAsCompleted
  <2> HIDE DEF c, s, o
  <2>5. \A u \in Users : events[u][c] \in Nat
    BY <2>2 DEF Tally
  <2>6. /\ once \in [Users -> Tally] /\ once[s][c] \in Nat /\ once[s][c] > 0
        /\ once[o][c] \in Nat
    BY <2>2, <2>5, OneMore
  <2> HIDE DEF once
  <2>7. \A u \in Users :
            events'[u][c] = IF u = o THEN once[u][c] + 1 ELSE once[u][c]
    BY <2>2, <2>3, <2>6, OneMore
  <2>8. events'[s][c] > 0 /\ events'[o][c] > 0
    BY <2>2, <2>6, <2>7
  <2>9. QED
    BY <2>4, <2>8
<1>4. QED
  BY <1>1, <1>2, <1>3

LEMMA RecordedStays ==
    ASSUME TypeOK, RowsExist, [Next]_vars, NEW b \in Bookings, RecordedAsCompleted(b)
    PROVE  RecordedAsCompleted(b)'
<1> DEFINE c == <<"COMPLETED", b>>
<1>1. c \in Cause /\ \A u \in {StudentOf[b], OwnerOf[b]} : u \in Users
  BY Causes, PartiesAssumption DEF Outcome
<1>2. \A u \in {StudentOf[b], OwnerOf[b]} : events[u][c] \in Nat /\ events'[u][c] \in Nat
  BY <1>1, TypeStep DEF TypeOK, Tally
<1>3. \A u \in {StudentOf[b], OwnerOf[b]} : events'[u][c] >= events[u][c]
  BY <1>1, LogGrows
<1>4. QED
  BY <1>2, <1>3 DEF RecordedAsCompleted

LEMMA EarnedStep ==
    ASSUME TypeOK, RowsExist, EarnedInv, [Next]_vars
    PROVE  EarnedInv'
<1>1. ASSUME NEW b \in Bookings, NEW u \in Users, events'[u][<<"review", b>>] > 0
      PROVE  review[b] \in {"APPROVED", "HIDDEN"} /\ u = OwnerOf[b]
  <2> DEFINE c == <<"review", b>>
  <2>1. c \in Cause /\ c[1] = "review" /\ \A x : c = <<"review", x>> => x = b
    BY Causes
  <2>2. \A x : c # <<"report", x>>
    OBVIOUS
  <2>3. CASE events'[u][c] = events[u][c]
    BY <1>1, <2>3 DEF EarnedInv, ReviewsAreEarned
  <2>4. ASSUME NEW r \in Reqs, ReviewEvent(r), c = <<"review", call[r].subject>>,
               u = OwnerOf[call[r].subject]
        PROVE  review[b] \in {"APPROVED", "HIDDEN"} /\ u = OwnerOf[b]
    BY <2>1, <2>4 DEF EarnedInv, ReviewEvent
  <2> HIDE DEF c
  <2>5. QED
    BY <2>1, <2>2, <2>3, <2>4, EventsOfMethods
<1>2. \A b \in Bookings : booking'[b] = "COMPLETED" => RecordedAsCompleted(b)'
  BY CompletionRecorded, RecordedStays DEF EarnedInv
<1>3. \A b \in Bookings : booking[b] = "COMPLETED" => RecordedAsCompleted(b)'
  BY RecordedStays DEF EarnedInv
<1>4. \A b \in Bookings : review[b] # "NONE" => RecordedAsCompleted(b)'
  BY RecordedStays DEF EarnedInv, ReviewsAreEarned
<1>5. \A q \in Reqs, x \in Bookings :
          call[q].pc = "writeReview" /\ call[q].subject = x => RecordedAsCompleted(x)'
  BY RecordedStays DEF EarnedInv
\* It remains to follow reviews and requests.
<1> DEFINE Good(b) == RecordedAsCompleted(b)'
           Statuses(b) == /\ review'[b] # "NONE" => Good(b)
                          /\ review[b] \in {"APPROVED", "HIDDEN"} =>
                                 review'[b] \in {"APPROVED", "HIDDEN"}
           Reads(q, x) ==
               call'[q].subject = x =>
                   /\ call'[q].pc = "writeReview" => Good(x)
                   /\ call'[q].pc = "moderate" => review'[x] # "NONE"
                   /\ call'[q].pc = "reviewEvent" => review'[x] \in {"APPROVED", "HIDDEN"}
           Holds == /\ \A b \in Bookings : Statuses(b)
                    /\ \A q \in Reqs, x \in Bookings : Reads(q, x)
<1>6. SUFFICES Holds
  <2>1. ASSUME Holds PROVE ReviewsAreEarned'
    BY <1>1, <2>1 DEF ReviewsAreEarned
  <2>2. QED
    BY <1>2, <2>1 DEF EarnedInv
<1> HIDE DEF Good
<1>7. /\ \A b \in Bookings : booking[b] = "COMPLETED" => Good(b)
      /\ \A b \in Bookings : review[b] # "NONE" => Good(b)
      /\ \A q \in Reqs, x \in Bookings :
             call[q].pc = "writeReview" /\ call[q].subject = x => Good(x)
  BY <1>3, <1>4, <1>5 DEF Good
<1>8. CASE Aside
  <2>1. \A b \in Bookings : Statuses(b)
    BY <1>7, <1>8 DEF Aside
  <2>2. ASSUME NEW q \in Reqs, NEW x \in Bookings, call'[q] = call[q] PROVE Reads(q, x)
    BY <1>7, <1>8, <2>2 DEF Aside, EarnedInv
  <2>3. ASSUME NEW q \in Reqs, NEW x \in Bookings, call'[q].pc \notin AboutReviews
        PROVE  Reads(q, x)
    BY <2>3 DEF AboutReviews
  <2>4. QED
    BY <1>8, <2>1, <2>2, <2>3 DEF Aside
<1>9. ASSUME NEW r \in Reqs, NEW b \in Bookings, CreateReviewRead(r, b) PROVE Holds
  <2>1. review' = review /\ booking[b] = "COMPLETED"
    BY <1>9 DEF CreateReviewRead
  <2>2. \A q \in Reqs : \/ call'[q] = call[q]
                        \/ call'[q].pc = "writeReview" /\ call'[q].subject = b
    BY <1>9 DEF CreateReviewRead, Start, TypeOK
  <2>3. \A x \in Bookings : Statuses(x)
    BY <1>7, <2>1
  <2>4. \A q \in Reqs, x \in Bookings : Reads(q, x)
    BY <1>7, <2>1, <2>2 DEF EarnedInv
  <2>5. QED
    BY <2>3, <2>4
<1>10. ASSUME NEW r \in Reqs, NEW b \in Bookings, NEW v \in {"APPROVED", "HIDDEN"},
              ModerateRead(r, b, v)
       PROVE  Holds
  <2>1. review' = review /\ review[b] # "NONE"
    BY <1>10 DEF ModerateRead
  <2>2. \A q \in Reqs : \/ call'[q] = call[q]
                        \/ call'[q].pc = "moderate" /\ call'[q].subject = b
    BY <1>10 DEF ModerateRead, Start, TypeOK
  <2>3. \A x \in Bookings : Statuses(x)
    BY <1>7, <2>1
  <2>4. \A q \in Reqs, x \in Bookings : Reads(q, x)
    BY <1>7, <2>1, <2>2 DEF EarnedInv
  <2>5. QED
    BY <2>3, <2>4
<1>11. ASSUME NEW r \in Reqs, CreateReviewWrite(r) PROVE Holds
  <2>1. /\ call[r].subject \in Bookings /\ call[r].pc = "writeReview"
        /\ \A b \in Bookings : /\ b # call[r].subject => review'[b] = review[b]
                               /\ review[b] # "NONE" => review'[b] = review[b]
    BY <1>11, KindAt DEF CreateReviewWrite, AtNewReview, TypeOK
  <2>2. \A q \in Reqs : call'[q] = call[q] \/ call'[q].pc = "idle"
    BY <1>11 DEF CreateReviewWrite, Answer, IdleCall, TypeOK
  <2>3. \A b \in Bookings : Statuses(b)
    BY <1>7, <2>1
  <2>4. ASSUME NEW q \in Reqs, NEW x \in Bookings, call'[q] = call[q] PROVE Reads(q, x)
    BY <1>7, <2>1, <2>4 DEF EarnedInv
  <2>5. ASSUME NEW q \in Reqs, NEW x \in Bookings, call'[q].pc = "idle" PROVE Reads(q, x)
    BY <2>5
  <2>6. QED
    BY <2>2, <2>3, <2>4, <2>5
<1>12. ASSUME NEW r \in Reqs, ModerateWrite(r) PROVE Holds
  <2>1. call[r] \in AtReview /\ call[r].subject \in Bookings
    BY <1>12, KindAt DEF ModerateWrite, AtReview
  <2>2. /\ review[call[r].subject] # "NONE"
        /\ review'[call[r].subject] \in {"APPROVED", "HIDDEN"}
        /\ \A b \in Bookings : b # call[r].subject => review'[b] = review[b]
    BY <1>12, <2>1 DEF ModerateWrite, AtReview, EarnedInv, TypeOK
  <2>3. \A q \in Reqs : \/ call'[q] = call[q]
                        \/ call'[q].pc = "idle"
                        \/ call'[q].pc = "reviewEvent" /\ call'[q].subject = call[r].subject
    <3>1. CASE Answer(r)
      BY <3>1 DEF Answer, IdleCall, TypeOK
    <3>2. CASE GoTo(r, "reviewEvent")
      <4>1. call'[r] = [call[r] EXCEPT !.pc = "reviewEvent"]
        BY <3>2 DEF GoTo, TypeOK
      <4>2. call'[r].pc = "reviewEvent" /\ call'[r].subject = call[r].subject
        BY <2>1, <4>1 DEF AtReview
      <4>3. \A q \in Reqs \ {r} : call'[q] = call[q]
        BY <3>2 DEF GoTo, TypeOK
      <4>4. QED
        BY <4>2, <4>3
    <3>3. QED
      BY <1>12, <3>1, <3>2 DEF ModerateWrite
  <2>4. \A b \in Bookings : Statuses(b)
    BY <1>7, <2>2
  <2>5. ASSUME NEW q \in Reqs, NEW x \in Bookings, call'[q] = call[q] PROVE Reads(q, x)
    BY <1>7, <2>2, <2>5 DEF EarnedInv
  <2>6. ASSUME NEW q \in Reqs, NEW x \in Bookings, call'[q].pc = "idle" PROVE Reads(q, x)
    BY <2>6
  <2>7. ASSUME NEW q \in Reqs, NEW x \in Bookings, call'[q].pc = "reviewEvent",
               call'[q].subject = call[r].subject
        PROVE  Reads(q, x)
    BY <2>2, <2>7
  <2>8. QED
    BY <2>3, <2>4, <2>5, <2>6, <2>7
<1>13. QED
  BY <1>8, <1>9, <1>10, <1>11, <1>12, ReviewSteps

\* Whatever runs together and whatever fails, a booking has a review only when both
\* ledgers say that it was completed, and a review counts only when it was moderated, for
\* the owner it is about: create and moderate of reviews.service, although neither holds
\* what it has read, and although the status of the booking may since have been
\* overwritten by a request that had read an older one.
THEOREM ReviewsEarned == Spec => []ReviewsAreEarned
<1>1. Init => EarnedInv
  <2>1. ASSUME Init, NEW b \in Bookings, NEW u \in Users
        PROVE  events[u][<<"review", b>>] = 0
    <3>1. <<"review", b>> \in Cause
      BY Causes
    <3>2. QED
      BY <2>1, <3>1 DEF Init
  <2>2. ASSUME Init, NEW b \in Bookings PROVE booking[b] = "HELD" /\ review[b] = "NONE"
    BY <2>2 DEF Init
  <2>3. ASSUME Init PROVE ReviewsAreEarned
    BY <2>1, <2>2, <2>3 DEF ReviewsAreEarned
  <2>4. QED
    BY <2>2, <2>3 DEF Init, EarnedInv, IdleCall
<1>2. TypeOK /\ RowsExist /\ EarnedInv /\ [Next]_vars => EarnedInv'
  BY EarnedStep
<1>3. EarnedInv => ReviewsAreEarned
  BY DEF EarnedInv
<1>4. QED
  BY <1>1, <1>2, <1>3, BaseHolds, PTL DEF Spec, Base
=============================================================================
