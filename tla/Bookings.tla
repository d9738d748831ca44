------------------------------ MODULE Bookings ------------------------------
(***************************************************************************)
(* Booking a home: modules/bookings/bookings.service.ts, the worker of     *)
(* infra/queue/booking-hold-expiry.processor.ts, and the listing endpoints *)
(* (module Listings) that write the same status column.                    *)
(*                                                                         *)
(* As in Listings a service method is one action per await, tied together  *)
(* by the record bookingCall[r]; a $transaction is one action.  No method  *)
(* locks a row or writes conditionally: what it writes follows from what   *)
(* it read, and the row may have changed since.                            *)
(*                                                                         *)
(* The student is left out of a booking row: every method turns away       *)
(* anybody but the student who made the booking, before it changes         *)
(* anything.  Times are kept as the time that remains, so that the clock   *)
(* needs no bound.                                                         *)
(***************************************************************************)
EXTENDS Listings, BookingStateMachine

CONSTANTS
    Bookings,      \* ids of booking rows
    BookingReqs,   \* requests to the booking endpoints that may be in flight
    HOLD_DURATION  \* the hold time, in ticks of the clock

ASSUME BookingsAssumption == Null \notin Bookings
ASSUME NullIsNoNumber == Null \notin Nat
ASSUME HoldAssumption == HOLD_DURATION \in Nat \ {0}

VARIABLES
    booking,       \* booking[b]: the row, status "ABSENT" before it exists
    bookingCall,   \* bookingCall[r]: where the request r stands
    holdJob,       \* holdJob[b]: the job of b in the booking-hold-expiry queue
    worker,        \* the booking whose job the expiry worker is running
    trustEvents,   \* trustEvents[b]: how often each outcome of b was recorded
    recomputeJobs  \* jobs added to the trust-recompute queue, with their cause

bookingVars == <<booking, bookingCall, holdJob, worker, trustEvents, recomputeJobs>>
vars == <<listingVars, bookingVars>>

Active == {"HELD", "BOOKED"}
Outcome == {"COMPLETED", "DISPUTED"}
BookingStatus == {"HELD", "BOOKED", "CANCELLED"} \cup Outcome

Remaining == 0..HOLD_DURATION

\* The methods, by the status the request is to bring about; "RELEASED" is
\* releaseHold, whose row ends up CANCELLED too.
Aim == {"HELD", "BOOKED", "RELEASED", "CANCELLED"} \cup Outcome

\* Whose trust score a job recomputes.
Party == {"student", "owner"}

IdleBookingCall == [pc |-> "idle", aim |-> Null, booking |-> Null,
                    listing |-> Null, holdExpiresIn |-> Null]

\* A request in flight, by its next await: createBooking before and after it
\* has a row, and the methods that read a row first.
BookingRequest ==
    [pc : {"findActive"}, aim : {"HELD"}, booking : {Null}, listing : Listings,
     holdExpiresIn : {Null}]
    \cup
    [pc : {"insert"}, aim : {"HELD"}, booking : {Null}, listing : Listings,
     holdExpiresIn : Remaining]
    \cup
    [pc : {"addHoldJob"}, aim : {"HELD"}, booking : Bookings, listing : Listings,
     holdExpiresIn : Remaining]
    \cup
    [pc : {"write", "sell", "notifyFirst", "notifySecond"}, aim : Aim \ {"HELD"},
     booking : Bookings, listing : Listings, holdExpiresIn : {Null}]

NoBooking == [status |-> "ABSENT", listing |-> Null, holdExpiresIn |-> Null,
              bookedAt |-> FALSE]

NoJob == [state |-> "none", delay |-> 0, stalled |-> FALSE]

BookingRow == [status : BookingStatus, listing : Listings,
               holdExpiresIn : Remaining \cup {Null}, bookedAt : BOOLEAN]

HoldJob == [state : {"none", "queued", "active", "done", "failed"},
            delay : Remaining, stalled : BOOLEAN]

BookingsTypeOK ==
    /\ booking \in [Bookings -> BookingRow \cup {NoBooking}]
    /\ bookingCall \in [BookingReqs -> BookingRequest \cup {IdleBookingCall}]
    /\ holdJob \in [Bookings -> HoldJob]
    /\ worker \in Bookings \cup {Null}
    /\ trustEvents \in [Bookings -> [Outcome -> Nat]]
    /\ recomputeJobs \subseteq (Aim \X Bookings \X Party)

TypeOK == ListingsTypeOK /\ BookingsTypeOK

BookingsInit ==
    /\ booking = [b \in Bookings |-> NoBooking]
    /\ bookingCall = [r \in BookingReqs |-> IdleBookingCall]
    /\ holdJob = [b \in Bookings |-> NoJob]
    /\ worker = Null
    /\ trustEvents = [b \in Bookings |-> [o \in Outcome |-> 0]]
    /\ recomputeJobs = {}

Init == ListingsInit /\ BookingsInit

\* The rest of the listing's row does not concern the booking endpoints.
ListingRest == <<photo, content, audit, hashJobs, listingCall>>

\* The foreign key keeps the listing of a booking in the database.
Referenced == {booking[b].listing : b \in {c \in Bookings : booking[c].status # "ABSENT"}}

Idle(r) == bookingCall[r].pc = "idle"
At(r, pc, aims) == bookingCall[r].pc = pc /\ bookingCall[r].aim \in aims
GoTo(r, pc) == bookingCall' = [bookingCall EXCEPT ![r].pc = pc]
Done(r) == bookingCall' = [bookingCall EXCEPT ![r] = IdleBookingCall]

-----------------------------------------------------------------------------
(* createBooking                                                           *)

\* Fault: any home can be booked.
CreateReadAnyStatus(r, l) ==
    /\ "createBooking" \in Ops
    /\ Idle(r)
    /\ HasRow(l)
    /\ bookingCall' = [bookingCall EXCEPT ![r] =
           [IdleBookingCall EXCEPT !.pc = "findActive", !.aim = "HELD", !.listing = l]]
    /\ UNCHANGED <<listingVars, booking, holdJob, worker, trustEvents, recomputeJobs>>

CreateRead(r, l) ==
    /\ "createBooking" \in Ops
    /\ Idle(r)
    /\ listing[l] = "VERIFIED"
    /\ bookingCall' = [bookingCall EXCEPT ![r] =
           [IdleBookingCall EXCEPT !.pc = "findActive", !.aim = "HELD", !.listing = l]]
    /\ UNCHANGED <<listingVars, booking, holdJob, worker, trustEvents, recomputeJobs>>

\* findFirst of a HELD or BOOKED booking; the deadline is set when it answers.
CreateFindActive(r) ==
    LET taken == \E b \in Bookings : /\ booking[b].listing = bookingCall[r].listing
                                     /\ booking[b].status \in Active
    IN  /\ At(r, "findActive", {"HELD"})
        /\ \/ taken /\ Done(r)
           \/ /\ ~taken
              /\ bookingCall' = [bookingCall EXCEPT ![r].pc = "insert",
                                                    ![r].holdExpiresIn = HOLD_DURATION]
        /\ UNCHANGED <<listingVars, booking, holdJob, worker, trustEvents, recomputeJobs>>

\* Fault: the listing is left out of the transaction.
CreateInsertRowOnly(r, b) ==
    LET l == bookingCall[r].listing IN
    /\ At(r, "insert", {"HELD"})
    /\ HasRow(l)
    /\ booking[b].status = "ABSENT"
    /\ booking' = [booking EXCEPT ![b] =
           [status |-> "HELD", listing |-> l,
            holdExpiresIn |-> bookingCall[r].holdExpiresIn, bookedAt |-> FALSE]]
    /\ bookingCall' = [bookingCall EXCEPT ![r].pc = "addHoldJob", ![r].booking = b]
    /\ UNCHANGED <<listingVars, holdJob, worker, trustEvents, recomputeJobs>>

\* The transaction: the row, and the listing off the market.
CreateInsert(r, b) ==
    LET l == bookingCall[r].listing IN
    /\ At(r, "insert", {"HELD"})
    /\ HasRow(l)
    /\ booking[b].status = "ABSENT"
    /\ booking' = [booking EXCEPT ![b] =
           [status |-> "HELD", listing |-> l,
            holdExpiresIn |-> bookingCall[r].holdExpiresIn, bookedAt |-> FALSE]]
    /\ SetStatus(l, "INACTIVE")
    /\ bookingCall' = [bookingCall EXCEPT ![r].pc = "addHoldJob", ![r].booking = b]
    /\ UNCHANGED <<ListingRest, holdJob, worker, trustEvents, recomputeJobs>>

\* The listing was deleted meanwhile: the foreign key rejects the row.
CreateRejected(r) ==
    /\ At(r, "insert", {"HELD"})
    /\ ~HasRow(bookingCall[r].listing)
    /\ Done(r)
    /\ UNCHANGED <<listingVars, booking, holdJob, worker, trustEvents, recomputeJobs>>

\* Fault: the job comes due before the hold expires.
CreateAddHoldJobEarly(r) ==
    /\ At(r, "addHoldJob", {"HELD"})
    /\ holdJob' = [holdJob EXCEPT ![bookingCall[r].booking] =
           [state |-> "queued", delay |-> HOLD_DURATION - 1, stalled |-> FALSE]]
    /\ Done(r)
    /\ UNCHANGED <<listingVars, booking, worker, trustEvents, recomputeJobs>>

\* holdExpiryQueue.add, with the full hold time as its delay.
CreateAddHoldJob(r) ==
    /\ At(r, "addHoldJob", {"HELD"})
    /\ holdJob' = [holdJob EXCEPT ![bookingCall[r].booking] =
           [state |-> "queued", delay |-> HOLD_DURATION, stalled |-> FALSE]]
    /\ Done(r)
    /\ UNCHANGED <<listingVars, booking, worker, trustEvents, recomputeJobs>>

-----------------------------------------------------------------------------
(* confirmBooking, releaseHold, cancelBooking, completeBooking,            *)
(* disputeBooking: read the row, ask the state machine, write              *)

\* Fault: a disputed booking can be completed, as the machine allows.
AcceptedDisputed ==
    [BOOKED |-> BookingStatus, RELEASED |-> {"HELD"}, CANCELLED |-> Active,
     COMPLETED |-> {"BOOKED", "DISPUTED"}, DISPUTED |-> {"BOOKED"}]

\* The statuses in which each method goes on, before it asks the machine.
Accepted ==
    [BOOKED |-> BookingStatus, RELEASED |-> {"HELD"}, CANCELLED |-> Active,
     COMPLETED |-> {"BOOKED"}, DISPUTED |-> {"BOOKED"}]

OpOf ==
    [BOOKED |-> "confirmBooking", RELEASED |-> "releaseHold",
     CANCELLED |-> "cancelBooking", COMPLETED |-> "completeBooking",
     DISPUTED |-> "disputeBooking"]

TargetOf(aim) == IF aim = "RELEASED" THEN "AVAILABLE" ELSE aim

BookingRead(r, b, aim) ==
    /\ OpOf[aim] \in Ops
    /\ Idle(r)
    /\ booking[b].status \in Accepted[aim]
    /\ CanTransition(booking[b].status, TargetOf(aim))
    /\ bookingCall' = [bookingCall EXCEPT ![r] =
           [IdleBookingCall EXCEPT !.pc = "write", !.aim = aim, !.booking = b,
                                   !.listing = booking[b].listing]]
    /\ UNCHANGED <<listingVars, booking, holdJob, worker, trustEvents, recomputeJobs>>

\* booking.update of confirmBooking.
ConfirmWrite(r) ==
    /\ At(r, "write", {"BOOKED"})
    /\ booking' = [booking EXCEPT ![bookingCall[r].booking] =
           [@ EXCEPT !.status = "BOOKED", !.holdExpiresIn = Null, !.bookedAt = TRUE]]
    /\ GoTo(r, "sell")
    /\ UNCHANGED <<listingVars, holdJob, worker, trustEvents, recomputeJobs>>

\* listing.update of confirmBooking, an await of its own.
ConfirmSell(r) ==
    /\ At(r, "sell", {"BOOKED"})
    /\ SetStatus(bookingCall[r].listing, "SOLD")
    /\ GoTo(r, "notifyFirst")
    /\ UNCHANGED <<ListingRest, booking, holdJob, worker, trustEvents, recomputeJobs>>

\* Fault: the home is back on the market and the booking still stands.
CancelWriteListingOnly(r) ==
    /\ At(r, "write", {"CANCELLED", "RELEASED"})
    /\ SetStatus(bookingCall[r].listing, "VERIFIED")
    /\ Done(r)
    /\ UNCHANGED <<ListingRest, booking, holdJob, worker, trustEvents, recomputeJobs>>

\* The transaction of cancelBooking and of releaseHold: back on the market.
CancelWrite(r) ==
    /\ At(r, "write", {"CANCELLED", "RELEASED"})
    /\ booking' = [booking EXCEPT ![bookingCall[r].booking].status = "CANCELLED"]
    /\ SetStatus(bookingCall[r].listing, "VERIFIED")
    /\ Done(r)
    /\ UNCHANGED <<ListingRest, holdJob, worker, trustEvents, recomputeJobs>>

\* Fault: no trust event is recorded.
OutcomeWriteUnrecorded(r) ==
    LET b == bookingCall[r].booking
        o == bookingCall[r].aim
    IN  /\ At(r, "write", Outcome)
        /\ booking' = [booking EXCEPT ![b].status = o,
                           ![b].holdExpiresIn = IF o = "DISPUTED" THEN Null ELSE @]
        /\ GoTo(r, "notifyFirst")
        /\ UNCHANGED <<listingVars, holdJob, worker, trustEvents, recomputeJobs>>

\* The transaction of completeBooking and of disputeBooking: the row and a
\* trust event for each party.  The owner read before it cannot change.
OutcomeWrite(r) ==
    LET b == bookingCall[r].booking
        o == bookingCall[r].aim
    IN  /\ At(r, "write", Outcome)
        /\ booking' = [booking EXCEPT ![b].status = o,
                           ![b].holdExpiresIn = IF o = "DISPUTED" THEN Null ELSE @]
        /\ trustEvents' = [trustEvents EXCEPT ![b][o] = @ + 1]
        /\ GoTo(r, "notifyFirst")
        /\ UNCHANGED <<listingVars, holdJob, worker, recomputeJobs>>

\* The two trustRecomputeQueue.add: confirmBooking begins with the student,
\* completeBooking and disputeBooking with the owner.
FirstParty(aim) == IF aim = "BOOKED" THEN "student" ELSE "owner"
\* Fault: the same line twice.
SecondPartyAgain(aim) == IF aim = "BOOKED" THEN "student" ELSE "owner"
SecondParty(aim) == IF aim = "BOOKED" THEN "owner" ELSE "student"

NotifyFirst(r) ==
    LET c == bookingCall[r] IN
    /\ c.pc = "notifyFirst"
    /\ recomputeJobs' = recomputeJobs \cup {<<c.aim, c.booking, FirstParty(c.aim)>>}
    /\ GoTo(r, "notifySecond")
    /\ UNCHANGED <<listingVars, booking, holdJob, worker, trustEvents>>

NotifySecond(r) ==
    LET c == bookingCall[r] IN
    /\ c.pc = "notifySecond"
    /\ recomputeJobs' = recomputeJobs \cup {<<c.aim, c.booking, SecondParty(c.aim)>>}
    /\ Done(r)
    /\ UNCHANGED <<listingVars, booking, holdJob, worker, trustEvents>>

-----------------------------------------------------------------------------
(* The booking-hold-expiry worker: one job at a time                       *)

Expired(b) == booking[b].holdExpiresIn \in {0, Null}

\* The worker takes a job that is due and reads the row.
ExpiryRead(b) ==
    /\ "expireHold" \in Ops
    /\ worker = Null
    /\ holdJob[b].state = "queued"
    /\ holdJob[b].delay = 0
    /\ IF booking[b].status = "HELD" /\ Expired(b) /\ CanTransition("HELD", "AVAILABLE")
       THEN /\ worker' = b
            /\ holdJob' = [holdJob EXCEPT ![b].state = "active"]
       ELSE /\ UNCHANGED worker
            /\ holdJob' = [holdJob EXCEPT ![b].state = "done"]
    /\ UNCHANGED <<listingVars, booking, bookingCall, trustEvents, recomputeJobs>>

\* Fault: the status of the state machine is stored as it is.
ExpiryWriteMachineStatus(b) ==
    /\ worker = b
    /\ booking' = [booking EXCEPT ![b].status = "AVAILABLE"]
    /\ SetStatus(booking[b].listing, "ACTIVE")
    /\ holdJob' = [holdJob EXCEPT ![b].state = "done"]
    /\ worker' = Null
    /\ UNCHANGED <<ListingRest, bookingCall, trustEvents, recomputeJobs>>

\* Fault: every hold on the home is released, not the one that expired.
ExpiryWriteByListing(b) ==
    /\ worker = b
    /\ booking' = [c \in Bookings |->
           IF booking[c].status = "HELD" /\ booking[c].listing = booking[b].listing
           THEN [booking[c] EXCEPT !.status = "CANCELLED"]
           ELSE booking[c]]
    /\ SetStatus(booking[b].listing, "ACTIVE")
    /\ holdJob' = [holdJob EXCEPT ![b].state = "done"]
    /\ worker' = Null
    /\ UNCHANGED <<ListingRest, bookingCall, trustEvents, recomputeJobs>>

\* Its transaction.  The listing becomes ACTIVE, not VERIFIED.
ExpiryWrite(b) ==
    /\ worker = b
    /\ booking' = [booking EXCEPT ![b].status = "CANCELLED"]
    /\ SetStatus(booking[b].listing, "ACTIVE")
    /\ holdJob' = [holdJob EXCEPT ![b].state = "done"]
    /\ worker' = Null
    /\ UNCHANGED <<ListingRest, bookingCall, trustEvents, recomputeJobs>>

\* The transaction is rejected: the job fails, and no attempts are left.
ExpiryFails(b) ==
    /\ "dbError" \in Faults
    /\ worker = b
    /\ worker' = Null
    /\ holdJob' = [holdJob EXCEPT ![b].state = "failed"]
    /\ UNCHANGED <<listingVars, booking, bookingCall, trustEvents, recomputeJobs>>

-----------------------------------------------------------------------------
(* Faults and the clock                                                    *)

\* A rejected await in the middle of a method: it answers an error.
BookingCallFails(r) ==
    /\ "dbError" \in Faults
    /\ ~Idle(r)
    /\ Done(r)
    /\ UNCHANGED <<listingVars, booking, holdJob, worker, trustEvents, recomputeJobs>>

\* The process dies and comes back: requests are gone, BullMQ gives a job
\* that was active to a worker again, once (maxStalledCount).
Crash ==
    /\ "crash" \in Faults
    /\ bookingCall' = [r \in BookingReqs |-> IdleBookingCall]
    /\ listingCall' = [r \in ListingReqs |-> IdleListingCall]
    /\ worker' = Null
    /\ holdJob' = [b \in Bookings |->
           IF b # worker THEN holdJob[b]
           ELSE [holdJob[b] EXCEPT !.state = IF holdJob[b].stalled THEN "failed" ELSE "queued",
                                   !.stalled = TRUE]]
    /\ UNCHANGED <<listing, photo, content, audit, hashJobs, booking,
                   trustEvents, recomputeJobs>>

Sooner(t) == IF t \in 1..HOLD_DURATION THEN t - 1 ELSE t

Tick ==
    /\ booking' = [b \in Bookings |->
           [booking[b] EXCEPT !.holdExpiresIn = Sooner(@)]]
    /\ bookingCall' = [r \in BookingReqs |->
           [bookingCall[r] EXCEPT !.holdExpiresIn = Sooner(@)]]
    /\ holdJob' = [b \in Bookings |-> [holdJob[b] EXCEPT !.delay = Sooner(@)]]
    /\ UNCHANGED <<listingVars, worker, trustEvents, recomputeJobs>>

-----------------------------------------------------------------------------
BookingCallStarts(r) ==
    \/ \E l \in Listings : CreateRead(r, l)
    \/ \E b \in Bookings, aim \in DOMAIN OpOf : BookingRead(r, b, aim)

BookingCallGoesOn(r) ==
    \/ CreateFindActive(r)
    \/ \E b \in Bookings : CreateInsert(r, b)
    \/ CreateRejected(r)
    \/ CreateAddHoldJob(r)
    \/ ConfirmWrite(r)
    \/ ConfirmSell(r)
    \/ CancelWrite(r)
    \/ OutcomeWrite(r)
    \/ NotifyFirst(r)
    \/ NotifySecond(r)

ExpiryStep == \E b \in Bookings : ExpiryRead(b) \/ ExpiryWrite(b)

Next ==
    \/ ListingsStep(Referenced) /\ UNCHANGED bookingVars
    \/ \E r \in BookingReqs :
          BookingCallStarts(r) \/ BookingCallGoesOn(r) \/ BookingCallFails(r)
    \/ ExpiryStep
    \/ \E b \in Bookings : ExpiryFails(b)
    \/ Crash
    \/ Tick

Spec == Init /\ [][Next]_vars

\* Node runs every continuation that is ready, BullMQ every job that is due,
\* and time passes.  Nobody is obliged to send a request.
Fairness ==
    /\ \A r \in BookingReqs : WF_vars(BookingCallGoesOn(r))
    /\ WF_vars(ExpiryStep)
    /\ WF_vars(Tick)

FairSpec == Spec /\ Fairness

-----------------------------------------------------------------------------
(* Properties that hold however requests, jobs and crashes interleave      *)

\* A booking is completed or disputed only after its deposit was confirmed,
\* and its outcome is on the record of both parties: the status each method
\* read was stale, but bookedAt is never taken back and the trust events are
\* in the transaction that writes the status.
OutcomesArePaidAndRecorded ==
    \A b \in Bookings : booking[b].status \in Outcome =>
        /\ booking[b].bookedAt
        /\ trustEvents[b][booking[b].status] > 0

\* Only homes an administrator approved are ever booked, and a booking's home
\* stays in the database: createBooking acts on a status it read two awaits
\* earlier, and cancelBooking writes VERIFIED without asking for a review.
BookedHomesWereApproved ==
    \A b \in Bookings : booking[b].status # "ABSENT" =>
        /\ HasRow(booking[b].listing)
        /\ photo[booking[b].listing]
        /\ "LISTING_VERIFIED" \in audit[booking[b].listing]

\* The same for the market: a home that is shown as VERIFIED was approved by
\* an administrator, whoever wrote the status.
MarketHomesWereApproved ==
    \A l \in Listings : listing[l] = "VERIFIED" =>
        photo[l] /\ "LISTING_VERIFIED" \in audit[l]

\* The student has the home for the whole hold time: a hold that has time left
\* ends only through a request about that booking.  The worker acts on a row it
\* read earlier and the queue's delay starts later than the hold.
HoldLastsItsTime ==
    [][\A b \in Bookings :
          /\ booking[b].status = "HELD"
          /\ booking[b].holdExpiresIn \in 1..HOLD_DURATION
          /\ booking'[b].status # "HELD"
          => \E r \in BookingReqs : /\ bookingCall[r].booking = b
                                    /\ bookingCall[r].pc = "write"
                                    /\ bookingCall'[r] # bookingCall[r]]_vars

-----------------------------------------------------------------------------
(* Properties that hold as long as no job is lost, whatever else fails     *)

\* A step that loses no hold's job: no request fails before it has added the
\* job, and a job whose transaction fails, or whose process dies for the second
\* time, had no hold to end.
NoHoldJobIsLost ==
    /\ \A r \in BookingReqs :
          BookingCallFails(r) \/ Crash => bookingCall[r].pc # "addHoldJob"
    /\ \A b \in Bookings :
          ExpiryFails(b) \/ (Crash /\ worker = b /\ holdJob[b].stalled)
              => booking[b].status # "HELD"

\* A step that loses no recompute job: no request fails before it has added its
\* jobs.
NoRecomputeJobIsLost ==
    \A r \in BookingReqs :
        /\ BookingCallFails(r) \/ Crash
        /\ bookingCall[r].pc \in {"notifyFirst", "notifySecond"}
        => NotifySecond(r)

\* Every hold has somebody who will end it: the request that is about to add
\* the job, a job that comes due, or the worker that runs it.  A job that ran
\* before the deadline would find the hold unexpired, be done, and leave it.
EveryHoldHasAJob ==
    \A b \in Bookings : booking[b].status = "HELD" =>
        \/ holdJob[b].state \in {"queued", "active"}
        \/ \E r \in BookingReqs : /\ bookingCall[r].pc = "addHoldJob"
                                  /\ bookingCall[r].booking = b

\* README.md of the backend, lines 72-74: the score is "recomputed via a
\* background job on every new event".  Both parties of every recorded outcome
\* have a job, or the request that recorded it is about to add one.
OutcomesAreRescored ==
    \A b \in Bookings, o \in Outcome : trustEvents[b][o] > 0 =>
        \A p \in Party :
            \/ <<o, b, p>> \in recomputeJobs
            \/ \E r \in BookingReqs : /\ At(r, "notifyFirst", {o}) \/ At(r, "notifySecond", {o})
                                      /\ bookingCall[r].booking = b

\* Every hold ends, by its student or by the worker.
HoldsEnd ==
    \A b \in Bookings : booking[b].status = "HELD" ~> booking[b].status # "HELD"

-----------------------------------------------------------------------------
(* Properties that hold while the requests about one home run one at a     *)
(* time, whatever the requests about other homes, the worker, and crashes  *)
(* do.  The code arranges neither, with no lock and no unique index.       *)

\* Two requests to the booking endpoints that are in flight are about two homes.
OneBookingPerHome ==
    \A q, r \in BookingReqs :
        /\ ~Idle(q)
        /\ ~Idle(r)
        /\ bookingCall[q].listing = bookingCall[r].listing
        => q = r

\* So are two reviews, or a review and a submission.
Deciding == {"submit", "approve", "reject"}

OneReviewPerHome ==
    \A q, r \in ListingReqs :
        /\ listingCall[q].pc \in Deciding
        /\ listingCall[r].pc \in Deciding
        /\ listingCall[q].listing = listingCall[r].listing
        => q = r

OneAtATimePerHome == OneBookingPerHome /\ OneReviewPerHome

\* Bookings as far as requests keep to that.
SerialSpec == Init /\ [][Next /\ OneAtATimePerHome']_vars

\* README.md of the backend, lines 75-77: "no double-selling".  A home has at
\* most one HELD or BOOKED booking, and is off the market while it has one.
AtMostOneActive ==
    \A b, c \in Bookings :
        /\ booking[b].status \in Active
        /\ booking[c].status \in Active
        /\ booking[b].listing = booking[c].listing
        => b = c

ActiveHomesAreOffMarket ==
    \A b \in Bookings :
        booking[b].status \in Active => listing[booking[b].listing] # "VERIFIED"

ExclusiveHold == AtMostOneActive /\ ActiveHomesAreOffMarket

\* A booking has one outcome: both parties are credited or blamed once.
OneOutcome ==
    \A b \in Bookings : trustEvents[b]["COMPLETED"] + trustEvents[b]["DISPUTED"] <= 1

-----------------------------------------------------------------------------
(* What the documentation promises and the code does not keep              *)

\* backend-documentry.md, lines 79-91: the table of transitions, and "Illegal
\* transitions throw".  Every change of a booking's status is in the table.
LegalTransitions ==
    [][\A b \in Bookings :
          booking[b].status \in BookingStatus /\ booking'[b].status # booking[b].status
          => CanTransition(booking[b].status, booking'[b].status)]_vars
=============================================================================
