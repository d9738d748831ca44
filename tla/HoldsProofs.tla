---------------------------- MODULE HoldsProofs -----------------------------
(***************************************************************************)
(* Proofs about Bookings that follow one booking: its hold, the job that   *)
(* ends the hold, and the jobs that rescore its parties.                   *)
(***************************************************************************)
EXTENDS BookingsProofs

-----------------------------------------------------------------------------
(* What a step does to a row                                               *)

\* r writes the status of b, and goes on.
Writes(r, b) ==
    /\ bookingCall[r].pc = "write"
    /\ bookingCall[r].booking = b
    /\ bookingCall'[r].pc # "write"
    /\ \/ ConfirmWrite(r) /\ booking'[b].status = "BOOKED"
       \/ CancelWrite(r) /\ booking'[b].status = "CANCELLED"
       \/ OutcomeWrite(r) /\ bookingCall[r].aim \in Outcome
                          /\ booking'[b].status = bookingCall[r].aim

Expires(b) == worker = b /\ ExpiryWrite(b) /\ booking'[b].status = "CANCELLED"

Ages(b) ==
    /\ Tick
    /\ booking'[b].status = booking[b].status
    /\ booking'[b].holdExpiresIn = Sooner(booking[b].holdExpiresIn)

LEMMA RowStep ==
    ASSUME TypeOK, CallsOnRows, Next, NEW b \in Bookings
    PROVE  \/ booking'[b] = booking[b]
           \/ \E r \in BookingReqs : CreateInsert(r, b)
           \/ \E r \in BookingReqs : Writes(r, b)
           \/ Expires(b)
           \/ Ages(b)
<1> USE DEF TypeOK, BookingsTypeOK
<1> DEFINE P == \/ booking'[b] = booking[b]
                \/ \E r \in BookingReqs : CreateInsert(r, b)
                \/ \E r \in BookingReqs : Writes(r, b)
                \/ Expires(b)
                \/ Ages(b)
<1>1. CASE UNCHANGED booking
  BY <1>1
<1>2. ASSUME NEW r \in BookingReqs, NEW c \in Bookings, CreateInsert(r, c) PROVE P
  <2>1. CASE c = b
    BY <1>2, <2>1
  <2>2. CASE c # b
    BY <1>2, <2>2 DEF CreateInsert
  <2>3. QED
    BY <2>1, <2>2
<1>3. ASSUME NEW r \in BookingReqs, ConfirmWrite(r) \/ CancelWrite(r) \/ OutcomeWrite(r)
      PROVE  P
  <2>1. bookingCall[r].pc = "write" /\ bookingCall[r].pc \in AfterRead
    BY <1>3 DEF ConfirmWrite, CancelWrite, OutcomeWrite, At, AfterRead
  <2>2. /\ bookingCall[r].booking \in Bookings
        /\ booking[bookingCall[r].booking] \in BookingRow
        /\ bookingCall[r] \in [pc : AfterRead, aim : Aim \ {"HELD"}, booking : Bookings,
                               listing : Listings, holdExpiresIn : {Null}]
    BY <2>1, CallAfterRead
  <2>3. bookingCall'[r].pc # "write"
    BY <1>3, <2>2 DEF ConfirmWrite, CancelWrite, OutcomeWrite, GoTo, Done, IdleBookingCall
  <2>4. CASE bookingCall[r].booking # b
    BY <1>3, <2>4 DEF ConfirmWrite, CancelWrite, OutcomeWrite
  <2>5. CASE bookingCall[r].booking = b
    <3>1. ConfirmWrite(r) => booking'[b].status = "BOOKED"
      BY <2>2, <2>5 DEF ConfirmWrite, BookingRow
    <3>2. CancelWrite(r) => booking'[b].status = "CANCELLED"
      BY <2>2, <2>5 DEF CancelWrite, BookingRow
    <3>3. OutcomeWrite(r) => /\ booking'[b].status = bookingCall[r].aim
                             /\ bookingCall[r].aim \in Outcome
      BY <2>2, <2>5 DEF OutcomeWrite, BookingRow, At
    <3>4. QED
      BY <1>3, <2>1, <2>3, <2>5, <3>1, <3>2, <3>3 DEF Writes
  <2>6. QED
    BY <2>4, <2>5
<1>4. ASSUME NEW c \in Bookings, ExpiryWrite(c) PROVE P
  <2>1. CASE c # b
    BY <1>4, <2>1 DEF ExpiryWrite
  <2>2. CASE c = b
    <3>1. booking[b] \in BookingRow
      BY <1>4, <2>2, BookingsAssumption DEF ExpiryWrite, CallsOnRows, NoBooking
    <3>2. QED
      BY <1>4, <2>2, <3>1 DEF ExpiryWrite, Expires, BookingRow
  <2>3. QED
    BY <2>1, <2>2
<1>5. CASE Tick
  <2>1. booking'[b] = [booking[b] EXCEPT !.holdExpiresIn = Sooner(booking[b].holdExpiresIn)]
    BY <1>5 DEF Tick
  <2>2. CASE booking[b] \in BookingRow
    BY <1>5, <2>1, <2>2 DEF Ages, BookingRow
  <2>3. CASE booking[b] = NoBooking
    BY <1>5, <2>1, <2>3 DEF Ages, NoBooking
  <2>4. QED
    BY <2>2, <2>3
<1>6. QED
  BY <1>1, <1>2, <1>3, <1>4, <1>5
     DEF Next, bookingVars, BookingCallStarts, CreateRead, BookingRead, BookingCallGoesOn,
         CreateFindActive, CreateRejected, CreateAddHoldJob, ConfirmSell, NotifyFirst,
         NotifySecond, BookingCallFails, ExpiryStep, ExpiryRead, ExpiryFails, Crash

\* A hold appears with its row, and stays as it is until it is gone.
LEMMA HeldStep ==
    ASSUME TypeOK, CallsOnRows, Next, NEW b \in Bookings, booking'[b].status = "HELD"
    PROVE  \/ \E r \in BookingReqs : CreateInsert(r, b)
           \/ booking[b].status = "HELD" /\ booking'[b] = booking[b]
           \/ booking[b].status = "HELD" /\ Ages(b)
<1>1. ~Expires(b) /\ \A r \in BookingReqs : ~Writes(r, b)
  BY DEF Expires, Writes, Outcome
<1>2. QED
  BY <1>1, RowStep DEF Ages

-----------------------------------------------------------------------------
(* Holds last their time                                                   *)

\* What the worker read stays true until it writes: a hold that has expired
\* does not get more time.
WorkerWaited ==
    worker # Null /\ booking[worker].status = "HELD" =>
        booking[worker].holdExpiresIn \in {0, Null}

LEMMA WorkerStep ==
    ASSUME TypeOK, CallsOnRows, WorkerWaited, Next
    PROVE  WorkerWaited'
<1> SUFFICES ASSUME NEW b \in Bookings, worker' = b, booking'[b].status = "HELD"
             PROVE  booking'[b].holdExpiresIn \in {0, Null}
  <2>1. worker' \in Bookings \cup {Null}
    BY BookingsTypeStep DEF BookingsTypeOK
  <2>2. QED
    BY <2>1 DEF WorkerWaited
<1>1. CASE worker = b
  <2>1. booking[b].status # "ABSENT"
    BY <1>1, BookingsAssumption DEF CallsOnRows
  <2>2. ASSUME NEW r \in BookingReqs PROVE ~CreateInsert(r, b)
    BY <2>1 DEF CreateInsert
  <2>3. booking[b].status = "HELD" /\ (booking'[b] = booking[b] \/ Ages(b))
    BY <2>2, HeldStep
  <2>4. booking[b].holdExpiresIn \in {0, Null}
    BY <1>1, <2>3, BookingsAssumption DEF WorkerWaited
  <2>5. Sooner(booking[b].holdExpiresIn) = booking[b].holdExpiresIn
    BY <2>4, NullIsNoNumber, HoldAssumption DEF Sooner
  <2>6. QED
    BY <2>3, <2>4, <2>5 DEF Ages
<1>2. CASE worker # b
  <2>1. ASSUME NEW r \in BookingReqs, BookingCallGoesOn(r) PROVE worker' = worker
    BY <2>1 DEF BookingCallGoesOn, CreateFindActive, CreateInsert, CreateRejected,
         CreateAddHoldJob, ConfirmWrite, ConfirmSell, CancelWrite, OutcomeWrite,
         NotifyFirst, NotifySecond
  <2>2. ASSUME NEW r \in BookingReqs, BookingCallStarts(r) \/ BookingCallFails(r)
        PROVE  worker' = worker
    BY <2>2 DEF BookingCallStarts, CreateRead, BookingRead, BookingCallFails
  <2>3. ASSUME NEW c \in Bookings, ExpiryWrite(c) \/ ExpiryFails(c) PROVE worker' = Null
    BY <2>3 DEF ExpiryWrite, ExpiryFails
  <2>4. PICK c \in Bookings : ExpiryRead(c)
    BY <1>2, <2>1, <2>2, <2>3, BookingsAssumption
    DEF Next, bookingVars, ExpiryStep, Crash, Tick
  <2>5. worker' = c \/ worker' = worker
    BY <2>4 DEF ExpiryRead
  <2>6. c = b
    BY <1>2, <2>5
  <2>7. QED
    BY <1>2, <2>4, <2>6 DEF ExpiryRead, Expired
<1>3. QED
  BY <1>1, <1>2

\* A hold that has time left ends only through a request about its booking,
\* whatever overlaps, fails or crashes: the worker ends no hold early, although
\* it acts on what it read before.
THEOREM HoldsLast == Spec => HoldLastsItsTime
<1>1. Init => WorkerWaited
  BY DEF Init, BookingsInit, WorkerWaited
<1>2. TypeOK /\ CallsOnRows /\ WorkerWaited /\ [Next]_vars => WorkerWaited'
  BY WorkerStep DEF vars, bookingVars, WorkerWaited
<1>3. ASSUME TypeOK, CallsOnRows, WorkerWaited, Next, NEW b \in Bookings,
             booking[b].status = "HELD", booking[b].holdExpiresIn \in 1..HOLD_DURATION,
             booking'[b].status # "HELD"
      PROVE  \E r \in BookingReqs : /\ bookingCall[r].booking = b
                                    /\ bookingCall[r].pc = "write"
                                    /\ bookingCall'[r] # bookingCall[r]
  <2>1. ~Ages(b) /\ booking'[b] # booking[b]
    BY <1>3 DEF Ages
  <2>2. ASSUME NEW r \in BookingReqs PROVE ~CreateInsert(r, b)
    BY <1>3 DEF CreateInsert
  <2>3. ~Expires(b)
    <3>1. booking[b].holdExpiresIn \notin {0, Null}
      BY <1>3, NullIsNoNumber, HoldAssumption
    <3>2. worker # b
      BY <1>3, <3>1, BookingsAssumption DEF WorkerWaited
    <3>3. QED
      BY <3>2 DEF Expires
  <2>4. QED
    BY <1>3, <2>1, <2>2, <2>3, RowStep DEF Writes
<1>4. TypeOK /\ CallsOnRows /\ WorkerWaited /\ [Next]_vars =>
          [\A b \in Bookings :
              /\ booking[b].status = "HELD"
              /\ booking[b].holdExpiresIn \in 1..HOLD_DURATION
              /\ booking'[b].status # "HELD"
              => \E r \in BookingReqs : /\ bookingCall[r].booking = b
                                        /\ bookingCall[r].pc = "write"
                                        /\ bookingCall'[r] # bookingCall[r]]_vars
  BY <1>3
<1>5. QED
  BY <1>1, <1>2, <1>4, RowsInvariant, PTL DEF Spec, HoldLastsItsTime

-----------------------------------------------------------------------------
(* Every hold has a job, as long as no hold's job is lost                  *)

Adding(r, b) == bookingCall[r].pc = "addHoldJob" /\ bookingCall[r].booking = b

\* A request that is about to add a job does so and nothing else.
LEMMA AddingStep ==
    ASSUME TypeOK, CallsOnRows, Next, NoHoldJobIsLost, NEW r \in BookingReqs,
           NEW b \in Bookings, Adding(r, b)
    PROVE  Adding(r, b)' \/ CreateAddHoldJob(r)
<1> USE DEF TypeOK, BookingsTypeOK, Adding
<1>1. CASE bookingCall'[r] = bookingCall[r]
  BY <1>1
<1>2. ASSUME NEW q \in BookingReqs, q # r, Done(q) \/ \E pc : GoTo(q, pc)
      PROVE  bookingCall'[r] = bookingCall[r]
  BY <1>2 DEF Done, GoTo
<1>3. ASSUME NEW q \in BookingReqs, BookingCallStarts(q)
      PROVE  bookingCall'[r] = bookingCall[r]
  BY <1>3 DEF BookingCallStarts, CreateRead, BookingRead, Idle
<1>4. ASSUME NEW q \in BookingReqs, BookingCallGoesOn(q)
      PROVE  bookingCall'[r] = bookingCall[r] \/ CreateAddHoldJob(r)
  <2>1. CASE CreateFindActive(q)
    BY <1>2, <2>1 DEF CreateFindActive, At
  <2>2. ASSUME NEW c \in Bookings, CreateInsert(q, c)
        PROVE  bookingCall'[r] = bookingCall[r]
    BY <2>2 DEF CreateInsert, At
  <2>3. CASE CreateAddHoldJob(q)
    BY <1>2, <2>3 DEF CreateAddHoldJob
  <2>4. QED
    BY <1>2, <1>4, <2>1, <2>2, <2>3
       DEF BookingCallGoesOn, CreateRejected, ConfirmWrite, ConfirmSell, CancelWrite,
           OutcomeWrite, NotifyFirst, NotifySecond, At
<1>5. CASE Tick
  <2>1. bookingCall'[r] = [bookingCall[r] EXCEPT !.holdExpiresIn =
                               Sooner(bookingCall[r].holdExpiresIn)]
    BY <1>5 DEF Tick
  <2>2. bookingCall[r] \in BookingRequest
    BY DEF IdleBookingCall
  <2>3. QED
    BY <2>1, <2>2 DEF BookingRequest
<1>6. ASSUME NEW q \in BookingReqs, BookingCallFails(q)
      PROVE  bookingCall'[r] = bookingCall[r]
  <2>1. q # r
    BY <1>6 DEF NoHoldJobIsLost
  <2>2. QED
    BY <1>2, <1>6, <2>1 DEF BookingCallFails
<1>7. ~Crash
  BY DEF NoHoldJobIsLost
<1>8. QED
  BY <1>1, <1>3, <1>4, <1>5, <1>6, <1>7
     DEF Next, bookingVars, ExpiryStep, ExpiryRead, ExpiryWrite, ExpiryFails

\* The job that was active is delivered again, or was active too often.
Stalls(b) ==
    /\ Crash
    /\ worker = b
    /\ holdJob'[b] = [holdJob[b] EXCEPT !.state = IF holdJob[b].stalled THEN "failed"
                                                                       ELSE "queued",
                                        !.stalled = TRUE]

\* Who touches the job of a booking.
LEMMA JobStep ==
    ASSUME TypeOK, CallsOnRows, Next, NEW b \in Bookings
    PROVE  \/ holdJob'[b] = holdJob[b]
           \/ \E r \in BookingReqs : CreateAddHoldJob(r) /\ Adding(r, b)
           \/ ExpiryRead(b)
           \/ ExpiryWrite(b)
           \/ ExpiryFails(b)
           \/ Stalls(b)
           \/ Tick /\ holdJob'[b] = [holdJob[b] EXCEPT !.delay = Sooner(holdJob[b].delay)]
<1> USE DEF TypeOK, BookingsTypeOK
<1>1. ASSUME NEW r \in BookingReqs, CreateAddHoldJob(r)
      PROVE  holdJob'[b] = holdJob[b] \/ Adding(r, b)
  BY <1>1 DEF CreateAddHoldJob, Adding, At
<1>2. ASSUME NEW c \in Bookings, ExpiryRead(c) \/ ExpiryWrite(c) \/ ExpiryFails(c), c # b
      PROVE  holdJob'[b] = holdJob[b]
  BY <1>2 DEF ExpiryRead, ExpiryWrite, ExpiryFails
<1>3. CASE Crash
  BY <1>3 DEF Crash, Stalls
<1>4. QED
  BY <1>1, <1>2, <1>3
     DEF Next, bookingVars, BookingCallStarts, CreateRead, BookingRead, BookingCallGoesOn,
         CreateFindActive, CreateInsert, CreateRejected, ConfirmWrite, ConfirmSell,
         CancelWrite, OutcomeWrite, NotifyFirst, NotifySecond, BookingCallFails, ExpiryStep,
         Tick

\* Only the job the worker runs is active.
ActiveIsWorkers == \A b \in Bookings : holdJob[b].state = "active" => worker = b

LEMMA ActiveIsWorkersStep ==
    ASSUME TypeOK, CallsOnRows, ActiveIsWorkers, Next
    PROVE  ActiveIsWorkers'
<1> USE DEF TypeOK, BookingsTypeOK
<1> SUFFICES ASSUME NEW b \in Bookings, holdJob'[b].state = "active"
             PROVE  worker' = b
  BY DEF ActiveIsWorkers
<1>1. ExpiryRead(b) => worker' = b
  BY DEF ExpiryRead, HoldJob
<1>2. ~ExpiryWrite(b) /\ ~ExpiryFails(b)
  BY DEF ExpiryWrite, ExpiryFails, HoldJob
<1>3. ~Stalls(b)
  <2>1. holdJob[b] \in HoldJob
    OBVIOUS
  <2>2. QED
    BY <2>1 DEF Stalls, HoldJob
<1>4. ASSUME NEW r \in BookingReqs, CreateAddHoldJob(r)
      PROVE  ~Adding(r, b)
  BY <1>4 DEF CreateAddHoldJob, Adding
<1>5. CASE holdJob'[b].state = holdJob[b].state
  <2>1. worker = b
    BY <1>5 DEF ActiveIsWorkers
  <2>2. worker # Null
    BY <2>1, BookingsAssumption
  <2>3. ASSUME NEW c \in Bookings PROVE ~ExpiryRead(c)
    BY <2>2 DEF ExpiryRead
  <2>4. ASSUME NEW c \in Bookings, c # b PROVE ~ExpiryWrite(c) /\ ~ExpiryFails(c)
    BY <2>1, <2>4 DEF ExpiryWrite, ExpiryFails
  <2>5. CASE Crash
    <3>1. Stalls(b)
      BY <2>1, <2>5 DEF Crash, Stalls
    <3>2. QED
      BY <1>3, <3>1
  <2>6. ASSUME NEW r \in BookingReqs,
               BookingCallStarts(r) \/ BookingCallGoesOn(r) \/ BookingCallFails(r)
        PROVE  worker' = worker
    BY <2>6 DEF BookingCallStarts, CreateRead, BookingRead, BookingCallGoesOn,
         CreateFindActive, CreateInsert, CreateRejected, CreateAddHoldJob, ConfirmWrite,
         ConfirmSell, CancelWrite, OutcomeWrite, NotifyFirst, NotifySecond,
         BookingCallFails
  <2>7. QED
    BY <1>2, <2>1, <2>3, <2>4, <2>5, <2>6 DEF Next, bookingVars, ExpiryStep, Tick
<1>6. CASE Tick /\ holdJob'[b] = [holdJob[b] EXCEPT !.delay = Sooner(holdJob[b].delay)]
  <2>1. holdJob[b] \in HoldJob
    OBVIOUS
  <2>2. QED
    BY <1>5, <1>6, <2>1 DEF HoldJob
<1>7. QED
  BY <1>1, <1>2, <1>3, <1>4, <1>5, <1>6, JobStep

\* The strengthening: a job that waits for a hold does not come due before the
\* hold has expired; otherwise it would be done and leave the hold.
InTime(b) == booking[b].holdExpiresIn # Null => booking[b].holdExpiresIn <= holdJob[b].delay

JobsInv ==
    \A b \in Bookings : booking[b].status = "HELD" =>
        \/ holdJob[b].state = "queued" /\ InTime(b)
        \/ holdJob[b].state = "active"
        \/ \E r \in BookingReqs : Adding(r, b)

LEMMA JobsInvStep ==
    ASSUME TypeOK, CallsOnRows, WorkerWaited, ActiveIsWorkers, JobsInv,
           Next, NoHoldJobIsLost
    PROVE  JobsInv'
<1> USE DEF TypeOK, BookingsTypeOK
<1> SUFFICES ASSUME NEW b \in Bookings, booking'[b].status = "HELD"
             PROVE  \/ holdJob'[b].state = "queued" /\ InTime(b)'
                    \/ holdJob'[b].state = "active"
                    \/ \E r \in BookingReqs : Adding(r, b)'
  BY DEF JobsInv
<1> DEFINE P == \/ holdJob'[b].state = "queued" /\ InTime(b)'
                \/ holdJob'[b].state = "active"
                \/ \E r \in BookingReqs : Adding(r, b)'
<1>1. ASSUME NEW r \in BookingReqs, CreateInsert(r, b) PROVE P
  <2>1. bookingCall[r] \in BookingRequest
    BY <1>1 DEF CreateInsert, At, IdleBookingCall
  <2>2. Adding(r, b)'
    BY <1>1, <2>1 DEF CreateInsert, Adding, BookingRequest
  <2>3. QED
    BY <2>2
<1>2. ASSUME NEW r \in BookingReqs, Adding(r, b) PROVE P
  <2>1. CASE Adding(r, b)'
    BY <2>1
  <2>2. CASE CreateAddHoldJob(r)
    <3>1. holdJob'[b] = [state |-> "queued", delay |-> HOLD_DURATION, stalled |-> FALSE]
      BY <1>2, <2>2 DEF CreateAddHoldJob, Adding
    <3>2. booking'[b] = booking[b] /\ booking[b] \in BookingRow \cup {NoBooking}
      BY <2>2 DEF CreateAddHoldJob
    <3>3. booking[b].holdExpiresIn \in Remaining \cup {Null}
      BY <3>2 DEF BookingRow, NoBooking
    <3>4. InTime(b)'
      BY <3>1, <3>2, <3>3, HoldAssumption DEF InTime, Remaining
    <3>5. QED
      BY <3>1, <3>4
  <2>3. QED
    BY <1>2, <2>1, <2>2, AddingStep
<1>3. ASSUME booking[b].status = "HELD", booking'[b] = booking[b] \/ Ages(b),
             ~(\E r \in BookingReqs : Adding(r, b))
      PROVE  P
  <2>1. \/ holdJob[b].state = "queued" /\ InTime(b)
        \/ holdJob[b].state = "active"
    BY <1>3 DEF JobsInv
  <2>2. booking[b] \in BookingRow /\ holdJob[b] \in HoldJob
    BY <1>3 DEF NoBooking
  <2>3. ~ExpiryWrite(b)
    BY <1>3, <2>2 DEF ExpiryWrite, Ages, Tick, BookingRow
  <2>4. CASE ExpiryRead(b)
    <3>1. holdJob[b].state = "queued" /\ InTime(b) /\ holdJob[b].delay = 0
      BY <2>1, <2>4 DEF ExpiryRead
    <3>2. Expired(b)
      BY <2>2, <3>1, HoldAssumption DEF InTime, Expired, BookingRow, Remaining
    <3>3. CanTransition("HELD", "AVAILABLE")
      BY DEF CanTransition, TRANSITIONS
    <3>4. holdJob' = [holdJob EXCEPT ![b].state = "active"]
      BY <1>3, <2>4, <3>2, <3>3 DEF ExpiryRead
    <3>5. QED
      BY <2>2, <3>4 DEF HoldJob
  <2>5. CASE Tick /\ holdJob'[b] = [holdJob[b] EXCEPT !.delay = Sooner(holdJob[b].delay)]
    <3>1. /\ holdJob'[b].state = holdJob[b].state
          /\ holdJob'[b].delay = Sooner(holdJob[b].delay)
          /\ holdJob[b].delay \in Remaining
      BY <2>2, <2>5 DEF HoldJob
    <3>2. /\ booking'[b].holdExpiresIn = Sooner(booking[b].holdExpiresIn)
          /\ booking[b].holdExpiresIn \in Remaining \cup {Null}
      BY <2>2, <2>5 DEF Tick, BookingRow
    <3>3. InTime(b) => InTime(b)'
      BY <3>1, <3>2, NullIsNoNumber, HoldAssumption DEF InTime, Remaining, Sooner
    <3>4. QED
      BY <2>1, <3>1, <3>3
  <2>6. CASE holdJob'[b] = holdJob[b]
    <3>1. CASE booking'[b] = booking[b]
      BY <2>1, <2>6, <3>1 DEF InTime
    <3>2. CASE Ages(b)
      <4>1. holdJob'[b] = [holdJob[b] EXCEPT !.delay = Sooner(holdJob[b].delay)]
        BY <3>2 DEF Ages, Tick
      <4>2. QED
        BY <2>5, <3>2, <4>1 DEF Ages
    <3>3. QED
      BY <1>3, <3>1, <3>2
  <2>7. ~ExpiryFails(b)
    BY <1>3 DEF NoHoldJobIsLost
  <2>8. CASE Stalls(b)
    <3>1. ~holdJob[b].stalled
      BY <1>3, <2>8 DEF NoHoldJobIsLost, Stalls
    <3>2. /\ holdJob'[b].state = "queued"
          /\ holdJob'[b].delay = holdJob[b].delay
          /\ holdJob[b].delay \in Remaining
      BY <2>2, <2>8, <3>1 DEF Stalls, HoldJob
    <3>3. booking[b].holdExpiresIn \in {0, Null}
      BY <1>3, <2>8, BookingsAssumption DEF Stalls, WorkerWaited
    <3>4. booking'[b].holdExpiresIn = booking[b].holdExpiresIn
      BY <2>8 DEF Stalls, Crash
    <3>5. InTime(b)'
      BY <3>2, <3>3, <3>4, HoldAssumption DEF InTime, Remaining
    <3>6. QED
      BY <3>2, <3>5
  <2>9. QED
    BY <1>3, <2>3, <2>4, <2>5, <2>6, <2>7, <2>8, JobStep
<1>4. QED
  BY <1>1, <1>2, <1>3, HeldStep

\* As long as no hold's job is lost, no hold is ever left to itself: whatever
\* other requests fail, and although processes die and jobs run twice.
THEOREM HoldsHaveJobs ==
    Spec /\ [][NoHoldJobIsLost]_vars => []EveryHoldHasAJob
<1> DEFINE IInv == WorkerWaited /\ ActiveIsWorkers /\ JobsInv
<1>1. Init => IInv
  <2>1. Init => WorkerWaited
    BY DEF Init, BookingsInit, WorkerWaited
  <2>2. Init => ActiveIsWorkers
    BY DEF Init, BookingsInit, NoJob, ActiveIsWorkers
  <2>3. Init => JobsInv
    BY DEF Init, BookingsInit, NoBooking, JobsInv
  <2>4. QED
    BY <2>1, <2>2, <2>3
<1>2. TypeOK /\ CallsOnRows /\ IInv /\ [Next]_vars /\ [NoHoldJobIsLost]_vars => IInv'
  <2>1. ASSUME IInv, UNCHANGED vars PROVE IInv'
    BY <2>1 DEF vars, bookingVars, WorkerWaited, ActiveIsWorkers, JobsInv, InTime, Adding
  <2>2. ASSUME TypeOK, CallsOnRows, IInv, Next, NoHoldJobIsLost PROVE IInv'
    BY <2>2, WorkerStep, ActiveIsWorkersStep, JobsInvStep
  <2>3. QED
    BY <2>1, <2>2
<1>3. IInv => EveryHoldHasAJob
  BY DEF JobsInv, Adding, EveryHoldHasAJob
<1>4. QED
  BY <1>1, <1>2, <1>3, RowsInvariant, PTL DEF Spec

-----------------------------------------------------------------------------
(* Every outcome is rescored, as long as no recompute job is lost          *)

\* r has recorded the outcome o of b and has jobs left to add.
Notifying(r, o, b) ==
    /\ At(r, "notifyFirst", {o}) \/ At(r, "notifySecond", {o})
    /\ bookingCall[r].booking = b

\* The strengthening: before the second job there was the first.
NotifiesInv ==
    /\ OutcomesAreRescored
    /\ \A r \in BookingReqs :
          bookingCall[r].pc = "notifySecond" =>
              <<bookingCall[r].aim, bookingCall[r].booking, FirstParty(bookingCall[r].aim)>>
                  \in recomputeJobs

LEMMA NotifyingStep ==
    ASSUME TypeOK, CallsOnRows, Next, NoRecomputeJobIsLost, NEW r \in BookingReqs,
           NEW o, NEW b \in Bookings, Notifying(r, o, b)
    PROVE  Notifying(r, o, b)' \/ NotifySecond(r)
<1> USE DEF TypeOK, BookingsTypeOK, Notifying, At
<1>0. bookingCall[r].pc \in AfterRead
  BY DEF AfterRead
<1>1. CASE bookingCall'[r] = bookingCall[r]
  BY <1>1
<1>2. ASSUME NEW q \in BookingReqs, q # r, Done(q) \/ \E pc : GoTo(q, pc)
      PROVE  bookingCall'[r] = bookingCall[r]
  BY <1>2 DEF Done, GoTo
<1>3. ASSUME NEW q \in BookingReqs, BookingCallStarts(q)
      PROVE  bookingCall'[r] = bookingCall[r]
  BY <1>3 DEF BookingCallStarts, CreateRead, BookingRead, Idle
<1>4. CASE NotifyFirst(r)
  BY <1>0, <1>4, CallAfterRead DEF NotifyFirst, GoTo
<1>5. ASSUME NEW q \in BookingReqs, BookingCallGoesOn(q), ~NotifyFirst(r)
      PROVE  bookingCall'[r] = bookingCall[r] \/ NotifySecond(r)
  <2>1. CASE CreateFindActive(q)
    BY <1>2, <2>1 DEF CreateFindActive
  <2>2. ASSUME NEW c \in Bookings, CreateInsert(q, c)
        PROVE  bookingCall'[r] = bookingCall[r]
    BY <2>2 DEF CreateInsert
  <2>3. CASE NotifyFirst(q) \/ NotifySecond(q)
    BY <1>2, <1>5, <2>3 DEF NotifyFirst, NotifySecond
  <2>4. QED
    BY <1>2, <1>5, <2>1, <2>2, <2>3
       DEF BookingCallGoesOn, CreateRejected, CreateAddHoldJob, ConfirmWrite, ConfirmSell,
           CancelWrite, OutcomeWrite
<1>6. CASE Tick
  <2>1. bookingCall'[r] = [bookingCall[r] EXCEPT !.holdExpiresIn =
                               Sooner(bookingCall[r].holdExpiresIn)]
    BY <1>6 DEF Tick
  <2>2. bookingCall[r] \in BookingRequest
    BY DEF IdleBookingCall
  <2>3. QED
    BY <2>1, <2>2 DEF BookingRequest
<1>7. ASSUME NEW q \in BookingReqs, BookingCallFails(q)
      PROVE  bookingCall'[r] = bookingCall[r] \/ NotifySecond(r)
  <2>1. q = r => NotifySecond(r)
    BY <1>7 DEF NoRecomputeJobIsLost
  <2>2. q # r => bookingCall'[r] = bookingCall[r]
    BY <1>2, <1>7 DEF BookingCallFails
  <2>3. QED
    BY <2>1, <2>2
<1>8. Crash => NotifySecond(r)
  BY DEF NoRecomputeJobIsLost
<1>9. QED
  BY <1>1, <1>3, <1>4, <1>5, <1>6, <1>7, <1>8
     DEF Next, bookingVars, ExpiryStep, ExpiryRead, ExpiryWrite, ExpiryFails

LEMMA RecordStep ==
    ASSUME TypeOK, CallsOnRows, Next, NEW b \in Bookings, NEW o \in Outcome,
           trustEvents'[b][o] > 0
    PROVE  \/ trustEvents[b][o] > 0
           \/ \E r \in BookingReqs : Notifying(r, o, b)'
<1> USE DEF TypeOK, BookingsTypeOK
<1>1. CASE UNCHANGED trustEvents
  BY <1>1
<1>2. ASSUME NEW r \in BookingReqs, OutcomeWrite(r)
      PROVE  trustEvents[b][o] > 0 \/ Notifying(r, o, b)'
  <2>1. bookingCall[r].pc \in AfterRead /\ bookingCall[r].aim \in Outcome
    BY <1>2 DEF OutcomeWrite, At, AfterRead
  <2>2. /\ bookingCall'[r].pc = "notifyFirst"
        /\ bookingCall'[r].aim = bookingCall[r].aim
        /\ bookingCall'[r].booking = bookingCall[r].booking
    BY <1>2, <2>1, CallAfterRead DEF OutcomeWrite, GoTo
  <2>3. CASE bookingCall[r].booking = b /\ bookingCall[r].aim = o
    BY <2>2, <2>3 DEF Notifying, At
  <2>4. CASE ~(bookingCall[r].booking = b /\ bookingCall[r].aim = o)
    BY <1>2, <2>1, <2>4 DEF OutcomeWrite
  <2>5. QED
    BY <2>3, <2>4
<1>3. QED
  BY <1>1, <1>2
     DEF Next, bookingVars, BookingCallStarts, CreateRead, BookingRead, BookingCallGoesOn,
         CreateFindActive, CreateInsert, CreateRejected, CreateAddHoldJob, ConfirmWrite,
         ConfirmSell, CancelWrite, NotifyFirst, NotifySecond, BookingCallFails, ExpiryStep,
         ExpiryRead, ExpiryWrite, ExpiryFails, Crash, Tick

LEMMA JobsStay ==
    ASSUME TypeOK, Next
    PROVE  recomputeJobs \subseteq recomputeJobs'
BY DEF Next, bookingVars, BookingCallStarts, CreateRead, BookingRead, BookingCallGoesOn,
       CreateFindActive, CreateInsert, CreateRejected, CreateAddHoldJob, ConfirmWrite,
       ConfirmSell, CancelWrite, OutcomeWrite, NotifyFirst, NotifySecond, BookingCallFails,
       ExpiryStep, ExpiryRead, ExpiryWrite, ExpiryFails, Crash, Tick

\* A request comes to its second job by adding the first.
LEMMA SecondStep ==
    ASSUME TypeOK, CallsOnRows, Next, NEW r \in BookingReqs,
           bookingCall'[r].pc = "notifySecond"
    PROVE  /\ bookingCall'[r].aim = bookingCall[r].aim
           /\ bookingCall'[r].booking = bookingCall[r].booking
           /\ bookingCall[r].pc = "notifySecond" \/ NotifyFirst(r)
<1> USE DEF TypeOK, BookingsTypeOK
<1> DEFINE P == /\ bookingCall'[r].aim = bookingCall[r].aim
                /\ bookingCall'[r].booking = bookingCall[r].booking
                /\ bookingCall[r].pc = "notifySecond" \/ NotifyFirst(r)
<1>1. CASE bookingCall'[r] = bookingCall[r]
  BY <1>1
<1>2. ASSUME NEW q \in BookingReqs, Done(q) PROVE P
  BY <1>2 DEF Done, IdleBookingCall
<1>3. ASSUME NEW q \in BookingReqs, NEW pc \in {"sell", "notifyFirst"}, GoTo(q, pc)
      PROVE  P
  BY <1>3 DEF GoTo
<1>4. ASSUME NEW q \in BookingReqs, BookingCallStarts(q) PROVE P
  BY <1>4 DEF BookingCallStarts, CreateRead, BookingRead, IdleBookingCall
<1>5. ASSUME NEW q \in BookingReqs, NotifyFirst(q) PROVE P
  <2>1. bookingCall[q].pc \in AfterRead
    BY <1>5 DEF NotifyFirst, AfterRead
  <2>2. CASE q = r
    BY <1>5, <2>1, <2>2, CallAfterRead DEF NotifyFirst, GoTo
  <2>3. CASE q # r
    BY <1>5, <2>3, <1>1 DEF NotifyFirst, GoTo
  <2>4. QED
    BY <2>2, <2>3
<1>6. ASSUME NEW q \in BookingReqs, CreateFindActive(q) PROVE P
  <2>1. CASE bookingCall' = [bookingCall EXCEPT ![q].pc = "insert",
                                                ![q].holdExpiresIn = HOLD_DURATION]
    <3>1. bookingCall[q] \in BookingRequest
      BY <1>6 DEF CreateFindActive, At, IdleBookingCall
    <3>2. QED
      BY <2>1, <3>1 DEF BookingRequest
  <2>2. QED
    BY <1>2, <1>6, <2>1 DEF CreateFindActive
<1>7. ASSUME NEW q \in BookingReqs, NEW b \in Bookings, CreateInsert(q, b) PROVE P
  <2>1. bookingCall[q] \in BookingRequest
    BY <1>7 DEF CreateInsert, At, IdleBookingCall
  <2>2. QED
    BY <1>7, <2>1 DEF CreateInsert, BookingRequest
<1>8. CASE Crash
  BY <1>8 DEF Crash, IdleBookingCall
<1>9. CASE Tick
  <2>1. bookingCall'[r] = [bookingCall[r] EXCEPT !.holdExpiresIn =
                               Sooner(bookingCall[r].holdExpiresIn)]
    BY <1>9 DEF Tick
  <2>2. CASE bookingCall[r] \in BookingRequest
    BY <2>1, <2>2 DEF BookingRequest
  <2>3. CASE bookingCall[r] = IdleBookingCall
    BY <2>1, <2>3 DEF IdleBookingCall
  <2>4. QED
    BY <2>2, <2>3
<1>10. QED
  BY <1>1, <1>2, <1>3, <1>4, <1>5, <1>6, <1>7, <1>8, <1>9
     DEF Next, bookingVars, BookingCallGoesOn, CreateRejected, CreateAddHoldJob,
         ConfirmWrite, ConfirmSell, CancelWrite, OutcomeWrite, NotifySecond,
         BookingCallFails, ExpiryStep, ExpiryRead, ExpiryWrite, ExpiryFails

LEMMA NotifiesInvStep ==
    ASSUME TypeOK, CallsOnRows, Next, NoRecomputeJobIsLost, NotifiesInv
    PROVE  NotifiesInv'
<1>1. ASSUME NEW b \in Bookings, NEW o \in Outcome, trustEvents'[b][o] > 0, NEW p \in Party
      PROVE  \/ <<o, b, p>> \in recomputeJobs'
             \/ \E r \in BookingReqs : Notifying(r, o, b)'
  <2>1. CASE trustEvents[b][o] > 0 /\ <<o, b, p>> \in recomputeJobs
    BY <2>1, JobsStay
  <2>2. ASSUME NEW r \in BookingReqs, Notifying(r, o, b), NotifySecond(r)
        PROVE  <<o, b, p>> \in recomputeJobs'
    <3>1. /\ bookingCall[r].pc = "notifySecond"
          /\ bookingCall[r].aim = o /\ bookingCall[r].booking = b
      BY <2>2 DEF Notifying, At, NotifySecond
    <3>2. <<o, b, "owner">> \in recomputeJobs
      BY <3>1 DEF NotifiesInv, FirstParty, Outcome
    <3>3. <<o, b, "student">> \in recomputeJobs'
      BY <2>2, <3>1 DEF NotifySecond, SecondParty, Outcome
    <3>4. QED
      BY <3>2, <3>3, JobsStay DEF Party
  <2>3. ASSUME NEW r \in BookingReqs, Notifying(r, o, b)
        PROVE  \/ <<o, b, p>> \in recomputeJobs'
               \/ \E q \in BookingReqs : Notifying(q, o, b)'
    BY <2>2, <2>3, NotifyingStep
  <2>4. CASE trustEvents[b][o] > 0
    BY <2>1, <2>3, <2>4 DEF NotifiesInv, OutcomesAreRescored, Notifying
  <2>5. QED
    BY <1>1, <2>4, RecordStep
<1>2. ASSUME NEW r \in BookingReqs, bookingCall'[r].pc = "notifySecond"
      PROVE  <<bookingCall'[r].aim, bookingCall'[r].booking, FirstParty(bookingCall'[r].aim)>>
                 \in recomputeJobs'
  <2>1. /\ bookingCall'[r].aim = bookingCall[r].aim
        /\ bookingCall'[r].booking = bookingCall[r].booking
        /\ bookingCall[r].pc = "notifySecond" \/ NotifyFirst(r)
    BY <1>2, SecondStep
  <2>2. CASE bookingCall[r].pc = "notifySecond"
    BY <2>1, <2>2, JobsStay DEF NotifiesInv
  <2>3. CASE NotifyFirst(r)
    BY <2>1, <2>3 DEF NotifyFirst
  <2>4. QED
    BY <2>1, <2>2, <2>3
<1>3. QED
  BY <1>1, <1>2 DEF NotifiesInv, OutcomesAreRescored, Notifying, FirstParty

\* As long as no recompute job is lost, both parties of every recorded outcome
\* are rescored, or the request that recorded it is about to ask for it:
\* whatever other requests fail, and although processes die.
THEOREM OutcomesRescored ==
    Spec /\ [][NoRecomputeJobIsLost]_vars => []OutcomesAreRescored
<1>1. Init => NotifiesInv
  BY DEF Init, BookingsInit, IdleBookingCall, NotifiesInv, OutcomesAreRescored
<1>2. TypeOK /\ CallsOnRows /\ NotifiesInv /\ [Next]_vars /\ [NoRecomputeJobIsLost]_vars
          => NotifiesInv'
  <2>1. ASSUME NotifiesInv, UNCHANGED vars PROVE NotifiesInv'
    BY <2>1 DEF vars, bookingVars, NotifiesInv, OutcomesAreRescored, At
  <2>2. QED
    BY <2>1, NotifiesInvStep
<1>3. NotifiesInv => OutcomesAreRescored
  BY DEF NotifiesInv
<1>4. QED
  BY <1>1, <1>2, <1>3, RowsInvariant, PTL DEF Spec
=============================================================================
