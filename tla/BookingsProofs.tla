--------------------------- MODULE BookingsProofs ---------------------------
(***************************************************************************)
(* Proofs about Bookings, for any number of listings, bookings and         *)
(* requests, any hold time and any faults.                                 *)
(***************************************************************************)
EXTENDS Bookings, TLAPS

-----------------------------------------------------------------------------
(* Type correctness                                                        *)

LEMMA SetStatusType ==
    ASSUME ListingsTypeOK, NEW l, NEW s \in ListingStatus, SetStatus(l, s)
    PROVE  listing' \in [Listings -> ListingStatus \cup NoRow]
BY DEF ListingsTypeOK, SetStatus

LEMMA ListingsTypeStep ==
    ASSUME ListingsTypeOK, NEW ref, ListingsStep(ref)
    PROVE  ListingsTypeOK'
<1> USE MaxEditsAssumption DEF ListingsTypeOK
<1>1. PICK r \in ListingReqs :
          \/ \E l \in Listings : ListingCallStarts(r, l)
          \/ ListingCallGoesOn(r, ref)
          \/ ListingCallFails(r)
  BY DEF ListingsStep
<1>2. ASSUME NEW l \in Listings, CreateListing(r, l) PROVE ListingsTypeOK'
  BY <1>2 DEF CreateListing, ListingStatus
<1>3. ASSUME NEW l \in Listings, NEW op, NEW pc \in ListingPc, Proceed(r, op, l, pc),
             UNCHANGED <<listing, photo, content, audit, hashJobs>>
      PROVE ListingsTypeOK'
  BY <1>3 DEF Proceed, ListingRequest
<1>4. ASSUME NEW l \in Listings, ListingCallStarts(r, l) PROVE ListingsTypeOK'
  BY <1>2, <1>3, <1>4 DEF ListingCallStarts, UploadPhoto, UpdateRead, SubmitRead,
                          ReviewRead, FlagRead, DeleteRead, ListingPc
<1>5. ASSUME listingCall[r].pc # "idle" PROVE listingCall[r] \in ListingRequest
  BY <1>5 DEF IdleListingCall
<1>6. CASE AttachPhoto(r)
  <2>1. listingCall[r] \in ListingRequest
    BY <1>5, <1>6 DEF AttachPhoto
  <2>2. [listingCall[r] EXCEPT !.pc = "hashPhoto"] \in ListingRequest
    BY <2>1 DEF ListingRequest, ListingPc
  <2>3. photo' \in [Listings -> BOOLEAN]
    BY <1>6, <2>1 DEF AttachPhoto
  <2>4. listingCall' \in [ListingReqs -> ListingRequest \cup {IdleListingCall}]
    BY <1>6, <2>2 DEF AttachPhoto
  <2>5. QED
    BY <1>6, <2>3, <2>4 DEF AttachPhoto
<1>7. CASE HashPhoto(r)
  BY <1>5, <1>7 DEF HashPhoto, Answer, ListingRequest
<1>8. CASE UpdateWrite(r)
  BY <1>5, <1>8 DEF UpdateWrite, Answer, ListingRequest
<1>9. CASE SubmitWrite(r)
  BY <1>5, <1>9 DEF SubmitWrite, Answer, SetStatusLogged, SetStatus, ListingStatus, AuditAction
<1>10. CASE ReviewWrite(r)
  BY <1>5, <1>10 DEF ReviewWrite, Answer, ListingRequest, SetStatusLogged, SetStatus, ListingStatus, AuditAction
<1>11. CASE FlagWrite(r)
  BY <1>5, <1>11 DEF FlagWrite, Answer, SetStatus, ListingStatus
<1>12. CASE DeleteWrite(r, ref)
  BY <1>5, <1>12 DEF DeleteWrite, Answer, NoRow
<1>13. CASE ListingCallFails(r)
  BY <1>5, <1>13 DEF ListingCallFails
<1>14. QED
  BY <1>1, <1>4, <1>6, <1>7, <1>8, <1>9, <1>10, <1>11, <1>12, <1>13 DEF ListingCallGoesOn

\* The booking endpoints and the worker write the status of a listing too.
LEMMA ListingsTypeNext ==
    ASSUME TypeOK, Next
    PROVE  ListingsTypeOK'
<1>1. ListingsTypeOK
  BY DEF TypeOK
<1>2. ASSUME NEW l, NEW s \in ListingStatus, SetStatus(l, s), UNCHANGED ListingRest
      PROVE  ListingsTypeOK'
  BY <1>1, <1>2, SetStatusType DEF ListingRest, ListingsTypeOK
<1>3. CASE UNCHANGED listingVars
  BY <1>1, <1>3 DEF listingVars, ListingsTypeOK
<1>4. CASE ListingsStep(Referenced)
  BY <1>1, <1>4, ListingsTypeStep
<1>5. ASSUME NEW r \in BookingReqs, BookingCallGoesOn(r) PROVE ListingsTypeOK'
  <2>1. {"INACTIVE", "SOLD", "VERIFIED"} \subseteq ListingStatus
    BY DEF ListingStatus
  <2>2. QED
    BY <1>2, <1>3, <1>5, <2>1
       DEF BookingCallGoesOn, CreateFindActive, CreateInsert, CreateRejected,
           CreateAddHoldJob, ConfirmWrite, ConfirmSell, CancelWrite, OutcomeWrite,
           NotifyFirst, NotifySecond
<1>6. ASSUME NEW r \in BookingReqs, BookingCallStarts(r) \/ BookingCallFails(r)
      PROVE  ListingsTypeOK'
  BY <1>3, <1>6 DEF BookingCallStarts, CreateRead, BookingRead, BookingCallFails
<1>7. ASSUME NEW b \in Bookings, ExpiryRead(b) \/ ExpiryWrite(b) \/ ExpiryFails(b)
      PROVE  ListingsTypeOK'
  <2>1. "ACTIVE" \in ListingStatus
    BY DEF ListingStatus
  <2>2. QED
    BY <1>2, <1>3, <1>7, <2>1 DEF ExpiryRead, ExpiryWrite, ExpiryFails
<1>8. CASE Crash
  BY <1>1, <1>8 DEF Crash, ListingsTypeOK
<1>9. QED
  BY <1>3, <1>4, <1>5, <1>6, <1>7, <1>8 DEF Next, ExpiryStep, Tick

\* A request that has a booking, and the worker, are at a row that exists;
\* the request knows the listing of that row.
CallsOnRows ==
    /\ \A r \in BookingReqs :
          bookingCall[r].booking # Null =>
              /\ booking[bookingCall[r].booking].status # "ABSENT"
              /\ booking[bookingCall[r].booking].listing = bookingCall[r].listing
    /\ worker # Null => booking[worker].status # "ABSENT"

\* The awaits after a request has read or made its row.
AfterRead == {"write", "sell", "notifyFirst", "notifySecond"}

\* What such a request knows of its booking.
LEMMA CallAfterRead ==
    ASSUME TypeOK, CallsOnRows, NEW r \in BookingReqs, bookingCall[r].pc \in AfterRead
    PROVE  /\ bookingCall[r] \in [pc : AfterRead, aim : Aim \ {"HELD"}, booking : Bookings,
                                  listing : Listings, holdExpiresIn : {Null}]
           /\ booking[bookingCall[r].booking] \in BookingRow
           /\ booking[bookingCall[r].booking].listing = bookingCall[r].listing
<1>1. bookingCall[r] \in BookingRequest \cup {IdleBookingCall}
  BY DEF TypeOK, BookingsTypeOK
<1>2. bookingCall[r] \in [pc : AfterRead, aim : Aim \ {"HELD"}, booking : Bookings,
                          listing : Listings, holdExpiresIn : {Null}]
  BY <1>1 DEF BookingRequest, IdleBookingCall, AfterRead
<1>3. bookingCall[r].booking \in Bookings /\ bookingCall[r].booking # Null
  BY <1>2, BookingsAssumption
<1>4. booking[bookingCall[r].booking] \in BookingRow \cup {NoBooking}
  BY <1>3 DEF TypeOK, BookingsTypeOK
<1>5. QED
  BY <1>2, <1>3, <1>4 DEF CallsOnRows, NoBooking

LEMMA BookingsTypeStep ==
    ASSUME TypeOK, CallsOnRows, Next
    PROVE  BookingsTypeOK'
<1> USE HoldAssumption DEF TypeOK, BookingsTypeOK
<1>1. CASE UNCHANGED bookingVars
  BY <1>1 DEF bookingVars
<1>2. ASSUME NEW r \in BookingReqs, BookingCallStarts(r) PROVE BookingsTypeOK'
  <2>1. CASE \E l \in Listings : CreateRead(r, l)
    <3>1. PICK l \in Listings : CreateRead(r, l)
      BY <2>1
    <3>2. [IdleBookingCall EXCEPT !.pc = "findActive", !.aim = "HELD", !.listing = l]
              \in BookingRequest
      BY DEF BookingRequest, IdleBookingCall
    <3>3. QED
      BY <3>1, <3>2 DEF CreateRead
  <2>2. ASSUME NEW b \in Bookings, NEW aim \in DOMAIN OpOf, BookingRead(r, b, aim)
        PROVE  BookingsTypeOK'
    <3>1. aim \in Aim \ {"HELD"}
      BY DEF OpOf, Aim, Outcome
    <3>2. booking[b] \in BookingRow
      BY <2>2 DEF BookingRead, NoBooking, Accepted, BookingStatus, Active, Outcome, OpOf
    <3>3. [IdleBookingCall EXCEPT !.pc = "write", !.aim = aim, !.booking = b,
                                  !.listing = booking[b].listing] \in BookingRequest
      BY <3>1, <3>2 DEF BookingRequest, IdleBookingCall, BookingRow
    <3>4. QED
      BY <2>2, <3>3 DEF BookingRead
  <2>3. QED
    BY <1>2, <2>1, <2>2 DEF BookingCallStarts
<1>3. ASSUME NEW r \in BookingReqs, BookingCallGoesOn(r) PROVE BookingsTypeOK'
  <2> DEFINE c == bookingCall[r]
  <2>0. c.pc # "idle" /\ c \in BookingRequest
    BY <1>3 DEF BookingCallGoesOn, CreateFindActive, CreateInsert, CreateRejected,
                CreateAddHoldJob, ConfirmWrite, ConfirmSell, CancelWrite, OutcomeWrite,
                NotifyFirst, NotifySecond, At, IdleBookingCall
  <2>1. CASE CreateFindActive(r)
    BY <2>0, <2>1 DEF CreateFindActive, At, Done, BookingRequest, Remaining
  <2>2. ASSUME NEW b \in Bookings, CreateInsert(r, b) PROVE BookingsTypeOK'
    BY <2>0, <2>2 DEF CreateInsert, At, BookingRequest, BookingRow, BookingStatus
  <2>3. CASE CreateRejected(r)
    BY <2>3 DEF CreateRejected, Done
  <2>4. CASE CreateAddHoldJob(r)
    BY <2>0, <2>4 DEF CreateAddHoldJob, At, Done, BookingRequest, HoldJob, Remaining
  <2>5. ASSUME c.pc \in AfterRead
        PROVE  /\ c.booking \in Bookings
               /\ c.aim \in Aim \ {"HELD"}
               /\ booking[c.booking] \in BookingRow
               /\ \A pc \in AfterRead : [c EXCEPT !.pc = pc] \in BookingRequest
    <3>1. c \in [pc : AfterRead, aim : Aim \ {"HELD"}, booking : Bookings,
                 listing : Listings, holdExpiresIn : {Null}]
      BY <2>5, CallAfterRead
    <3>2. \A pc \in AfterRead : [c EXCEPT !.pc = pc] \in BookingRequest
      BY <3>1 DEF BookingRequest, AfterRead
    <3>3. QED
      BY <2>5, <3>1, <3>2, CallAfterRead
  <2>6. CASE ConfirmWrite(r)
    <3>1. c.pc \in AfterRead
      BY <2>6 DEF ConfirmWrite, At, AfterRead
    <3>2. [booking[c.booking] EXCEPT !.status = "BOOKED", !.holdExpiresIn = Null,
                                     !.bookedAt = TRUE] \in BookingRow
      BY <2>5, <3>1 DEF BookingRow, BookingStatus
    <3>3. QED
      BY <2>5, <2>6, <3>1, <3>2 DEF ConfirmWrite, GoTo, AfterRead
  <2>7. CASE ConfirmSell(r)
    BY <2>5, <2>7 DEF ConfirmSell, At, GoTo, AfterRead
  <2>8. CASE CancelWrite(r)
    <3>1. c.pc \in AfterRead
      BY <2>8 DEF CancelWrite, At, AfterRead
    <3>2. [booking[c.booking] EXCEPT !.status = "CANCELLED"] \in BookingRow
      BY <2>5, <3>1 DEF BookingRow, BookingStatus
    <3>3. QED
      BY <2>5, <2>8, <3>1, <3>2 DEF CancelWrite, Done
  <2>12. CASE OutcomeWrite(r)
    <3>1. c.pc \in AfterRead /\ c.aim \in Outcome
      BY <2>12 DEF OutcomeWrite, At, AfterRead
    <3>2. booking' \in [Bookings -> BookingRow \cup {NoBooking}]
      BY <2>5, <2>12, <3>1 DEF OutcomeWrite, BookingRow, BookingStatus
    <3>3. trustEvents' \in [Bookings -> [Outcome -> Nat]]
      BY <2>5, <2>12, <3>1 DEF OutcomeWrite
    <3>4. QED
      BY <2>5, <2>12, <3>1, <3>2, <3>3 DEF OutcomeWrite, GoTo, AfterRead
  <2>9. CASE NotifyFirst(r)
    BY <2>5, <2>9 DEF NotifyFirst, FirstParty, GoTo, Party, AfterRead
  <2>10. CASE NotifySecond(r)
    BY <2>5, <2>10 DEF NotifySecond, SecondParty, Done, Party, AfterRead
  <2>11. QED
    BY <1>3, <2>1, <2>2, <2>3, <2>4, <2>5, <2>6, <2>7, <2>8, <2>9, <2>10, <2>12
       DEF BookingCallGoesOn
<1>4. CASE \E r \in BookingReqs : BookingCallFails(r)
  BY <1>4 DEF BookingCallFails, Done
<1>5. ASSUME NEW b \in Bookings, ExpiryRead(b) \/ ExpiryWrite(b) \/ ExpiryFails(b)
      PROVE  BookingsTypeOK'
  <2>1. holdJob' \in [Bookings -> HoldJob] /\ worker' \in Bookings \cup {Null}
    <3>1. \A st \in {"active", "done", "failed"} :
              [holdJob EXCEPT ![b].state = st] \in [Bookings -> HoldJob]
      BY DEF HoldJob
    <3>2. CASE ExpiryRead(b)
      BY <3>1, <3>2 DEF ExpiryRead
    <3>3. CASE ExpiryWrite(b)
      BY <3>1, <3>3 DEF ExpiryWrite
    <3>4. CASE ExpiryFails(b)
      BY <3>1, <3>4 DEF ExpiryFails
    <3>5. QED
      BY <1>5, <3>2, <3>3, <3>4
  <2>2. ASSUME ExpiryWrite(b) PROVE booking' \in [Bookings -> BookingRow \cup {NoBooking}]
    <3>1. booking[b] \in BookingRow
      BY <2>2, BookingsAssumption DEF ExpiryWrite, CallsOnRows, NoBooking
    <3>2. QED
      BY <2>2, <3>1 DEF ExpiryWrite, BookingRow, BookingStatus
  <2>3. QED
    BY <1>5, <2>1, <2>2 DEF ExpiryRead, ExpiryWrite, ExpiryFails
<1>6. CASE Crash
  BY <1>6 DEF Crash, HoldJob
<1>7. CASE Tick
  <2>1. \A x \in Remaining \cup {Null} : Sooner(x) \in Remaining \cup {Null}
    BY DEF Sooner, Remaining
  <2>2. \A x \in Remaining : Sooner(x) \in Remaining
    BY DEF Sooner, Remaining
  <2>3. booking' \in [Bookings -> BookingRow \cup {NoBooking}]
    <3>1. Sooner(Null) = Null
      BY NullIsNoNumber DEF Sooner
    <3>2. ASSUME NEW b \in Bookings
          PROVE  booking'[b] \in BookingRow \cup {NoBooking}
      <4>1. booking'[b] = [booking[b] EXCEPT !.holdExpiresIn =
                               Sooner(booking[b].holdExpiresIn)]
        BY <1>7 DEF Tick
      <4>2. CASE booking[b] = NoBooking
        <5>1. [NoBooking EXCEPT !.holdExpiresIn = NoBooking.holdExpiresIn] = NoBooking
          BY Zenon DEF NoBooking
        <5>2. NoBooking.holdExpiresIn = Null
          BY DEF NoBooking
        <5>3. QED
          BY <3>1, <4>1, <4>2, <5>1, <5>2
      <4>3. CASE booking[b] \in BookingRow
        <5>1. Sooner(booking[b].holdExpiresIn) \in Remaining \cup {Null}
          BY <2>1, <4>3 DEF BookingRow
        <5>2. \A row \in BookingRow, x \in Remaining \cup {Null} :
                  [row EXCEPT !.holdExpiresIn = x] \in BookingRow
          BY DEF BookingRow
        <5>3. QED
          BY <4>1, <4>3, <5>1, <5>2
      <4>4. QED
        BY <4>2, <4>3
    <3>3. QED
      BY <1>7, <3>2 DEF Tick
  <2>4. bookingCall' \in [BookingReqs -> BookingRequest \cup {IdleBookingCall}]
    <3>1. Sooner(Null) = Null
      BY NullIsNoNumber DEF Sooner
    <3>2. ASSUME NEW r \in BookingReqs
          PROVE  bookingCall'[r] \in BookingRequest \cup {IdleBookingCall}
      <4>1. bookingCall'[r] = [bookingCall[r] EXCEPT !.holdExpiresIn =
                                   Sooner(bookingCall[r].holdExpiresIn)]
        BY <1>7 DEF Tick
      <4>2. CASE bookingCall[r] = IdleBookingCall
        BY <3>1, <4>1, <4>2 DEF IdleBookingCall
      <4>3. CASE bookingCall[r] \in BookingRequest
        BY <2>2, <3>1, <4>1, <4>3 DEF BookingRequest
      <4>4. QED
        BY <4>2, <4>3
    <3>3. QED
      BY <1>7, <3>2 DEF Tick
  <2>5. holdJob' \in [Bookings -> HoldJob]
    BY <1>7, <2>2 DEF Tick, HoldJob
  <2>6. QED
    BY <1>7, <2>3, <2>4, <2>5 DEF Tick
<1>8. QED
  BY <1>1, <1>2, <1>3, <1>4, <1>5, <1>6, <1>7 DEF Next, ExpiryStep

RowStays(b) ==
    /\ booking'[b].status # "ABSENT"
    /\ booking'[b].listing = booking[b].listing
    /\ booking[b].bookedAt => booking'[b].bookedAt

\* Rows are never removed, never change their listing, and keep bookedAt.
LEMMA RowsStay ==
    ASSUME TypeOK, CallsOnRows, Next, NEW b \in Bookings, booking[b].status # "ABSENT"
    PROVE  RowStays(b)
<1> USE DEF TypeOK, BookingsTypeOK
<1>0. booking[b] \in BookingRow
  BY DEF NoBooking
<1>1. ASSUME UNCHANGED booking PROVE RowStays(b)
  BY <1>1 DEF RowStays
<1>2. ASSUME NEW r \in BookingReqs, NEW c \in Bookings, CreateInsert(r, c)
      PROVE  RowStays(b)
  BY <1>2 DEF CreateInsert, RowStays
<1>3. ASSUME NEW r \in BookingReqs, ConfirmWrite(r)
      PROVE  RowStays(b)
  BY <1>0, <1>3 DEF ConfirmWrite, BookingRow, RowStays
<1>4. ASSUME NEW r \in BookingReqs, CancelWrite(r)
      PROVE  RowStays(b)
  BY <1>0, <1>4 DEF CancelWrite, BookingRow, RowStays
<1>5. ASSUME NEW r \in BookingReqs, OutcomeWrite(r)
      PROVE  RowStays(b)
  BY <1>0, <1>5 DEF OutcomeWrite, At, Outcome, BookingRow, RowStays
<1>6. ASSUME NEW c \in Bookings, ExpiryWrite(c)
      PROVE  RowStays(b)
  BY <1>0, <1>6 DEF ExpiryWrite, BookingRow, RowStays
<1>7. CASE Tick
  BY <1>0, <1>7 DEF Tick, BookingRow, RowStays
<1>8. QED
  BY <1>1, <1>2, <1>3, <1>4, <1>5, <1>6, <1>7
     DEF Next, bookingVars, BookingCallStarts, CreateRead, BookingRead, BookingCallGoesOn,
         CreateFindActive, CreateRejected, CreateAddHoldJob, ConfirmSell, NotifyFirst,
         NotifySecond, BookingCallFails, ExpiryStep, ExpiryRead, ExpiryFails, Crash

LEMMA CallsOnRowsStep ==
    ASSUME TypeOK, CallsOnRows, Next
    PROVE  CallsOnRows'
<1> USE DEF TypeOK, BookingsTypeOK
<1> DEFINE OnRow(c) == c.booking # Null =>
                           /\ booking[c.booking].status # "ABSENT"
                           /\ booking[c.booking].listing = c.listing
<1>1. ASSUME NEW c \in BookingRequest \cup {IdleBookingCall}, OnRow(c) PROVE OnRow(c)'
  <2>1. c.booking \in Bookings \cup {Null}
    BY DEF BookingRequest, IdleBookingCall
  <2>2. QED
    BY <1>1, <2>1, RowsStay DEF RowStays
<1>2. ASSUME NEW r \in BookingReqs
      PROVE  \/ bookingCall'[r].booking = Null
             \/ /\ bookingCall'[r].booking = bookingCall[r].booking
                /\ bookingCall'[r].listing = bookingCall[r].listing
             \/ /\ bookingCall'[r].booking \in Bookings
                /\ booking'[bookingCall'[r].booking].status # "ABSENT"
                /\ booking'[bookingCall'[r].booking].listing = bookingCall'[r].listing
  <2> DEFINE P == \/ bookingCall'[r].booking = Null
                  \/ /\ bookingCall'[r].booking = bookingCall[r].booking
                     /\ bookingCall'[r].listing = bookingCall[r].listing
                  \/ /\ bookingCall'[r].booking \in Bookings
                     /\ booking'[bookingCall'[r].booking].status # "ABSENT"
                     /\ booking'[bookingCall'[r].booking].listing = bookingCall'[r].listing
  <2>1. CASE UNCHANGED bookingCall
    BY <2>1
  <2>2. ASSUME NEW q \in BookingReqs, NEW l \in Listings, CreateRead(q, l) PROVE P
    BY <2>2 DEF CreateRead, IdleBookingCall
  <2>3. ASSUME NEW q \in BookingReqs, NEW b \in Bookings, NEW aim \in DOMAIN OpOf,
               BookingRead(q, b, aim)
        PROVE  P
    <3>1. booking[b].status # "ABSENT"
      BY <2>3 DEF BookingRead, Accepted, BookingStatus, Active, Outcome, OpOf
    <3>2. QED
      BY <2>3, <3>1 DEF BookingRead, IdleBookingCall
  <2>4. ASSUME NEW q \in BookingReqs, NEW b \in Bookings, CreateInsert(q, b) PROVE P
    BY <2>4 DEF CreateInsert, At
  <2>5. ASSUME NEW q \in BookingReqs, Done(q) PROVE P
    BY <2>5 DEF Done, IdleBookingCall
  <2>6. ASSUME NEW q \in BookingReqs, NEW pc, GoTo(q, pc) PROVE P
    BY <2>6 DEF GoTo
  <2>7. ASSUME NEW q \in BookingReqs, CreateFindActive(q) PROVE P
    <3>1. CASE Done(q)
      BY <2>5, <3>1
    <3>2. CASE bookingCall' = [bookingCall EXCEPT ![q].pc = "insert",
                                                  ![q].holdExpiresIn = HOLD_DURATION]
      <4>1. bookingCall[q] \in BookingRequest
        BY <2>7 DEF CreateFindActive, At, IdleBookingCall
      <4>2. QED
        BY <3>2, <4>1 DEF BookingRequest
    <3>3. QED
      BY <2>7, <3>1, <3>2 DEF CreateFindActive
  <2>8. CASE Crash
    BY <2>8 DEF Crash, IdleBookingCall
  <2>9. CASE Tick
    <3>1. bookingCall'[r] = [bookingCall[r] EXCEPT !.holdExpiresIn =
                                 Sooner(bookingCall[r].holdExpiresIn)]
      BY <2>9 DEF Tick
    <3>2. CASE bookingCall[r] \in BookingRequest
      BY <3>1, <3>2 DEF BookingRequest
    <3>3. CASE bookingCall[r] = IdleBookingCall
      BY <3>1, <3>3 DEF IdleBookingCall
    <3>4. QED
      BY <3>2, <3>3
  <2>10. QED
    BY <2>1, <2>2, <2>3, <2>4, <2>5, <2>6, <2>7, <2>8, <2>9
       DEF Next, bookingVars, BookingCallStarts, BookingCallGoesOn, CreateRejected,
           CreateAddHoldJob, ConfirmWrite, ConfirmSell, CancelWrite, OutcomeWrite,
           NotifyFirst, NotifySecond, BookingCallFails, ExpiryStep, ExpiryRead,
           ExpiryWrite, ExpiryFails
<1>3. ASSUME NEW r \in BookingReqs PROVE OnRow(bookingCall[r])'
  BY <1>1, <1>2 DEF CallsOnRows
<1>4. worker' # Null => booking'[worker'].status # "ABSENT"
  <2>1. CASE worker' = worker \/ worker' = Null
    BY <2>1, RowsStay DEF CallsOnRows, RowStays
  <2>2. ASSUME NEW b \in Bookings, ExpiryRead(b), worker' # worker
        PROVE  worker' = b /\ booking'[b].status # "ABSENT"
    BY <2>2, RowsStay DEF ExpiryRead, RowStays
  <2>3. ASSUME NEW r \in BookingReqs, BookingCallGoesOn(r) PROVE worker' = worker
    BY <2>3 DEF BookingCallGoesOn, CreateFindActive, CreateInsert, CreateRejected,
         CreateAddHoldJob, ConfirmWrite, ConfirmSell, CancelWrite, OutcomeWrite,
         NotifyFirst, NotifySecond
  <2>4. ASSUME NEW r \in BookingReqs, BookingCallStarts(r) \/ BookingCallFails(r)
        PROVE  worker' = worker
    BY <2>4 DEF BookingCallStarts, CreateRead, BookingRead, BookingCallFails
  <2>5. ASSUME NEW b \in Bookings, ExpiryWrite(b) \/ ExpiryFails(b) PROVE worker' = Null
    BY <2>5 DEF ExpiryWrite, ExpiryFails
  <2>6. QED
    BY <2>1, <2>2, <2>3, <2>4, <2>5 DEF Next, bookingVars, ExpiryStep, Crash, Tick
<1>5. QED
  BY <1>3, <1>4 DEF CallsOnRows

\* The invariant everything else rests on: types are kept, and nobody is at a
\* row that does not exist.
LEMMA RowsInvariant == Spec => [](TypeOK /\ CallsOnRows)
<1>1. Init => TypeOK /\ CallsOnRows
  <2>1. ASSUME Init PROVE ListingsTypeOK
    BY <2>1, MaxEditsAssumption DEF Init, ListingsInit, ListingsTypeOK, NoRow
  <2>2. ASSUME Init PROVE BookingsTypeOK
    BY <2>2, HoldAssumption DEF Init, BookingsInit, BookingsTypeOK, NoJob, HoldJob, Remaining
  <2>3. ASSUME Init PROVE CallsOnRows
    BY <2>3 DEF Init, BookingsInit, CallsOnRows, IdleBookingCall
  <2>4. QED
    BY <2>1, <2>2, <2>3 DEF TypeOK
<1>2. TypeOK /\ CallsOnRows /\ [Next]_vars => (TypeOK /\ CallsOnRows)'
  <2>1. ASSUME TypeOK, CallsOnRows, Next PROVE TypeOK' /\ CallsOnRows'
    BY <2>1, ListingsTypeNext, BookingsTypeStep, CallsOnRowsStep DEF TypeOK
  <2>2. ASSUME TypeOK, CallsOnRows, UNCHANGED vars PROVE TypeOK' /\ CallsOnRows'
    BY <2>2 DEF vars, listingVars, bookingVars, TypeOK, ListingsTypeOK, BookingsTypeOK,
                CallsOnRows
  <2>3. QED
    BY <2>1, <2>2
<1>3. QED
  BY <1>1, <1>2, PTL DEF Spec

\* Every variable of the booking system keeps its type.
THEOREM TypeCorrect == Spec => []TypeOK
BY RowsInvariant, PTL

-----------------------------------------------------------------------------
(* Outcomes are paid for and recorded                                      *)

\* A request that is about to write has just read its row, or goes on.
LEMMA PendingWrites ==
    ASSUME TypeOK, CallsOnRows, Next, NEW r \in BookingReqs, bookingCall'[r].pc = "write"
    PROVE  \/ \E b \in Bookings, aim \in DOMAIN OpOf :
                  BookingRead(r, b, aim) /\ bookingCall'[r].aim = aim
                                         /\ bookingCall'[r].booking = b
           \/ /\ bookingCall[r].pc = "write"
              /\ bookingCall'[r].aim = bookingCall[r].aim
              /\ bookingCall'[r].booking = bookingCall[r].booking
<1> USE DEF TypeOK, BookingsTypeOK
<1> DEFINE P == \/ \E b \in Bookings, aim \in DOMAIN OpOf :
                       BookingRead(r, b, aim) /\ bookingCall'[r].aim = aim
                                              /\ bookingCall'[r].booking = b
                \/ /\ bookingCall[r].pc = "write"
                   /\ bookingCall'[r].aim = bookingCall[r].aim
                   /\ bookingCall'[r].booking = bookingCall[r].booking
<1>1. CASE bookingCall'[r] = bookingCall[r]
  BY <1>1
<1>2. ASSUME NEW q \in BookingReqs, Done(q) PROVE P
  BY <1>2 DEF Done, IdleBookingCall
<1>3. ASSUME NEW q \in BookingReqs,
             NEW pc \in {"sell", "notifyFirst", "notifySecond"}, GoTo(q, pc)
      PROVE  P
  BY <1>3 DEF GoTo
<1>4. ASSUME NEW q \in BookingReqs, NEW l \in Listings, CreateRead(q, l) PROVE P
  BY <1>4 DEF CreateRead, IdleBookingCall
<1>5. ASSUME NEW q \in BookingReqs, NEW b \in Bookings, NEW aim \in DOMAIN OpOf,
             BookingRead(q, b, aim)
      PROVE  P
  BY <1>5 DEF BookingRead, IdleBookingCall
<1>6. ASSUME NEW q \in BookingReqs, CreateFindActive(q) PROVE P
  <2>1. CASE bookingCall' = [bookingCall EXCEPT ![q].pc = "insert",
                                                ![q].holdExpiresIn = HOLD_DURATION]
    <3>1. bookingCall[q] \in BookingRequest
      BY <1>6 DEF CreateFindActive, At, IdleBookingCall
    <3>2. QED
      BY <2>1, <3>1 DEF BookingRequest
  <2>2. QED
    BY <1>2, <1>6, <2>1 DEF CreateFindActive
<1>7. ASSUME NEW q \in BookingReqs, NEW b \in Bookings, CreateInsert(q, b) PROVE P
  <2>1. bookingCall[q] \in BookingRequest
    BY <1>7 DEF CreateInsert, At, IdleBookingCall
  <2>2. QED
    BY <1>7, <2>1 DEF CreateInsert, BookingRequest
<1>8. CASE Crash
  BY <1>8 DEF Crash, IdleBookingCall
<1>9. CASE Tick
  <2>1. bookingCall'[r] = [bookingCall[r] EXCEPT !.holdExpiresIn =
                               Sooner(bookingCall[r].holdExpiresIn)]
    BY <1>9 DEF Tick
  <2>2. CASE bookingCall[r] \in BookingRequest
    BY <2>1, <2>2 DEF BookingRequest
  <2>3. CASE bookingCall[r] = IdleBookingCall
    BY <2>1, <2>3 DEF IdleBookingCall
  <2>4. QED
    BY <2>2, <2>3
<1>10. QED
  BY <1>1, <1>2, <1>3, <1>4, <1>5, <1>6, <1>7, <1>8, <1>9
     DEF Next, bookingVars, BookingCallStarts, BookingCallGoesOn, CreateRejected,
         CreateAddHoldJob, ConfirmWrite, ConfirmSell, CancelWrite, OutcomeWrite,
         NotifyFirst, NotifySecond, BookingCallFails, ExpiryStep, ExpiryRead,
         ExpiryWrite, ExpiryFails

\* The strengthening: a confirmed booking has its date, and so has one whose
\* outcome a request is about to write, however stale the status it read.
Paid ==
    /\ \A b \in Bookings :
          /\ booking[b].status \in {"BOOKED"} \cup Outcome => booking[b].bookedAt
          /\ booking[b].status \in Outcome => trustEvents[b][booking[b].status] > 0
    /\ \A r \in BookingReqs :
          At(r, "write", Outcome) => booking[bookingCall[r].booking].bookedAt

LEMMA PaidStep ==
    ASSUME TypeOK, CallsOnRows, Paid, Next
    PROVE  Paid'
<1> USE DEF TypeOK, BookingsTypeOK
<1>1. ASSUME NEW b \in Bookings
      PROVE  /\ booking'[b].status \in {"BOOKED"} \cup Outcome => booking'[b].bookedAt
             /\ booking'[b].status \in Outcome => trustEvents'[b][booking'[b].status] > 0
  <2> DEFINE P == /\ booking'[b].status \in {"BOOKED"} \cup Outcome => booking'[b].bookedAt
                  /\ booking'[b].status \in Outcome =>
                         trustEvents'[b][booking'[b].status] > 0
  <2>1. CASE UNCHANGED <<booking, trustEvents>>
    BY <2>1 DEF Paid
  <2>2. ASSUME NEW r \in BookingReqs, NEW c \in Bookings, CreateInsert(r, c) PROVE P
    BY <2>2 DEF CreateInsert, Paid, Outcome
  <2>3. ASSUME NEW r \in BookingReqs, ConfirmWrite(r) PROVE P
    <3>1. bookingCall[r].pc \in AfterRead
      BY <2>3 DEF ConfirmWrite, At, AfterRead
    <3>2. CASE b = bookingCall[r].booking
      BY <2>3, <3>1, <3>2, CallAfterRead DEF ConfirmWrite, BookingRow, Outcome
    <3>3. CASE b # bookingCall[r].booking
      BY <2>3, <3>3 DEF ConfirmWrite, Paid
    <3>4. QED
      BY <3>2, <3>3
  <2>4. ASSUME NEW r \in BookingReqs, CancelWrite(r) PROVE P
    <3>1. bookingCall[r].pc \in AfterRead
      BY <2>4 DEF CancelWrite, At, AfterRead
    <3>2. CASE b = bookingCall[r].booking
      BY <2>4, <3>1, <3>2, CallAfterRead DEF CancelWrite, BookingRow, Outcome
    <3>3. CASE b # bookingCall[r].booking
      BY <2>4, <3>3 DEF CancelWrite, Paid
    <3>4. QED
      BY <3>2, <3>3
  <2>5. ASSUME NEW r \in BookingReqs, OutcomeWrite(r) PROVE P
    <3>1. bookingCall[r].pc \in AfterRead /\ bookingCall[r].aim \in Outcome
      BY <2>5 DEF OutcomeWrite, At, AfterRead
    <3>2. CASE b = bookingCall[r].booking
      <4>1. booking[b].bookedAt /\ booking[b].status # "ABSENT"
        BY <2>5, <3>1, <3>2, CallAfterRead
           DEF OutcomeWrite, Paid, BookingRow, BookingStatus, Active, Outcome
      <4>2. booking'[b].bookedAt
        BY <4>1, RowsStay DEF RowStays
      <4>3. booking'[b].status = bookingCall[r].aim
        BY <2>5, <3>1, <3>2, CallAfterRead DEF OutcomeWrite, BookingRow
      <4>4. trustEvents'[b][bookingCall[r].aim] > 0
        BY <2>5, <3>1, <3>2 DEF OutcomeWrite
      <4>5. QED
        BY <4>2, <4>3, <4>4
    <3>3. CASE b # bookingCall[r].booking
      BY <2>5, <3>3 DEF OutcomeWrite, Paid
    <3>4. QED
      BY <3>2, <3>3
  <2>6. ASSUME NEW c \in Bookings, ExpiryWrite(c) PROVE P
    <3>1. CASE b = c
      <4>1. booking[b] \in BookingRow
        BY <2>6, <3>1, BookingsAssumption DEF ExpiryWrite, CallsOnRows, NoBooking
      <4>2. QED
        BY <2>6, <3>1, <4>1 DEF ExpiryWrite, BookingRow, Outcome
    <3>2. CASE b # c
      BY <2>6, <3>2 DEF ExpiryWrite, Paid
    <3>3. QED
      BY <3>1, <3>2
  <2>7. CASE Tick
    <3>1. booking'[b] = [booking[b] EXCEPT !.holdExpiresIn = Sooner(booking[b].holdExpiresIn)]
      BY <2>7 DEF Tick
    <3>2. CASE booking[b] \in BookingRow
      BY <2>7, <3>1, <3>2 DEF Tick, Paid, BookingRow
    <3>3. CASE booking[b] = NoBooking
      BY <3>1, <3>3 DEF NoBooking, Outcome
    <3>4. QED
      BY <3>2, <3>3
  <2>8. QED
    BY <2>1, <2>2, <2>3, <2>4, <2>5, <2>6, <2>7
       DEF Next, bookingVars, BookingCallStarts, CreateRead, BookingRead, BookingCallGoesOn,
           CreateFindActive, CreateRejected, CreateAddHoldJob, ConfirmSell, NotifyFirst,
           NotifySecond, BookingCallFails, ExpiryStep, ExpiryRead, ExpiryFails, Crash
<1>2. ASSUME NEW r \in BookingReqs, At(r, "write", Outcome)'
      PROVE  booking'[bookingCall'[r].booking].bookedAt
  <2>1. bookingCall'[r].pc = "write"
    BY <1>2 DEF At
  <2>2. ASSUME NEW b \in Bookings, NEW aim \in DOMAIN OpOf, BookingRead(r, b, aim),
               bookingCall'[r].aim = aim, bookingCall'[r].booking = b
        PROVE  booking'[b].bookedAt
    <3>1. booking[b].status = "BOOKED"
      BY <1>2, <2>2 DEF At, BookingRead, Accepted, Outcome
    <3>2. QED
      BY <3>1, RowsStay DEF Paid, RowStays
  <2>3. CASE /\ bookingCall[r].pc = "write"
             /\ bookingCall'[r].aim = bookingCall[r].aim
             /\ bookingCall'[r].booking = bookingCall[r].booking
    <3>1. booking[bookingCall[r].booking].bookedAt
      BY <1>2, <2>3 DEF At, Paid
    <3>2. /\ bookingCall[r].booking \in Bookings
          /\ booking[bookingCall[r].booking].status # "ABSENT"
      BY <2>3, CallAfterRead DEF AfterRead, BookingRow, BookingStatus, Outcome
    <3>3. QED
      BY <2>3, <3>1, <3>2, RowsStay DEF RowStays
  <2>4. QED
    BY <2>1, <2>2, <2>3, PendingWrites
<1>3. QED
  BY <1>1, <1>2 DEF Paid

\* However requests, worker and crashes interleave, a booking that is COMPLETED
\* or DISPUTED was confirmed first and has its trust events.
THEOREM OutcomesPaid == Spec => []OutcomesArePaidAndRecorded
<1>1. Init => Paid
  BY DEF Init, BookingsInit, NoBooking, IdleBookingCall, Paid, At, Outcome
<1>2. TypeOK /\ CallsOnRows /\ Paid /\ [Next]_vars => Paid'
  <2>1. ASSUME Paid, UNCHANGED vars PROVE Paid'
    BY <2>1 DEF vars, bookingVars, Paid, At
  <2>2. QED
    BY <2>1, PaidStep
<1>3. Paid => OutcomesArePaidAndRecorded
  BY DEF Paid, OutcomesArePaidAndRecorded
<1>4. QED
  BY <1>1, <1>2, <1>3, RowsInvariant, PTL DEF Spec

-----------------------------------------------------------------------------
(* Only approved homes are shown and booked                                *)

\* What a step does at most to a home: an id is used once, a row that is there
\* keeps its photo, the audit log grows.
HomeStays(l) ==
    /\ listing[l] # "ABSENT" => listing'[l] # "ABSENT" /\ (HasRow(l)' => HasRow(l))
    /\ HasRow(l)' /\ photo[l] => photo'[l]
    /\ audit[l] \subseteq audit'[l]

LEMMA SetStatusKeepsRows ==
    ASSUME ListingsTypeOK, NEW l, NEW s \in ListingStatus, SetStatus(l, s)
    PROVE  \A h \in Listings : /\ HasRow(h)' <=> HasRow(h)
                               /\ listing[h] = "ABSENT" <=> listing'[h] = "ABSENT"
                               /\ listing'[h] \in {listing[h], s}
                               /\ listing'[h] # listing[h] => h = l
BY DEF ListingsTypeOK, SetStatus, HasRow, NoRow, ListingStatus

LEMMA HomesStayInListings ==
    ASSUME ListingsTypeOK, NEW ref, ListingsStep(ref), NEW h \in Listings
    PROVE  /\ HomeStays(h)
           /\ HasRow(h) /\ h \in ref => HasRow(h)'
<1> DEFINE P == HomeStays(h) /\ (HasRow(h) /\ h \in ref => HasRow(h)')
<1> USE DEF ListingsTypeOK
<1>1. PICK r \in ListingReqs :
          \/ \E l \in Listings : ListingCallStarts(r, l)
          \/ ListingCallGoesOn(r, ref)
          \/ ListingCallFails(r)
  BY DEF ListingsStep
<1>2. ASSUME UNCHANGED <<listing, photo, audit>> PROVE P
  BY <1>2 DEF HomeStays, HasRow
<1>3. ASSUME NEW l \in Listings, CreateListing(r, l) PROVE P
  BY <1>3 DEF CreateListing, HomeStays, HasRow, NoRow
<1>4. CASE AttachPhoto(r)
  BY <1>4 DEF AttachPhoto, HomeStays, HasRow
<1>5. ASSUME NEW l, NEW s \in ListingStatus, SetStatus(l, s), UNCHANGED photo,
             audit' = audit \/ \E a : audit' = [audit EXCEPT ![l] = @ \cup {a}]
      PROVE  P
  BY <1>5, SetStatusKeepsRows DEF HomeStays
<1>6. {"SUBMITTED", "VERIFIED", "REJECTED", "FLAGGED"} \subseteq ListingStatus
  BY DEF ListingStatus
<1>7. CASE SubmitWrite(r)
  BY <1>5, <1>6, <1>7 DEF SubmitWrite, SetStatusLogged
<1>8. CASE ReviewWrite(r)
  BY <1>5, <1>6, <1>8 DEF ReviewWrite, SetStatusLogged
<1>9. CASE FlagWrite(r)
  BY <1>5, <1>6, <1>9 DEF FlagWrite
<1>10. CASE DeleteWrite(r, ref)
  BY <1>10 DEF DeleteWrite, HomeStays, HasRow, NoRow
<1>11. QED
  BY <1>1, <1>2, <1>3, <1>4, <1>7, <1>8, <1>9, <1>10
     DEF ListingCallStarts, UploadPhoto, UpdateRead, SubmitRead, ReviewRead, FlagRead,
         DeleteRead, ListingCallGoesOn, HashPhoto, UpdateWrite, ListingCallFails

\* The statuses the booking endpoints and the worker write.
BookingWrites == {"INACTIVE", "SOLD", "VERIFIED", "ACTIVE"}

\* A step of Next is a step of the listing endpoints, or leaves everything of
\* the homes alone except, perhaps, one status.
LEMMA HomesInBookings ==
    ASSUME TypeOK, CallsOnRows, Next
    PROVE  \/ ListingsStep(Referenced) /\ UNCHANGED bookingVars
           \/ /\ UNCHANGED <<photo, content, audit, hashJobs>>
              /\ UNCHANGED listingCall \/ listingCall' = [r \in ListingReqs |-> IdleListingCall]
              /\ \/ UNCHANGED listing
                 \/ \E l \in Listings, s \in BookingWrites :
                        /\ SetStatus(l, s)
                        /\ s = "VERIFIED" => l \in Referenced
<1> DEFINE Quiet == UNCHANGED <<photo, content, audit, hashJobs, listingCall>>
           W == \E l \in Listings, s \in BookingWrites :
                    /\ SetStatus(l, s)
                    /\ s = "VERIFIED" => l \in Referenced
<1>1. CASE ListingsStep(Referenced) /\ UNCHANGED bookingVars
  BY <1>1
<1>2. CASE UNCHANGED listingVars
  BY <1>2 DEF listingVars
<1>3. ASSUME NEW r \in BookingReqs, NEW b \in Bookings, CreateInsert(r, b) PROVE Quiet /\ W
  <2>1. bookingCall[r] \in BookingRequest
    BY <1>3 DEF CreateInsert, At, IdleBookingCall, TypeOK, BookingsTypeOK
  <2>2. bookingCall[r].listing \in Listings
    BY <2>1 DEF BookingRequest
  <2>3. QED
    BY <1>3, <2>2 DEF CreateInsert, ListingRest, BookingWrites
<1>4. ASSUME NEW r \in BookingReqs, ConfirmSell(r) PROVE Quiet /\ W
  <2>1. bookingCall[r].listing \in Listings
    BY <1>4, CallAfterRead DEF ConfirmSell, At, AfterRead
  <2>2. QED
    BY <1>4, <2>1 DEF ConfirmSell, ListingRest, BookingWrites
<1>5. ASSUME NEW r \in BookingReqs, CancelWrite(r) PROVE Quiet /\ W
  <2>1. /\ bookingCall[r].listing \in Listings
        /\ bookingCall[r].booking \in Bookings
        /\ booking[bookingCall[r].booking] \in BookingRow
        /\ booking[bookingCall[r].booking].listing = bookingCall[r].listing
    BY <1>5, CallAfterRead DEF CancelWrite, At, AfterRead
  <2>2. booking[bookingCall[r].booking].status # "ABSENT"
    BY <2>1 DEF BookingRow, BookingStatus, Outcome
  <2>3. QED
    BY <1>5, <2>1, <2>2 DEF CancelWrite, ListingRest, BookingWrites, Referenced
<1>6. ASSUME NEW b \in Bookings, ExpiryWrite(b) PROVE Quiet /\ W
  <2>1. booking[b] \in BookingRow
    BY <1>6, BookingsAssumption
       DEF ExpiryWrite, CallsOnRows, NoBooking, TypeOK, BookingsTypeOK
  <2>2. booking[b].listing \in Listings
    BY <2>1 DEF BookingRow
  <2>3. QED
    BY <1>6, <2>2 DEF ExpiryWrite, ListingRest, BookingWrites
<1>7. CASE Crash
  BY <1>7 DEF Crash
<1>8. QED
  BY <1>1, <1>2, <1>3, <1>4, <1>5, <1>6, <1>7
     DEF Next, BookingCallStarts, CreateRead, BookingRead, BookingCallGoesOn,
         CreateFindActive, CreateRejected, CreateAddHoldJob, ConfirmWrite, OutcomeWrite,
         NotifyFirst, NotifySecond, BookingCallFails, ExpiryStep, ExpiryRead, ExpiryFails, Tick

LEMMA HomesStay ==
    ASSUME TypeOK, CallsOnRows, Next, NEW h \in Listings
    PROVE  /\ HomeStays(h)
           /\ HasRow(h) /\ h \in Referenced => HasRow(h)'
<1>1. ListingsTypeOK
  BY DEF TypeOK
<1>2. CASE ListingsStep(Referenced)
  BY <1>1, <1>2, HomesStayInListings
<1>3. CASE UNCHANGED <<listing, photo, audit>>
  BY <1>3 DEF HomeStays, HasRow
<1>4. ASSUME NEW l \in Listings, NEW s \in BookingWrites, SetStatus(l, s),
             UNCHANGED <<photo, audit>>
      PROVE  HomeStays(h) /\ (HasRow(h) => HasRow(h)')
  <2>1. s \in ListingStatus
    BY DEF BookingWrites, ListingStatus
  <2>2. /\ HasRow(h)' <=> HasRow(h)
        /\ listing[h] = "ABSENT" <=> listing'[h] = "ABSENT"
    BY <1>1, <1>4, <2>1, SetStatusKeepsRows
  <2>3. QED
    BY <1>4, <2>2 DEF HomeStays
<1>5. \/ ListingsStep(Referenced)
      \/ UNCHANGED <<listing, photo, audit>>
      \/ \E l \in Listings, s \in BookingWrites :
             SetStatus(l, s) /\ UNCHANGED <<photo, audit>>
  BY HomesInBookings
<1>6. QED
  BY <1>2, <1>3, <1>4, <1>5

\* How a home comes to be SUBMITTED or VERIFIED through the listing endpoints.
LEMMA StatusStep ==
    ASSUME ListingsTypeOK, NEW ref, ListingsStep(ref), NEW h \in Listings,
           listing'[h] # listing[h],
           listing'[h] \in {"VERIFIED", "SUBMITTED", "UNDER_REVIEW"}
    PROVE  \E r \in ListingReqs :
               /\ listingCall[r].listing = h
               /\ HasRow(h)
               /\ \/ listingCall[r].pc = "submit" /\ listing'[h] = "SUBMITTED"
                  \/ /\ listingCall[r].pc = "approve"
                     /\ listing'[h] = "VERIFIED"
                     /\ "LISTING_VERIFIED" \in audit'[h]
<1> USE DEF ListingsTypeOK
<1>1. PICK r \in ListingReqs :
          \/ \E l \in Listings : ListingCallStarts(r, l)
          \/ ListingCallGoesOn(r, ref)
          \/ ListingCallFails(r)
  BY DEF ListingsStep
<1>2. CASE SubmitWrite(r)
  BY <1>2 DEF SubmitWrite, Answer, SetStatusLogged, SetStatus
<1>3. CASE ReviewWrite(r)
  BY <1>3 DEF ReviewWrite, Answer, SetStatusLogged, SetStatus
<1>4. ~FlagWrite(r) /\ ~DeleteWrite(r, ref)
  BY DEF FlagWrite, SetStatus, DeleteWrite
<1>5. ASSUME NEW l \in Listings PROVE ~CreateListing(r, l)
  BY DEF CreateListing
<1>6. QED
  BY <1>1, <1>2, <1>3, <1>4, <1>5
     DEF ListingCallStarts, UploadPhoto, UpdateRead, SubmitRead, ReviewRead, FlagRead,
         DeleteRead, ListingCallGoesOn, AttachPhoto, HashPhoto, UpdateWrite,
         ListingCallFails

\* How a request comes to submit or decide.
LEMMA PendingDecisions ==
    ASSUME ListingsTypeOK, NEW ref, ListingsStep(ref), NEW r \in ListingReqs,
           listingCall'[r].pc \in Deciding
    PROVE  \/ listingCall'[r] = listingCall[r]
           \/ \E l \in Listings :
                 /\ listingCall'[r].listing = l
                 /\ \/ listing[l] \in {"DRAFT", "REJECTED"} /\ photo[l]
                    \/ listing[l] \in {"SUBMITTED", "UNDER_REVIEW"}
                 /\ UNCHANGED <<listing, photo>>
<1> DEFINE P == \/ listingCall'[r] = listingCall[r]
                \/ \E l \in Listings :
                      /\ listingCall'[r].listing = l
                      /\ \/ listing[l] \in {"DRAFT", "REJECTED"} /\ photo[l]
                         \/ listing[l] \in {"SUBMITTED", "UNDER_REVIEW"}
                      /\ UNCHANGED <<listing, photo>>
<1> USE DEF ListingsTypeOK, Deciding
<1>1. PICK q \in ListingReqs :
          \/ \E l \in Listings : ListingCallStarts(q, l)
          \/ ListingCallGoesOn(q, ref)
          \/ ListingCallFails(q)
  BY DEF ListingsStep
<1>2. CASE UNCHANGED listingCall \/ listingCall' = [listingCall EXCEPT ![q] = IdleListingCall]
  BY <1>2 DEF IdleListingCall
<1>3. ASSUME NEW l \in Listings, NEW op, NEW pc \in ListingPc \ Deciding,
             Proceed(q, op, l, pc)
      PROVE  P
  BY <1>3 DEF Proceed
<1>4. ASSUME NEW l \in Listings,
             SubmitRead(q, l) \/ ReviewRead(q, l, "approve") \/ ReviewRead(q, l, "reject")
      PROVE  P
  BY <1>4 DEF SubmitRead, ReviewRead, Proceed
<1>5. CASE AttachPhoto(q)
  <2>1. listingCall[q] \in ListingRequest
    BY <1>5 DEF AttachPhoto, IdleListingCall
  <2>2. QED
    BY <1>5, <2>1 DEF AttachPhoto, IdleListingCall, ListingRequest
<1>6. {"attachPhoto", "update", "flag", "delete"} \subseteq ListingPc \ Deciding
  BY DEF ListingPc
<1>7. ASSUME NEW l \in Listings, ListingCallStarts(q, l) PROVE P
  BY <1>2, <1>3, <1>4, <1>6, <1>7
     DEF ListingCallStarts, CreateListing, UploadPhoto, UpdateRead, FlagRead, DeleteRead
<1>8. ASSUME ListingCallGoesOn(q, ref) \/ ListingCallFails(q) PROVE P
  BY <1>2, <1>5, <1>8
     DEF ListingCallGoesOn, HashPhoto, UpdateWrite, SubmitWrite, ReviewWrite, FlagWrite,
         DeleteWrite, ListingCallFails, Answer
<1>9. QED
  BY <1>1, <1>7, <1>8

\* A home an administrator could have approved, and did.
Vouched(h) == photo[h] /\ "LISTING_VERIFIED" \in audit[h]

\* A home that will still be vouched for when a stale decision about it is
\* carried out, unless its row is gone by then.
VouchedIfThere(h) == listing[h] # "ABSENT" /\ (HasRow(h) => Vouched(h))
PhotoIfThere(h) == listing[h] # "ABSENT" /\ (HasRow(h) => photo[h])

MarketHomes ==
    \A h \in Listings :
        /\ listing[h] = "VERIFIED" => Vouched(h)
        /\ listing[h] \in {"SUBMITTED", "UNDER_REVIEW"} => photo[h]

Decisions ==
    \A r \in ListingReqs :
        listingCall[r].pc \in Deciding => PhotoIfThere(listingCall[r].listing)

BookedHomes ==
    \A b \in Bookings : booking[b].status # "ABSENT" =>
        HasRow(booking[b].listing) /\ Vouched(booking[b].listing)

\* The awaits of createBooking between its read and its transaction.
Creating == {"findActive", "insert"}

Creations ==
    \A r \in BookingReqs :
        bookingCall[r].pc \in Creating => VouchedIfThere(bookingCall[r].listing)

\* The strengthening: whoever is about to write a status, or to book, stands at
\* a home that was vouched for when it was read, and nobody can undo that.
HomesInv == MarketHomes /\ Decisions /\ BookedHomes /\ Creations

LEMMA IfThereStays ==
    ASSUME NEW h \in Listings, HomeStays(h)
    PROVE  /\ VouchedIfThere(h) => VouchedIfThere(h)'
           /\ PhotoIfThere(h) => PhotoIfThere(h)'
           /\ HasRow(h)' /\ HasRow(h) /\ Vouched(h) => Vouched(h)'
BY DEF HomeStays, VouchedIfThere, PhotoIfThere, Vouched

LEMMA MarketHomesStep ==
    ASSUME TypeOK, CallsOnRows, HomesInv, Next
    PROVE  MarketHomes'
<1> SUFFICES ASSUME NEW h \in Listings,
                    listing'[h] \in {"VERIFIED", "SUBMITTED", "UNDER_REVIEW"}
             PROVE  photo'[h] /\ (listing'[h] = "VERIFIED" => Vouched(h)')
  BY DEF MarketHomes, Vouched
<1>1. HomeStays(h) /\ HasRow(h)'
  BY HomesStay DEF HasRow, NoRow
<1>2. CASE listing'[h] = listing[h]
  <2>1. HasRow(h) /\ photo[h]
    BY <1>1, <1>2 DEF HasRow, HomesInv, MarketHomes, Vouched
  <2>2. QED
    BY <1>1, <1>2, <2>1, IfThereStays DEF HomesInv, MarketHomes, HomeStays
<1>3. CASE listing'[h] # listing[h] /\ ListingsStep(Referenced)
  <2>1. PICK r \in ListingReqs :
            /\ listingCall[r].listing = h
            /\ HasRow(h)
            /\ \/ listingCall[r].pc = "submit" /\ listing'[h] = "SUBMITTED"
               \/ /\ listingCall[r].pc = "approve"
                  /\ listing'[h] = "VERIFIED"
                  /\ "LISTING_VERIFIED" \in audit'[h]
    BY <1>3, StatusStep DEF TypeOK
  <2>2. photo[h]
    BY <2>1 DEF HomesInv, Decisions, Deciding, PhotoIfThere
  <2>3. QED
    BY <1>1, <2>1, <2>2 DEF HomeStays, Vouched
<1>4. ASSUME NEW l \in Listings, NEW s \in BookingWrites, SetStatus(l, s),
             s = "VERIFIED" => l \in Referenced,
             listing'[h] # listing[h]
      PROVE  photo'[h] /\ Vouched(h)'
  <2>1. s \in ListingStatus
    BY DEF BookingWrites, ListingStatus
  <2>2. h = l /\ listing'[h] = s /\ HasRow(h)
    BY <1>1, <1>4, <2>1, SetStatusKeepsRows DEF TypeOK
  <2>3. s = "VERIFIED"
    BY <2>2 DEF BookingWrites
  <2>4. Vouched(h)
    BY <1>4, <2>2, <2>3 DEF Referenced, HomesInv, BookedHomes
  <2>5. QED
    BY <1>1, <2>2, <2>4, IfThereStays DEF Vouched
<1>5. QED
  BY <1>2, <1>3, <1>4, HomesInBookings

LEMMA DecisionsStep ==
    ASSUME TypeOK, CallsOnRows, HomesInv, Next
    PROVE  Decisions'
<1> SUFFICES ASSUME NEW r \in ListingReqs, listingCall'[r].pc \in Deciding
             PROVE  PhotoIfThere(listingCall[r].listing)'
  BY DEF Decisions
<1>1. ASSUME NEW l \in Listings, PhotoIfThere(l)', listingCall'[r].listing = l
      PROVE  PhotoIfThere(listingCall[r].listing)'
  BY <1>1 DEF PhotoIfThere, HasRow
<1>2. CASE listingCall'[r] = listingCall[r]
  <2>1. PICK l \in Listings : l = listingCall[r].listing
    BY <1>2 DEF TypeOK, ListingsTypeOK, ListingRequest, IdleListingCall, Deciding
  <2>2. PhotoIfThere(l)
    BY <1>2, <2>1 DEF HomesInv, Decisions
  <2>3. QED
    BY <1>1, <1>2, <2>1, <2>2, HomesStay, IfThereStays
<1>3. CASE listingCall' = [q \in ListingReqs |-> IdleListingCall]
  BY <1>3 DEF IdleListingCall, Deciding
<1>4. ASSUME NEW l \in Listings, listingCall'[r].listing = l,
             \/ listing[l] \in {"DRAFT", "REJECTED"} /\ photo[l]
             \/ listing[l] \in {"SUBMITTED", "UNDER_REVIEW"}
      PROVE  PhotoIfThere(listingCall[r].listing)'
  <2>1. PhotoIfThere(l)
    BY <1>4 DEF PhotoIfThere, HomesInv, MarketHomes
  <2>2. QED
    BY <1>1, <1>4, <2>1, HomesStay, IfThereStays
<1>5. CASE ListingsStep(Referenced)
  <2>1. ListingsTypeOK
    BY DEF TypeOK
  <2>2. QED
    BY <1>2, <1>4, <1>5, <2>1, PendingDecisions
<1>6. QED
  BY <1>2, <1>3, <1>5, HomesInBookings

\* A row comes into being through createBooking alone.
LEMMA NewRow ==
    ASSUME TypeOK, CallsOnRows, Next, NEW b \in Bookings,
           booking[b].status = "ABSENT", booking'[b].status # "ABSENT"
    PROVE  \E r \in BookingReqs : CreateInsert(r, b)
<1> USE DEF TypeOK, BookingsTypeOK
<1>1. ASSUME NEW r \in BookingReqs, NEW c \in Bookings, CreateInsert(r, c), c # b
      PROVE  FALSE
  BY <1>1 DEF CreateInsert
<1>2. ASSUME NEW r \in BookingReqs, ConfirmWrite(r) \/ CancelWrite(r) \/ OutcomeWrite(r)
      PROVE  FALSE
  <2>1. bookingCall[r].pc \in AfterRead
    BY <1>2 DEF ConfirmWrite, CancelWrite, OutcomeWrite, At, AfterRead
  <2>2. bookingCall[r].booking # b
    BY <2>1, CallAfterRead DEF BookingRow, BookingStatus, Outcome
  <2>3. QED
    BY <1>2, <2>2 DEF ConfirmWrite, CancelWrite, OutcomeWrite
<1>3. ASSUME NEW c \in Bookings, ExpiryWrite(c) PROVE FALSE
  <2>1. c # b
    BY <1>3, BookingsAssumption DEF ExpiryWrite, CallsOnRows
  <2>2. QED
    BY <1>3, <2>1 DEF ExpiryWrite
<1>4. CASE Tick
  <2>1. booking'[b] = [booking[b] EXCEPT !.holdExpiresIn = Sooner(booking[b].holdExpiresIn)]
    BY <1>4 DEF Tick
  <2>2. booking[b] = NoBooking
    BY DEF BookingRow, BookingStatus, Outcome
  <2>3. QED
    BY <2>1, <2>2 DEF NoBooking
<1>5. QED
  BY <1>1, <1>2, <1>3, <1>4
     DEF Next, bookingVars, BookingCallStarts, CreateRead, BookingRead, BookingCallGoesOn,
         CreateFindActive, CreateRejected, CreateAddHoldJob, ConfirmSell, NotifyFirst,
         NotifySecond, BookingCallFails, ExpiryStep, ExpiryRead, ExpiryFails, Crash

LEMMA BookedHomesStep ==
    ASSUME TypeOK, CallsOnRows, HomesInv, Next
    PROVE  BookedHomes'
<1> SUFFICES ASSUME NEW b \in Bookings, booking'[b].status # "ABSENT"
             PROVE  (HasRow(booking[b].listing) /\ Vouched(booking[b].listing))'
  BY DEF BookedHomes
<1>1. \E l \in Listings : /\ booking'[b].listing = l
                          /\ HasRow(l) /\ Vouched(l)
                          /\ HasRow(l)'
  <2>1. CASE booking[b].status # "ABSENT"
    <3>1. booking'[b].listing = booking[b].listing
      BY <2>1, RowsStay DEF RowStays
    <3>2. booking[b].listing \in Listings /\ booking[b].listing \in Referenced
      BY <2>1 DEF TypeOK, BookingsTypeOK, BookingRow, NoBooking, Referenced
    <3>3. HasRow(booking[b].listing) /\ Vouched(booking[b].listing)
      BY <2>1 DEF HomesInv, BookedHomes
    <3>4. PICK l \in Listings : l = booking[b].listing
      BY <3>2
    <3>5. HasRow(l)'
      BY <3>2, <3>3, <3>4, HomesStay
    <3>6. QED
      BY <3>1, <3>3, <3>4, <3>5
  <2>2. CASE booking[b].status = "ABSENT"
    <3>1. PICK r \in BookingReqs : CreateInsert(r, b)
      BY <2>2, NewRow
    <3>2. PICK l \in Listings : l = bookingCall[r].listing
      BY <3>1 DEF CreateInsert, At, TypeOK, BookingsTypeOK, BookingRequest, IdleBookingCall
    <3>3. HasRow(l) /\ Vouched(l)
      BY <3>1, <3>2 DEF CreateInsert, At, HomesInv, Creations, Creating, VouchedIfThere
    <3>4. "INACTIVE" \in ListingStatus /\ ListingsTypeOK
      BY DEF ListingStatus, TypeOK
    <3>5. SetStatus(l, "INACTIVE")
      BY <3>1, <3>2 DEF CreateInsert
    <3>6. HasRow(l)'
      BY <3>3, <3>4, <3>5, SetStatusKeepsRows
    <3>7. booking'[b].listing = l
      BY <3>1, <3>2 DEF CreateInsert, TypeOK, BookingsTypeOK
    <3>8. QED
      BY <3>3, <3>6, <3>7
  <2>3. QED
    BY <2>1, <2>2
<1>2. PICK l \in Listings : /\ booking'[b].listing = l
                           /\ HasRow(l) /\ Vouched(l)
                           /\ HasRow(l)'
  BY <1>1
<1>3. Vouched(l)'
  BY <1>2, HomesStay, IfThereStays
<1>4. QED
  BY <1>2, <1>3 DEF HasRow, Vouched

\* A request that is creating a booking has just read the home, or goes on.
LEMMA PendingCreations ==
    ASSUME TypeOK, Next, NEW r \in BookingReqs, bookingCall'[r].pc \in Creating
    PROVE  \/ \E l \in Listings : CreateRead(r, l) /\ bookingCall'[r].listing = l
           \/ /\ bookingCall[r].pc \in Creating
              /\ bookingCall'[r].listing = bookingCall[r].listing
<1> USE DEF TypeOK, BookingsTypeOK, Creating
<1> DEFINE P == \/ \E l \in Listings : CreateRead(r, l) /\ bookingCall'[r].listing = l
                \/ /\ bookingCall[r].pc \in Creating
                   /\ bookingCall'[r].listing = bookingCall[r].listing
<1>1. CASE bookingCall'[r] = bookingCall[r]
  BY <1>1
<1>2. ASSUME NEW q \in BookingReqs, Done(q) PROVE P
  BY <1>2 DEF Done, IdleBookingCall
<1>3. ASSUME NEW q \in BookingReqs,
             NEW pc \in {"sell", "notifyFirst", "notifySecond"}, GoTo(q, pc)
      PROVE  P
  BY <1>3 DEF GoTo
<1>4. ASSUME NEW q \in BookingReqs, NEW l \in Listings, CreateRead(q, l) PROVE P
  BY <1>4 DEF CreateRead, IdleBookingCall
<1>5. ASSUME NEW q \in BookingReqs, NEW b \in Bookings, NEW aim \in DOMAIN OpOf,
             BookingRead(q, b, aim)
      PROVE  P
  BY <1>5 DEF BookingRead, IdleBookingCall
<1>6. ASSUME NEW q \in BookingReqs, CreateFindActive(q) PROVE P
  <2>1. CASE bookingCall' = [bookingCall EXCEPT ![q].pc = "insert",
                                                ![q].holdExpiresIn = HOLD_DURATION]
    <3>1. bookingCall[q] \in BookingRequest /\ bookingCall[q].pc = "findActive"
      BY <1>6 DEF CreateFindActive, At, IdleBookingCall
    <3>2. QED
      BY <2>1, <3>1 DEF BookingRequest
  <2>2. QED
    BY <1>2, <1>6, <2>1 DEF CreateFindActive
<1>7. ASSUME NEW q \in BookingReqs, NEW b \in Bookings, CreateInsert(q, b) PROVE P
  <2>1. bookingCall[q] \in BookingRequest
    BY <1>7 DEF CreateInsert, At, IdleBookingCall
  <2>2. QED
    BY <1>7, <2>1 DEF CreateInsert, BookingRequest
<1>8. CASE Crash
  BY <1>8 DEF Crash, IdleBookingCall
<1>9. CASE Tick
  <2>1. bookingCall'[r] = [bookingCall[r] EXCEPT !.holdExpiresIn =
                               Sooner(bookingCall[r].holdExpiresIn)]
    BY <1>9 DEF Tick
  <2>2. CASE bookingCall[r] \in BookingRequest
    BY <2>1, <2>2 DEF BookingRequest
  <2>3. CASE bookingCall[r] = IdleBookingCall
    BY <2>1, <2>3 DEF IdleBookingCall
  <2>4. QED
    BY <2>2, <2>3
<1>10. QED
  BY <1>1, <1>2, <1>3, <1>4, <1>5, <1>6, <1>7, <1>8, <1>9
     DEF Next, bookingVars, BookingCallStarts, BookingCallGoesOn, CreateRejected,
         CreateAddHoldJob, ConfirmWrite, ConfirmSell, CancelWrite, OutcomeWrite,
         NotifyFirst, NotifySecond, BookingCallFails, ExpiryStep, ExpiryRead,
         ExpiryWrite, ExpiryFails

LEMMA CreationsStep ==
    ASSUME TypeOK, CallsOnRows, HomesInv, Next
    PROVE  Creations'
<1> SUFFICES ASSUME NEW r \in BookingReqs, bookingCall'[r].pc \in Creating
             PROVE  VouchedIfThere(bookingCall[r].listing)'
  BY DEF Creations
<1>1. ASSUME NEW l \in Listings, VouchedIfThere(l), bookingCall'[r].listing = l
      PROVE  VouchedIfThere(bookingCall[r].listing)'
  <2>1. VouchedIfThere(l)'
    BY <1>1, HomesStay, IfThereStays
  <2>2. QED
    BY <1>1, <2>1 DEF VouchedIfThere, HasRow, Vouched
<1>2. ASSUME NEW l \in Listings, CreateRead(r, l), bookingCall'[r].listing = l
      PROVE  VouchedIfThere(bookingCall[r].listing)'
  <2>1. VouchedIfThere(l)
    BY <1>2 DEF CreateRead, HomesInv, MarketHomes, VouchedIfThere
  <2>2. QED
    BY <1>1, <1>2, <2>1
<1>3. CASE /\ bookingCall[r].pc \in Creating
           /\ bookingCall'[r].listing = bookingCall[r].listing
  <2>1. PICK l \in Listings : l = bookingCall[r].listing
    BY <1>3 DEF TypeOK, BookingsTypeOK, BookingRequest, IdleBookingCall, Creating
  <2>2. VouchedIfThere(l)
    BY <1>3, <2>1 DEF HomesInv, Creations
  <2>3. QED
    BY <1>1, <1>3, <2>1, <2>2
<1>4. QED
  BY <1>2, <1>3, PendingCreations

LEMMA HomesInvariant == Spec => []HomesInv
<1>1. Init => HomesInv
  BY DEF Init, ListingsInit, BookingsInit, IdleListingCall, IdleBookingCall, NoBooking,
         HomesInv, MarketHomes, Decisions, Deciding, BookedHomes, Creations, Creating
<1>2. TypeOK /\ CallsOnRows /\ HomesInv /\ [Next]_vars => HomesInv'
  <2>1. ASSUME TypeOK, CallsOnRows, HomesInv, Next PROVE HomesInv'
    BY <2>1, MarketHomesStep, DecisionsStep, BookedHomesStep, CreationsStep DEF HomesInv
  <2>2. ASSUME HomesInv, UNCHANGED vars PROVE HomesInv'
    BY <2>2 DEF vars, listingVars, bookingVars, HomesInv, MarketHomes, Decisions,
                BookedHomes, Creations, HasRow, Vouched, PhotoIfThere, VouchedIfThere
  <2>3. QED
    BY <2>1, <2>2
<1>3. QED
  BY <1>1, <1>2, RowsInvariant, PTL DEF Spec

\* A home that students can find was approved by an administrator and has a
\* photo, whoever wrote its status: reviewListing on a row it read earlier, or
\* cancelBooking, which asks for no review.
THEOREM MarketApproved == Spec => []MarketHomesWereApproved
<1>1. HomesInv => MarketHomesWereApproved
  BY DEF HomesInv, MarketHomes, Vouched, MarketHomesWereApproved
<1>2. QED
  BY <1>1, HomesInvariant, PTL

\* The home of every booking was approved and is still in the database.
THEOREM BookedApproved == Spec => []BookedHomesWereApproved
<1>1. HomesInv => BookedHomesWereApproved
  BY DEF HomesInv, BookedHomes, Vouched, BookedHomesWereApproved
<1>2. QED
  BY <1>1, HomesInvariant, PTL
=============================================================================
