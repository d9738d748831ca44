---------------------------- MODULE SerialProofs ----------------------------
(***************************************************************************)
(* Proofs about Bookings while requests about one home do not overlap, for *)
(* any number of homes, bookings, requests about different homes and any   *)
(* hold time, whatever the worker, crashes and failing awaits do: one      *)
(* outcome, one holder, and that Bookings implements RoomLock.             *)
(***************************************************************************)
EXTENDS HoldsProofs, BookingsRefinement

\* A step of SerialSpec is one of Spec, and no two requests meet at a home.
LEMMA SerialSteps == SerialSpec => Spec /\ []OneAtATimePerHome
<1>1. Init => OneAtATimePerHome
  BY DEF Init, ListingsInit, BookingsInit, OneAtATimePerHome, OneBookingPerHome,
         OneReviewPerHome, Idle, IdleListingCall, IdleBookingCall, Deciding
<1>2. OneAtATimePerHome /\ [Next /\ OneAtATimePerHome']_vars => OneAtATimePerHome'
  BY DEF vars, listingVars, bookingVars, OneAtATimePerHome, OneBookingPerHome,
         OneReviewPerHome, Idle
<1>3. [Next /\ OneAtATimePerHome']_vars => [Next]_vars
  OBVIOUS
<1>4. QED
  BY <1>1, <1>2, <1>3, PTL DEF SerialSpec, Spec

\* Two requests that are about to write a row of one home are the same.
LEMMA WritersOfOneHome ==
    ASSUME TypeOK, CallsOnRows, OneBookingPerHome,
           NEW q \in BookingReqs, NEW r \in BookingReqs,
           bookingCall[q].pc \in AfterRead, bookingCall[r].pc \in AfterRead,
           booking[bookingCall[q].booking].listing = booking[bookingCall[r].booking].listing
    PROVE  q = r
<1>1. /\ booking[bookingCall[q].booking].listing = bookingCall[q].listing
      /\ booking[bookingCall[r].booking].listing = bookingCall[r].listing
  BY CallAfterRead
<1>2. bookingCall[q].pc # "idle" /\ bookingCall[r].pc # "idle"
  BY DEF AfterRead
<1>3. QED
  BY <1>1, <1>2 DEF OneBookingPerHome, Idle

-----------------------------------------------------------------------------
(* One outcome                                                             *)

Outcomes(b) == trustEvents[b]["COMPLETED"] + trustEvents[b]["DISPUTED"]

Final == Outcome \cup {"CANCELLED"}

\* The strengthening: a booking that has an outcome stays at an end, and nobody
\* is about to confirm it or to give it another.
OutcomeInv ==
    /\ \A b \in Bookings :
          /\ trustEvents[b]["COMPLETED"] = 0 \/ trustEvents[b]["DISPUTED"] = 0
          /\ trustEvents[b]["COMPLETED"] <= 1 /\ trustEvents[b]["DISPUTED"] <= 1
          /\ Outcomes(b) # 0 => booking[b].status \in Final
    /\ \A r \in BookingReqs :
          At(r, "write", {"BOOKED"} \cup Outcome) => Outcomes(bookingCall[r].booking) = 0

\* Who records an outcome.
LEMMA EventStep ==
    ASSUME TypeOK, CallsOnRows, Next, NEW b \in Bookings
    PROVE  \/ trustEvents'[b] = trustEvents[b]
           \/ \E r \in BookingReqs :
                 /\ OutcomeWrite(r)
                 /\ bookingCall[r].booking = b
                 /\ bookingCall[r].aim \in Outcome
                 /\ trustEvents'[b] = [trustEvents[b] EXCEPT ![bookingCall[r].aim] = @ + 1]
<1> USE DEF TypeOK, BookingsTypeOK
<1>1. CASE UNCHANGED trustEvents
  BY <1>1
<1>2. ASSUME NEW r \in BookingReqs, OutcomeWrite(r)
      PROVE  \/ trustEvents'[b] = trustEvents[b]
             \/ /\ bookingCall[r].booking = b
                /\ bookingCall[r].aim \in Outcome
                /\ trustEvents'[b] = [trustEvents[b] EXCEPT ![bookingCall[r].aim] = @ + 1]
  BY <1>2 DEF OutcomeWrite, At
<1>3. QED
  BY <1>1, <1>2
     DEF Next, bookingVars, BookingCallStarts, CreateRead, BookingRead, BookingCallGoesOn,
         CreateFindActive, CreateInsert, CreateRejected, CreateAddHoldJob, ConfirmWrite,
         ConfirmSell, CancelWrite, NotifyFirst, NotifySecond, BookingCallFails, ExpiryStep,
         ExpiryRead, ExpiryWrite, ExpiryFails, Crash, Tick

LEMMA OutcomeInvStep ==
    ASSUME TypeOK, CallsOnRows, OneBookingPerHome, OutcomeInv, Next
    PROVE  OutcomeInv'
<1> USE DEF TypeOK, BookingsTypeOK
<1>1. ASSUME NEW b \in Bookings
      PROVE  /\ trustEvents'[b]["COMPLETED"] = 0 \/ trustEvents'[b]["DISPUTED"] = 0
             /\ trustEvents'[b]["COMPLETED"] <= 1 /\ trustEvents'[b]["DISPUTED"] <= 1
             /\ Outcomes(b)' # 0 => booking'[b].status \in Final
  <2> DEFINE P == /\ trustEvents'[b]["COMPLETED"] = 0 \/ trustEvents'[b]["DISPUTED"] = 0
                  /\ trustEvents'[b]["COMPLETED"] <= 1 /\ trustEvents'[b]["DISPUTED"] <= 1
                  /\ Outcomes(b)' # 0 => booking'[b].status \in Final
  <2>1. CASE trustEvents'[b] = trustEvents[b]
    <3>1. SUFFICES ASSUME Outcomes(b) # 0
                   PROVE  booking'[b].status \in Final
      BY <2>1 DEF OutcomeInv, Outcomes
    <3>2. booking[b].status \in Final
      BY <3>1 DEF OutcomeInv
    <3>3. ASSUME NEW r \in BookingReqs PROVE ~CreateInsert(r, b)
      BY <3>2 DEF CreateInsert, Final, Outcome
    <3>4. ASSUME NEW r \in BookingReqs, Writes(r, b) PROVE booking'[b].status \in Final
      <4>1. ~ConfirmWrite(r)
        BY <3>1, <3>4 DEF Writes, ConfirmWrite, At, OutcomeInv
      <4>2. QED
        BY <3>4, <4>1 DEF Writes, Final
    <3>5. QED
      BY <3>2, <3>3, <3>4, RowStep DEF Expires, Ages, Final
  <2>2. ASSUME NEW r \in BookingReqs, OutcomeWrite(r), bookingCall[r].booking = b,
               bookingCall[r].aim \in Outcome,
               trustEvents'[b] = [trustEvents[b] EXCEPT ![bookingCall[r].aim] = @ + 1]
        PROVE  P
    <3>1. Outcomes(b) = 0
      BY <2>2 DEF OutcomeWrite, At, OutcomeInv
    <3>2. trustEvents[b]["COMPLETED"] \in Nat /\ trustEvents[b]["DISPUTED"] \in Nat
      BY DEF Outcome
    <3>3. trustEvents[b]["COMPLETED"] = 0 /\ trustEvents[b]["DISPUTED"] = 0
      BY <3>1, <3>2 DEF Outcomes
    <3>4. booking'[b].status \in Final
      <4>1. bookingCall[r].pc \in AfterRead
        BY <2>2 DEF OutcomeWrite, At, AfterRead
      <4>2. booking[b] \in BookingRow
        BY <2>2, <4>1, CallAfterRead
      <4>3. QED
        BY <2>2, <4>2 DEF OutcomeWrite, BookingRow, Final
    <3>5. QED
      BY <2>2, <3>3, <3>4 DEF Outcome
  <2>3. QED
    BY <2>1, <2>2, EventStep
<1>2. ASSUME NEW r \in BookingReqs, At(r, "write", {"BOOKED"} \cup Outcome)'
      PROVE  (Outcomes(bookingCall[r].booking) = 0)'
  <2>0. bookingCall'[r].pc = "write" /\ bookingCall'[r].aim \in {"BOOKED"} \cup Outcome
    BY <1>2 DEF At
  <2>1. ASSUME NEW b \in Bookings, bookingCall'[r].booking = b, Outcomes(b) = 0,
               trustEvents'[b] = trustEvents[b]
        PROVE  (Outcomes(bookingCall[r].booking) = 0)'
    BY <2>1 DEF Outcomes
  <2>2. ASSUME NEW b \in Bookings, NEW aim \in DOMAIN OpOf, BookingRead(r, b, aim),
               bookingCall'[r].aim = aim, bookingCall'[r].booking = b
        PROVE  (Outcomes(bookingCall[r].booking) = 0)'
    <3>1. booking[b].status \notin Final
      BY <2>0, <2>2 DEF BookingRead, Accepted, CanTransition, TRANSITIONS, TargetOf, Final,
                        Outcome, Active, BookingStatus
    <3>2. Outcomes(b) = 0
      BY <3>1 DEF OutcomeInv
    <3>3. trustEvents' = trustEvents
      BY <2>2 DEF BookingRead
    <3>4. QED
      BY <2>1, <2>2, <3>2, <3>3
  <2>3. CASE /\ bookingCall[r].pc = "write"
             /\ bookingCall'[r].aim = bookingCall[r].aim
             /\ bookingCall'[r].booking = bookingCall[r].booking
    <3>1. PICK b \in Bookings : b = bookingCall[r].booking
      BY <2>3, CallAfterRead DEF AfterRead
    <3>2. Outcomes(b) = 0
      BY <2>0, <2>3, <3>1 DEF At, OutcomeInv
    <3>3. ASSUME NEW q \in BookingReqs, OutcomeWrite(q), bookingCall[q].booking = b
          PROVE  FALSE
      <4>1. q = r
        <5>1. bookingCall[q].pc \in AfterRead /\ bookingCall[r].pc \in AfterRead
          BY <2>3, <3>3 DEF OutcomeWrite, At, AfterRead
        <5>2. QED
          BY <3>1, <3>3, <5>1, WritersOfOneHome
      <4>2. bookingCall[r].pc \in AfterRead
        BY <2>3 DEF AfterRead
      <4>3. bookingCall'[r].pc = "notifyFirst"
        BY <3>3, <4>1, <4>2, CallAfterRead DEF OutcomeWrite, GoTo
      <4>4. QED
        BY <2>0, <4>3
    <3>4. trustEvents'[b] = trustEvents[b]
      BY <3>3, EventStep
    <3>5. QED
      BY <2>1, <2>3, <3>1, <3>2, <3>4
  <2>4. QED
    BY <2>0, <2>2, <2>3, PendingWrites
<1>3. QED
  BY <1>1, <1>2 DEF OutcomeInv

\* While booking requests about one home run one at a time no booking is both
\* completed and disputed, or either of them twice, whatever the worker, crashes
\* and the requests about other homes do.
THEOREM OneOutcomeEach == Spec /\ []OneBookingPerHome => []OneOutcome
<1>1. Init => OutcomeInv
  BY DEF Init, BookingsInit, IdleBookingCall, OutcomeInv, Outcomes, At, Outcome
<1>2. TypeOK /\ CallsOnRows /\ OneBookingPerHome /\ OutcomeInv /\ [Next]_vars => OutcomeInv'
  <2>1. ASSUME OutcomeInv, UNCHANGED vars PROVE OutcomeInv'
    BY <2>1 DEF vars, bookingVars, OutcomeInv, Outcomes, At
  <2>2. QED
    BY <2>1, OutcomeInvStep
<1>3. TypeOK /\ OutcomeInv => OneOutcome
  BY DEF TypeOK, BookingsTypeOK, OutcomeInv, OneOutcome, Outcome
<1>4. QED
  BY <1>1, <1>2, <1>3, RowsInvariant, PTL DEF Spec

-----------------------------------------------------------------------------
(* Approved homes are not reviewed again, while the reviews of one home    *)
(* run one at a time                                                       *)

Approved == {"VERIFIED", "INACTIVE", "SOLD", "ACTIVE", "FLAGGED", "DELETED"}

\* With two reviews of one home a second approval may be on its way when the home
\* has been approved and booked, and would put it back on the market.
ReviewInv ==
    /\ \A h \in Listings : "LISTING_VERIFIED" \in audit[h] => listing[h] \in Approved
    /\ \A r \in ListingReqs :
          listingCall[r].pc \in Deciding => "LISTING_VERIFIED" \notin audit[listingCall[r].listing]

LEMMA ReviewInvInListings ==
    ASSUME ListingsTypeOK, OneReviewPerHome, ReviewInv, NEW ref, ListingsStep(ref)
    PROVE  ReviewInv'
<1> USE DEF ListingsTypeOK
<1>1. PICK r \in ListingReqs :
          \/ \E l \in Listings : ListingCallStarts(r, l)
          \/ ListingCallGoesOn(r, ref)
          \/ ListingCallFails(r)
  BY DEF ListingsStep
<1>2. \A q \in ListingReqs : q # r => listingCall'[q] = listingCall[q]
  BY <1>1
  DEF ListingCallStarts, CreateListing, UploadPhoto, UpdateRead, SubmitRead, ReviewRead,
      FlagRead, DeleteRead, Proceed, ListingCallGoesOn, AttachPhoto, HashPhoto, UpdateWrite,
      SubmitWrite, ReviewWrite, FlagWrite, DeleteWrite, ListingCallFails, Answer
<1>3. listingCall[r].pc # "idle" => listingCall[r] \in ListingRequest
  BY DEF IdleListingCall
<1>4. ASSUME UNCHANGED <<listing, audit>>,
             listingCall'[r].pc \in Deciding =>
                 "LISTING_VERIFIED" \notin audit[listingCall'[r].listing]
      PROVE  ReviewInv'
  BY <1>2, <1>4 DEF ReviewInv
<1>5. ASSUME NEW l \in Listings, CreateListing(r, l) PROVE ReviewInv'
  BY <1>2, <1>5 DEF CreateListing, ReviewInv, Approved, Deciding
<1>6. ASSUME NEW l \in Listings, NEW op, NEW pc \in ListingPc, Proceed(r, op, l, pc),
             UNCHANGED <<listing, audit>>,
             pc \in Deciding => listing[l] \notin Approved
      PROVE  ReviewInv'
  <2>1. listingCall'[r].pc = pc /\ listingCall'[r].listing = l
    BY <1>6 DEF Proceed
  <2>2. QED
    BY <1>4, <1>6, <2>1 DEF ReviewInv
<1>7. ASSUME NEW l \in Listings, ListingCallStarts(r, l), ~CreateListing(r, l)
      PROVE  ReviewInv'
  <2>1. {"attachPhoto", "update", "flag", "delete", "submit", "approve", "reject"}
            \subseteq ListingPc
    BY DEF ListingPc
  <2>2. CASE UploadPhoto(r, l)
    BY <1>6, <2>1, <2>2 DEF UploadPhoto, Deciding
  <2>3. CASE UpdateRead(r, l)
    BY <1>6, <2>1, <2>3 DEF UpdateRead, Deciding
  <2>4. CASE SubmitRead(r, l)
    BY <1>6, <2>1, <2>4 DEF SubmitRead, Approved
  <2>5. CASE ReviewRead(r, l, "approve") \/ ReviewRead(r, l, "reject")
    BY <1>6, <2>1, <2>5 DEF ReviewRead, Approved
  <2>6. CASE FlagRead(r, l)
    BY <1>6, <2>1, <2>6 DEF FlagRead, Deciding
  <2>7. CASE DeleteRead(r, l)
    BY <1>6, <2>1, <2>7 DEF DeleteRead, Deciding
  <2>8. QED
    BY <1>7, <2>2, <2>3, <2>4, <2>5, <2>6, <2>7 DEF ListingCallStarts
<1>8. ASSUME listingCall' = [listingCall EXCEPT ![r] = IdleListingCall]
      PROVE  \A q \in ListingReqs : listingCall'[q].pc \in Deciding =>
                 q # r /\ listingCall'[q] = listingCall[q]
  BY <1>2, <1>8 DEF IdleListingCall, Deciding
<1>9. CASE AttachPhoto(r)
  <2>1. listingCall[r] \in ListingRequest
    BY <1>3, <1>9 DEF AttachPhoto
  <2>2. listingCall'[r].pc \notin Deciding
    BY <1>9, <2>1 DEF AttachPhoto, ListingRequest, IdleListingCall, Deciding
  <2>3. QED
    BY <1>4, <1>9, <2>2 DEF AttachPhoto
<1>10. CASE HashPhoto(r) \/ UpdateWrite(r) \/ ListingCallFails(r)
  BY <1>4, <1>8, <1>10 DEF HashPhoto, UpdateWrite, ListingCallFails, Answer
<1>11. CASE SubmitWrite(r) \/ ReviewWrite(r)
  <2>1. /\ listingCall[r].pc \in Deciding
        /\ listingCall' = [listingCall EXCEPT ![r] = IdleListingCall]
    BY <1>11 DEF SubmitWrite, ReviewWrite, Answer, Deciding
  <2>2. "LISTING_VERIFIED" \notin audit[listingCall[r].listing]
    BY <2>1 DEF ReviewInv
  <2>3. ASSUME NEW h \in Listings, "LISTING_VERIFIED" \in audit'[h]
        PROVE  listing'[h] \in Approved
    <3>1. CASE h # listingCall[r].listing
      <4>1. listing'[h] = listing[h] /\ audit'[h] = audit[h]
        BY <1>11, <3>1 DEF SubmitWrite, ReviewWrite, SetStatusLogged, SetStatus
      <4>2. QED
        BY <2>3, <4>1 DEF ReviewInv
    <3>2. CASE h = listingCall[r].listing
      BY <1>11, <2>2, <2>3, <3>2
      DEF SubmitWrite, ReviewWrite, SetStatusLogged, SetStatus, Approved
    <3>3. QED
      BY <3>1, <3>2
  <2>4. ASSUME NEW q \in ListingReqs, listingCall'[q].pc \in Deciding
        PROVE  "LISTING_VERIFIED" \notin audit'[listingCall'[q].listing]
    <3>1. q # r /\ listingCall'[q] = listingCall[q]
      BY <1>8, <2>1, <2>4
    <3>2. listingCall[q].listing # listingCall[r].listing
      BY <2>1, <2>4, <3>1 DEF OneReviewPerHome
    <3>3. PICK h \in Listings : h = listingCall[q].listing
      BY <2>4, <3>1 DEF Deciding, ListingRequest, IdleListingCall
    <3>4. audit'[h] = audit[h]
      BY <1>11, <3>2, <3>3 DEF SubmitWrite, ReviewWrite, SetStatusLogged, SetStatus
    <3>5. QED
      BY <2>4, <3>1, <3>3, <3>4 DEF ReviewInv
  <2>5. QED
    BY <2>3, <2>4 DEF ReviewInv
<1>12. CASE FlagWrite(r)
  <2>1. \A h \in Listings : listing'[h] = listing[h] \/ listing'[h] = "FLAGGED"
    BY <1>12 DEF FlagWrite, SetStatus
  <2>2. QED
    BY <1>8, <1>12, <2>1 DEF FlagWrite, Answer, ReviewInv, Approved
<1>13. CASE DeleteWrite(r, ref)
  <2>1. \A h \in Listings : listing'[h] = listing[h] \/ listing'[h] = "DELETED"
    BY <1>13 DEF DeleteWrite
  <2>2. QED
    BY <1>8, <1>13, <2>1 DEF DeleteWrite, Answer, ReviewInv, Approved
<1>14. QED
  BY <1>1, <1>5, <1>7, <1>9, <1>10, <1>11, <1>12, <1>13 DEF ListingCallGoesOn

LEMMA ReviewInvStep ==
    ASSUME TypeOK, CallsOnRows, OneReviewPerHome, ReviewInv, Next
    PROVE  ReviewInv'
<1>1. ListingsTypeOK
  BY DEF TypeOK
<1>2. CASE ListingsStep(Referenced)
  BY <1>1, <1>2, ReviewInvInListings
<1>3. ASSUME UNCHANGED audit,
             UNCHANGED listingCall \/ listingCall' = [r \in ListingReqs |-> IdleListingCall],
             \A h \in Listings : listing'[h] = listing[h] \/ listing'[h] \in Approved
      PROVE  ReviewInv'
  BY <1>3 DEF ReviewInv, IdleListingCall, Deciding
<1>4. ASSUME NEW l \in Listings, NEW s \in BookingWrites, SetStatus(l, s)
      PROVE  \A h \in Listings : listing'[h] = listing[h] \/ listing'[h] \in Approved
  <2>1. s \in ListingStatus /\ s \in Approved
    BY DEF BookingWrites, ListingStatus, Approved
  <2>2. QED
    BY <1>1, <1>4, <2>1, SetStatusKeepsRows
<1>5. QED
  BY <1>2, <1>3, <1>4, HomesInBookings

-----------------------------------------------------------------------------
(* Exclusive holds                                                         *)

\* No booking other than b is HELD or BOOKED for the home of b.
Sole(b) ==
    \A c \in Bookings : c # b /\ booking[c].listing = booking[b].listing =>
                            booking[c].status \notin Active

Free(l) == \A c \in Bookings : booking[c].listing = l => booking[c].status \notin Active

\* The strengthening: what createBooking found is still true when it writes, and
\* so is that the booking a request is about has the home to itself.
LockInv ==
    /\ ExclusiveHold
    /\ \A r \in BookingReqs :
          /\ bookingCall[r].pc = "insert" => Free(bookingCall[r].listing)
          /\ bookingCall[r].pc = "write" => Sole(bookingCall[r].booking)
          /\ At(r, "write", {"BOOKED"}) =>
                 listing[booking[bookingCall[r].booking].listing] # "VERIFIED"

Confirms(r, b) == ConfirmWrite(r) /\ bookingCall[r].booking = b
                                  /\ bookingCall'[r].pc # "write"

\* How a booking becomes active.
LEMMA ActiveStep ==
    ASSUME TypeOK, CallsOnRows, Next, NEW b \in Bookings, booking'[b].status \in Active
    PROVE  \/ booking[b].status \in Active /\ booking'[b].listing = booking[b].listing
           \/ \E r \in BookingReqs : CreateInsert(r, b)
           \/ \E r \in BookingReqs : Confirms(r, b)
<1>1. ~Expires(b)
  BY DEF Expires, Active
<1>2. ASSUME NEW r \in BookingReqs, Writes(r, b) PROVE Confirms(r, b)
  BY <1>2 DEF Writes, Confirms, Active, Outcome
<1>3. booking[b].status \in Active => booking'[b].listing = booking[b].listing
  BY RowsStay DEF RowStays, Active
<1>4. QED
  BY <1>1, <1>2, <1>3, RowStep DEF Ages

\* How a home gets on the market.
LEMMA VerifiedStep ==
    ASSUME TypeOK, CallsOnRows, Next, NEW h \in Listings,
           listing[h] # "VERIFIED", listing'[h] = "VERIFIED"
    PROVE  \/ \E r \in ListingReqs : listingCall[r].pc = "approve" /\ listingCall[r].listing = h
           \/ \E r \in BookingReqs : CancelWrite(r) /\ bookingCall[r].listing = h
<1> USE DEF TypeOK, ListingsTypeOK
<1>1. CASE ListingsStep(Referenced)
  <2>1. ListingsTypeOK
    OBVIOUS
  <2>2. QED
    BY <1>1, <2>1, StatusStep
<1>2. ASSUME NEW l, NEW s, SetStatus(l, s), s # "VERIFIED" PROVE FALSE
  BY <1>2 DEF SetStatus
<1>3. ASSUME NEW r \in BookingReqs, CancelWrite(r) PROVE bookingCall[r].listing = h
  BY <1>3 DEF CancelWrite, SetStatus
<1>4. QED
  BY <1>1, <1>2, <1>3
     DEF Next, listingVars, BookingCallStarts, CreateRead, BookingRead, BookingCallGoesOn,
         CreateFindActive, CreateInsert, CreateRejected, CreateAddHoldJob, ConfirmWrite,
         ConfirmSell, OutcomeWrite, NotifyFirst, NotifySecond, BookingCallFails, ExpiryStep,
         ExpiryRead, ExpiryWrite, ExpiryFails, Crash, Tick

\* A home that was ever booked is not approved again.
LEMMA BookedIsNotApproved ==
    ASSUME HomesInv, ReviewInv, NEW b \in Bookings, booking[b].status # "ABSENT",
           NEW r \in ListingReqs, listingCall[r].pc = "approve"
    PROVE  listingCall[r].listing # booking[b].listing
BY DEF HomesInv, BookedHomes, Vouched, ReviewInv, Deciding

\* How createBooking comes to write: it has just found no active booking.
LEMMA PendingInserts ==
    ASSUME TypeOK, CallsOnRows, Next, NEW r \in BookingReqs, bookingCall'[r].pc = "insert"
    PROVE  /\ bookingCall'[r].listing = bookingCall[r].listing
           /\ \/ bookingCall[r].pc = "insert"
              \/ Free(bookingCall[r].listing) /\ UNCHANGED booking
<1> USE DEF TypeOK, BookingsTypeOK
<1> DEFINE P == /\ bookingCall'[r].listing = bookingCall[r].listing
                /\ \/ bookingCall[r].pc = "insert"
                   \/ Free(bookingCall[r].listing) /\ UNCHANGED booking
<1>1. CASE bookingCall'[r] = bookingCall[r]
  BY <1>1
<1>2. ASSUME NEW q \in BookingReqs, Done(q) PROVE P
  BY <1>2 DEF Done, IdleBookingCall
<1>3. ASSUME NEW q \in BookingReqs,
             NEW pc \in {"sell", "notifyFirst", "notifySecond"}, GoTo(q, pc)
      PROVE  P
  BY <1>3 DEF GoTo
<1>4. ASSUME NEW q \in BookingReqs, BookingCallStarts(q) PROVE P
  BY <1>4 DEF BookingCallStarts, CreateRead, BookingRead, IdleBookingCall
<1>5. ASSUME NEW q \in BookingReqs, CreateFindActive(q) PROVE P
  <2>1. CASE /\ Free(bookingCall[q].listing)
             /\ bookingCall' = [bookingCall EXCEPT ![q].pc = "insert",
                                                   ![q].holdExpiresIn = HOLD_DURATION]
    <3>1. bookingCall[q] \in BookingRequest
      BY <1>5 DEF CreateFindActive, At, IdleBookingCall
    <3>2. bookingCall'[q].listing = bookingCall[q].listing
      BY <2>1, <3>1 DEF BookingRequest
    <3>3. CASE q # r
      BY <1>1, <2>1, <3>3
    <3>4. CASE q = r
      BY <1>5, <2>1, <3>2, <3>4 DEF CreateFindActive
    <3>5. QED
      BY <3>3, <3>4
  <2>2. CASE Done(q)
    BY <1>2, <2>2
  <2>3. QED
    BY <1>5, <2>1, <2>2 DEF CreateFindActive, Free
<1>6. ASSUME NEW q \in BookingReqs, NEW b \in Bookings, CreateInsert(q, b) PROVE P
  <2>1. bookingCall[q] \in BookingRequest
    BY <1>6 DEF CreateInsert, At, IdleBookingCall
  <2>2. QED
    BY <1>6, <2>1 DEF CreateInsert, BookingRequest
<1>7. CASE Crash
  BY <1>7 DEF Crash, IdleBookingCall
<1>8. CASE Tick
  <2>1. bookingCall'[r] = [bookingCall[r] EXCEPT !.holdExpiresIn =
                               Sooner(bookingCall[r].holdExpiresIn)]
    BY <1>8 DEF Tick
  <2>2. CASE bookingCall[r] \in BookingRequest
    BY <2>1, <2>2 DEF BookingRequest
  <2>3. CASE bookingCall[r] = IdleBookingCall
    BY <2>1, <2>3 DEF IdleBookingCall
  <2>4. QED
    BY <2>2, <2>3
<1>9. QED
  BY <1>1, <1>2, <1>3, <1>4, <1>5, <1>6, <1>7, <1>8
     DEF Next, bookingVars, BookingCallGoesOn, CreateRejected, CreateAddHoldJob,
         ConfirmWrite, ConfirmSell, CancelWrite, OutcomeWrite, NotifyFirst, NotifySecond,
         BookingCallFails, ExpiryStep, ExpiryRead, ExpiryWrite, ExpiryFails

\* What createBooking found stays true until it writes: only a booking request
\* makes a booking active, and there is no other.
LEMMA FreeStep ==
    ASSUME TypeOK, CallsOnRows, OneBookingPerHome, LockInv, Next,
           NEW r \in BookingReqs, bookingCall'[r].pc = "insert"
    PROVE  Free(bookingCall[r].listing)'
<1> USE DEF TypeOK, BookingsTypeOK
<1> DEFINE l == bookingCall[r].listing
<1>1. bookingCall'[r].listing = l
  BY PendingInserts
<1>2. CASE Free(l) /\ UNCHANGED booking
  BY <1>1, <1>2 DEF Free
<1>3. CASE bookingCall[r].pc = "insert"
  <2>1. Free(l)
    BY <1>3 DEF LockInv
  <2>2. ASSUME NEW b \in Bookings, booking'[b].status \in Active, booking'[b].listing = l
        PROVE  FALSE
    <3>1. CASE booking[b].status \in Active /\ booking'[b].listing = booking[b].listing
      BY <2>1, <2>2, <3>1 DEF Free
    <3>2. ASSUME NEW q \in BookingReqs, CreateInsert(q, b) PROVE FALSE
      <4>1. q = r
        <5>1. bookingCall[q].pc = "insert" /\ bookingCall[q].listing = booking'[b].listing
          BY <3>2 DEF CreateInsert, At
        <5>2. QED
          BY <1>3, <2>2, <5>1 DEF OneBookingPerHome, Idle
      <4>2. bookingCall[r] \in BookingRequest
        BY <1>3 DEF IdleBookingCall
      <4>3. bookingCall'[r].pc = "addHoldJob"
        BY <3>2, <4>1, <4>2 DEF CreateInsert, BookingRequest
      <4>4. QED
        BY <4>3
    <3>3. ASSUME NEW q \in BookingReqs, Confirms(q, b) PROVE FALSE
      <4>1. bookingCall[q].pc = "write" /\ bookingCall[q].booking = b
        BY <3>3 DEF Confirms, ConfirmWrite, At
      <4>2. booking[b] \in BookingRow /\ booking[b].listing = bookingCall[q].listing
        BY <4>1, CallAfterRead DEF AfterRead
      <4>3. booking'[b].listing = booking[b].listing
        BY <4>2, RowsStay DEF RowStays, BookingRow, BookingStatus, Outcome
      <4>4. q = r
        BY <1>3, <2>2, <4>1, <4>2, <4>3 DEF OneBookingPerHome, Idle
      <4>5. QED
        BY <1>3, <4>1, <4>4
    <3>4. QED
      BY <2>2, <3>1, <3>2, <3>3, ActiveStep
  <2>3. QED
    BY <1>1, <2>2 DEF Free
<1>4. QED
  BY <1>2, <1>3, PendingInserts

\* So does that the booking a request is about has the home to itself.
LEMMA SoleStep ==
    ASSUME TypeOK, CallsOnRows, OneBookingPerHome, LockInv, Next,
           NEW r \in BookingReqs, bookingCall'[r].pc = "write"
    PROVE  Sole(bookingCall[r].booking)'
<1> USE DEF TypeOK, BookingsTypeOK
<1>1. ASSUME NEW b \in Bookings, NEW aim \in DOMAIN OpOf, BookingRead(r, b, aim),
             bookingCall'[r].booking = b
      PROVE  Sole(bookingCall[r].booking)'
  <2>1. booking[b].status \in Active
    BY <1>1 DEF BookingRead, OpOf, Accepted, CanTransition, TRANSITIONS, TargetOf, Active,
                BookingStatus, Outcome
  <2>2. Sole(b)
    BY <2>1 DEF LockInv, ExclusiveHold, AtMostOneActive, Sole
  <2>3. UNCHANGED booking
    BY <1>1 DEF BookingRead
  <2>4. QED
    BY <1>1, <2>2, <2>3 DEF Sole
<1>2. CASE /\ bookingCall[r].pc = "write"
           /\ bookingCall'[r].booking = bookingCall[r].booking
  <2>1. PICK b \in Bookings : b = bookingCall[r].booking /\ booking[b] \in BookingRow
    BY <1>2, CallAfterRead DEF AfterRead
  <2>2. Sole(b)
    BY <1>2, <2>1 DEF LockInv
  <2>3. booking'[b].listing = booking[b].listing
    BY <2>1, RowsStay DEF RowStays, BookingRow, BookingStatus, Outcome
  <2>4. ASSUME NEW c \in Bookings, c # b, booking'[c].listing = booking'[b].listing,
               booking'[c].status \in Active
        PROVE  FALSE
    <3>1. CASE booking[c].status \in Active /\ booking'[c].listing = booking[c].listing
      BY <2>2, <2>3, <2>4, <3>1 DEF Sole
    <3>2. ASSUME NEW q \in BookingReqs, CreateInsert(q, c) PROVE FALSE
      <4>1. bookingCall[q].pc = "insert" /\ bookingCall[q].listing = booking'[c].listing
        BY <3>2 DEF CreateInsert, At
      <4>2. booking[b].listing = bookingCall[r].listing
        BY <1>2, <2>1, CallAfterRead DEF AfterRead
      <4>3. q = r
        BY <1>2, <2>3, <2>4, <4>1, <4>2 DEF OneBookingPerHome, Idle
      <4>4. QED
        BY <1>2, <4>1, <4>3
    <3>3. ASSUME NEW q \in BookingReqs, Confirms(q, c) PROVE FALSE
      <4>1. bookingCall[q].pc = "write" /\ bookingCall[q].booking = c
        BY <3>3 DEF Confirms, ConfirmWrite, At
      <4>2. booking[c] \in BookingRow
        BY <4>1, CallAfterRead DEF AfterRead
      <4>3. booking'[c].listing = booking[c].listing
        BY <4>2, RowsStay DEF RowStays, BookingRow, BookingStatus, Outcome
      <4>4. booking[c].listing = booking[b].listing
        BY <2>3, <2>4, <4>3
      <4>5. q = r
        BY <1>2, <2>1, <4>1, <4>4, WritersOfOneHome DEF AfterRead
      <4>6. QED
        BY <2>1, <2>4, <4>1, <4>5
    <3>4. QED
      BY <2>4, <3>1, <3>2, <3>3, ActiveStep
  <2>5. QED
    BY <1>2, <2>1, <2>4 DEF Sole
<1>3. QED
  BY <1>1, <1>2, PendingWrites

\* A home with an active booking is taken off the market with it and does not
\* come back while the booking is active, or about to be.
LEMMA OffMarketStep ==
    ASSUME TypeOK, CallsOnRows, HomesInv, ReviewInv, OneBookingPerHome, LockInv, Next,
           NEW b \in Bookings, booking[b] \in BookingRow,
           listing[booking[b].listing] # "VERIFIED",
           booking'[b].status # "CANCELLED",
           \/ booking[b].status \in Active
           \/ \E r \in BookingReqs : At(r, "write", {"BOOKED"}) /\ bookingCall[r].booking = b
    PROVE  listing'[booking[b].listing] # "VERIFIED"
<1> USE DEF TypeOK, BookingsTypeOK
<1> DEFINE h == booking[b].listing
<1> SUFFICES ASSUME listing'[h] = "VERIFIED" PROVE FALSE
  OBVIOUS
<1>1. h \in Listings /\ booking[b].status # "ABSENT"
  BY DEF BookingRow, BookingStatus, Outcome
<1>2. ASSUME NEW r \in ListingReqs, listingCall[r].pc = "approve", listingCall[r].listing = h
      PROVE  FALSE
  BY <1>1, <1>2, BookedIsNotApproved
<1>3. ASSUME NEW r \in BookingReqs, CancelWrite(r), bookingCall[r].listing = h
      PROVE  FALSE
  <2>1. bookingCall[r].pc = "write" /\ bookingCall[r].aim \in {"CANCELLED", "RELEASED"}
    BY <1>3 DEF CancelWrite, At
  <2>2. bookingCall[r].booking \in Bookings /\ booking[bookingCall[r].booking].listing = h
    BY <1>3, <2>1, CallAfterRead DEF AfterRead
  <2>3. bookingCall[r].booking # b
    BY <1>3 DEF CancelWrite, BookingRow
  <2>4. booking[b].status \notin Active
    BY <2>1, <2>2, <2>3 DEF LockInv, Sole
  <2>5. PICK q \in BookingReqs : At(q, "write", {"BOOKED"}) /\ bookingCall[q].booking = b
    BY <2>4
  <2>6. q = r
    BY <2>1, <2>2, <2>5, WritersOfOneHome DEF At, AfterRead
  <2>7. QED
    BY <2>1, <2>5, <2>6 DEF At
<1>4. QED
  BY <1>1, <1>2, <1>3, VerifiedStep

\* Each step keeps the lock.
LEMMA ExclusiveStep ==
    ASSUME TypeOK, CallsOnRows, HomesInv, ReviewInv, OneBookingPerHome, LockInv, Next
    PROVE  ExclusiveHold'
<1> USE DEF TypeOK, BookingsTypeOK
<1>1. ASSUME NEW b \in Bookings, NEW r \in BookingReqs, CreateInsert(r, b)
      PROVE  /\ booking'[b].listing = bookingCall[r].listing
             /\ \A c \in Bookings : c # b => booking'[c] = booking[c]
             /\ Free(bookingCall[r].listing)
             /\ listing'[bookingCall[r].listing] # "VERIFIED"
  <2>1. bookingCall[r].pc = "insert" /\ bookingCall[r].listing \in Listings
    BY <1>1 DEF CreateInsert, At, BookingRequest, IdleBookingCall
  <2>2. QED
    BY <1>1, <2>1 DEF CreateInsert, SetStatus, HasRow, LockInv, ListingsTypeOK
<1>2. ASSUME NEW b \in Bookings, NEW c \in Bookings, b # c,
             booking'[b].status \in Active, booking'[c].status \in Active,
             booking'[b].listing = booking'[c].listing,
             \E r \in BookingReqs : CreateInsert(r, b)
      PROVE  FALSE
  BY <1>1, <1>2 DEF Free
<1>3. ASSUME NEW b \in Bookings, NEW r \in BookingReqs, Confirms(r, b)
      PROVE  /\ booking[b] \in BookingRow
             /\ booking'[b].listing = booking[b].listing
             /\ \A c \in Bookings : c # b => booking'[c] = booking[c]
             /\ Sole(b)
             /\ At(r, "write", {"BOOKED"})
             /\ listing[booking[b].listing] # "VERIFIED"
             /\ booking'[b].status # "CANCELLED"
  <2>1. bookingCall[r].pc = "write" /\ At(r, "write", {"BOOKED"})
    BY <1>3 DEF Confirms, ConfirmWrite, At
  <2>2. booking[b] \in BookingRow
    BY <1>3, <2>1, CallAfterRead DEF AfterRead, Confirms
  <2>3. QED
    BY <1>3, <2>1, <2>2 DEF Confirms, ConfirmWrite, LockInv, BookingRow
<1>4. ASSUME NEW b \in Bookings, NEW c \in Bookings, b # c,
             booking'[b].status \in Active, booking'[c].status \in Active,
             booking'[b].listing = booking'[c].listing,
             \E r \in BookingReqs : Confirms(r, b)
      PROVE  FALSE
  BY <1>3, <1>4 DEF Sole
<1>5. AtMostOneActive'
  <2>1. SUFFICES ASSUME NEW b \in Bookings, NEW c \in Bookings, b # c,
                        booking'[b].status \in Active, booking'[c].status \in Active,
                        booking'[b].listing = booking'[c].listing
                 PROVE  FALSE
    BY DEF AtMostOneActive
  <2>2. booking[b].status \in Active /\ booking'[b].listing = booking[b].listing
    BY <1>2, <1>4, <2>1, ActiveStep
  <2>3. booking[c].status \in Active /\ booking'[c].listing = booking[c].listing
    BY <1>2, <1>4, <2>1, ActiveStep
  <2>4. QED
    BY <2>1, <2>2, <2>3 DEF LockInv, ExclusiveHold, AtMostOneActive
<1>6. ASSUME NEW b \in Bookings, booking'[b].status \in Active
      PROVE  listing'[booking'[b].listing] # "VERIFIED"
  <2>1. CASE booking[b].status \in Active /\ booking'[b].listing = booking[b].listing
    <3>1. booking[b] \in BookingRow
      BY <2>1 DEF NoBooking, Active
    <3>2. listing[booking[b].listing] # "VERIFIED"
      BY <2>1 DEF LockInv, ExclusiveHold, ActiveHomesAreOffMarket
    <3>3. booking'[b].status # "CANCELLED"
      BY <1>6 DEF Active
    <3>4. QED
      BY <2>1, <3>1, <3>2, <3>3, OffMarketStep
  <2>2. ASSUME NEW r \in BookingReqs, CreateInsert(r, b)
        PROVE  listing'[booking'[b].listing] # "VERIFIED"
    BY <1>1, <2>2
  <2>3. ASSUME NEW r \in BookingReqs, Confirms(r, b)
        PROVE  listing'[booking'[b].listing] # "VERIFIED"
    <3>1. bookingCall[r].booking = b
      BY <2>3 DEF Confirms
    <3>2. QED
      BY <1>3, <2>3, <3>1, OffMarketStep
  <2>4. QED
    BY <1>6, <2>1, <2>2, <2>3, ActiveStep
<1>7. QED
  BY <1>5, <1>6 DEF ExclusiveHold, ActiveHomesAreOffMarket

\* The home of a booking that is about to be confirmed stays off the market.
LEMMA ConfirmedHomesStep ==
    ASSUME TypeOK, CallsOnRows, HomesInv, ReviewInv, OneBookingPerHome, LockInv, Next,
           NEW r \in BookingReqs, At(r, "write", {"BOOKED"})'
    PROVE  (listing[booking[bookingCall[r].booking].listing] # "VERIFIED")'
<1> USE DEF TypeOK, BookingsTypeOK
<1>0. bookingCall'[r].pc = "write" /\ bookingCall'[r].aim = "BOOKED"
  BY DEF At
<1>1. ASSUME NEW b \in Bookings, NEW aim \in DOMAIN OpOf, BookingRead(r, b, aim),
             bookingCall'[r].aim = aim, bookingCall'[r].booking = b
      PROVE  (listing[booking[bookingCall[r].booking].listing] # "VERIFIED")'
  <2>1. booking[b].status \in Active
    BY <1>1 DEF BookingRead, OpOf, Accepted, CanTransition, TRANSITIONS, TargetOf, Active,
                BookingStatus, Outcome
  <2>2. listing[booking[b].listing] # "VERIFIED"
    BY <2>1 DEF LockInv, ExclusiveHold, ActiveHomesAreOffMarket
  <2>3. UNCHANGED <<listing, booking>>
    BY <1>1 DEF BookingRead, listingVars
  <2>4. QED
    BY <1>1, <2>2, <2>3
<1>2. CASE /\ bookingCall[r].pc = "write"
           /\ bookingCall'[r].aim = bookingCall[r].aim
           /\ bookingCall'[r].booking = bookingCall[r].booking
  <2>1. PICK b \in Bookings : b = bookingCall[r].booking /\ booking[b] \in BookingRow
    BY <1>2, CallAfterRead DEF AfterRead
  <2>2. At(r, "write", {"BOOKED"}) /\ listing[booking[b].listing] # "VERIFIED"
    BY <1>0, <1>2, <2>1 DEF At, LockInv
  <2>3. booking'[b].listing = booking[b].listing
    BY <2>1, RowsStay DEF RowStays, BookingRow, BookingStatus, Outcome
  <2>4. ASSUME NEW q \in ListingReqs, listingCall[q].pc = "approve",
               listingCall[q].listing = booking[b].listing
        PROVE  FALSE
    BY <2>1, <2>4, BookedIsNotApproved DEF BookingRow, BookingStatus, Outcome
  <2>5. ASSUME NEW q \in BookingReqs, CancelWrite(q),
               bookingCall[q].listing = booking[b].listing
        PROVE  FALSE
    <3>1. bookingCall[q].pc = "write" /\ bookingCall[q].aim \in {"CANCELLED", "RELEASED"}
      BY <2>5 DEF CancelWrite, At
    <3>2. booking[b].listing = bookingCall[r].listing
      BY <1>2, <2>1, CallAfterRead DEF AfterRead
    <3>3. q = r
      BY <1>2, <2>5, <3>1, <3>2 DEF OneBookingPerHome, Idle
    <3>4. QED
      BY <2>2, <3>1, <3>3 DEF At
  <2>6. booking[b].listing \in Listings
    BY <2>1 DEF BookingRow
  <2>7. listing'[booking[b].listing] # "VERIFIED"
    BY <2>2, <2>4, <2>5, <2>6, VerifiedStep
  <2>8. QED
    BY <1>2, <2>1, <2>3, <2>7
<1>3. QED
  BY <1>0, <1>1, <1>2, PendingWrites

\* The strengthening holds throughout.
LEMMA LockInvariant == Spec /\ []OneAtATimePerHome => [](ReviewInv /\ LockInv)
<1>1. Init => ReviewInv /\ LockInv
  BY DEF Init, ListingsInit, BookingsInit, IdleListingCall, IdleBookingCall, NoBooking,
         ReviewInv, LockInv, ExclusiveHold, AtMostOneActive, ActiveHomesAreOffMarket,
         Active, At, Deciding
<1>2. /\ TypeOK /\ CallsOnRows /\ HomesInv /\ OneAtATimePerHome
      /\ (ReviewInv /\ LockInv)
      /\ [Next]_vars
      => (ReviewInv /\ LockInv)'
  <2>1. ASSUME TypeOK, CallsOnRows, HomesInv, OneBookingPerHome, OneReviewPerHome, ReviewInv,
               LockInv, Next
        PROVE  ReviewInv' /\ LockInv'
    BY <2>1, ReviewInvStep, ExclusiveStep, FreeStep, SoleStep, ConfirmedHomesStep DEF LockInv
  <2>2. ASSUME ReviewInv, LockInv, UNCHANGED vars PROVE ReviewInv' /\ LockInv'
    BY <2>2 DEF vars, listingVars, bookingVars, ReviewInv, LockInv, ExclusiveHold,
                AtMostOneActive, ActiveHomesAreOffMarket, Free, Sole, At
  <2>3. QED
    BY <2>1, <2>2 DEF OneAtATimePerHome
<1>3. QED
  BY <1>1, <1>2, RowsInvariant, HomesInvariant, PTL DEF Spec

\* No double-selling: while the booking requests about one home run one at a time,
\* and the reviews of it, a home has at most one HELD or BOOKED booking and is off
\* the market while it has one, whatever the worker, crashes, failing awaits, other
\* listing requests and the requests about other homes do.
THEOREM ExclusiveHolds == SerialSpec => []ExclusiveHold
<1>1. LockInv => ExclusiveHold
  BY DEF LockInv
<1>2. QED
  BY <1>1, LockInvariant, SerialSteps, PTL

-----------------------------------------------------------------------------
(* Bookings implements RoomLock                                            *)

OnMarket(h) == listing[h] = "VERIFIED"

\* Who holds a home, and that nobody does.
LEMMA ActiveHolder ==
    ASSUME TypeOK, NEW b \in Bookings, booking[b].status \in Active, Sole(b)
    PROVE  HolderOf(booking[b].listing) = b
<1> DEFINE l == booking[b].listing
<1>1. ActiveOn(l) = {b}
  BY DEF ActiveOn, Sole
<1>2. (CHOOSE c \in {b} : TRUE) = b
  OBVIOUS
<1>3. QED
  BY <1>1, <1>2 DEF HolderOf

LEMMA NoHolder ==
    ASSUME NEW l, Free(l)
    PROVE  HolderOf(l) = Null
<1>1. ActiveOn(l) = {}
  BY DEF ActiveOn, Free
<1>2. QED
  BY <1>1 DEF HolderOf

\* The holder of a home depends on who is active there and on nothing else.
LEMMA SameHolder ==
    ASSUME NEW l,
           \A c \in Bookings : (booking'[c].listing = l /\ booking'[c].status \in Active)
                                   <=> (booking[c].listing = l /\ booking[c].status \in Active)
    PROVE  HolderOf(l)' = HolderOf(l)
<1>1. ActiveOn(l)' = ActiveOn(l)
  BY DEF ActiveOn
<1>2. QED
  BY <1>1 DEF HolderOf

\* A step of the lock, or none.
RoomMove == [Room!RoomNext]_(Room!roomVars)

\* Nothing but the home h has changed hands or market.
OnlyHome(h) ==
    \A g \in Listings : g # h => HolderOf(g)' = HolderOf(g) /\ (OnMarket(g)' <=> OnMarket(g))

\* What becomes of one home, and the step of the lock it is.
LEMMA RoomSteps ==
    ASSUME NEW h \in Listings, OnlyHome(h), NEW t, HolderOf(h)' = t,
           \/ t = HolderOf(h) /\ OnMarket(h)' = OnMarket(h)
           \/ /\ HolderOf(h) = Null
              /\ t \in Bookings
              /\ ~OnMarket(h)'
           \/ HolderOf(h) # Null /\ t = Null
           \/ t = HolderOf(h) /\ (OnMarket(h)' => HolderOf(h) = Null)
    PROVE  RoomMove
<1> DEFINE hold == [l \in Listings |-> HolderOf(l)]
           shown == [l \in Listings |-> listing[l] = "VERIFIED"]
<1>1. hold' = [hold EXCEPT ![h] = t]
  BY DEF OnlyHome
<1>2. shown' = [shown EXCEPT ![h] = OnMarket(h)']
  BY DEF OnlyHome, OnMarket
<1>3. /\ hold[h] = HolderOf(h) /\ shown[h] = OnMarket(h)
      /\ hold = [hold EXCEPT ![h] = HolderOf(h)]
      /\ shown = [shown EXCEPT ![h] = OnMarket(h)]
  BY DEF OnMarket
<1>4. OnMarket(h) \in BOOLEAN /\ OnMarket(h)' \in BOOLEAN
  BY DEF OnMarket
<1> HIDE DEF hold, shown
<1>5. CASE t = HolderOf(h) /\ OnMarket(h)' = OnMarket(h)
  BY <1>1, <1>2, <1>3, <1>5 DEF RoomMove, Room!roomVars, hold, shown
<1>6. CASE HolderOf(h) = Null /\ t \in Bookings /\ ~OnMarket(h)'
  <2>1. CASE OnMarket(h)
    <3>1. Room!Take(h, t)
      BY <1>1, <1>2, <1>3, <1>4, <1>6, <2>1 DEF Room!Take, hold, shown
    <3>2. QED
      BY <1>6, <3>1 DEF RoomMove, Room!RoomNext
  <2>2. CASE ~OnMarket(h)
    <3>1. Room!Reclaim(h, t)
      BY <1>1, <1>2, <1>3, <1>4, <1>6, <2>2 DEF Room!Reclaim, hold, shown
    <3>2. QED
      BY <1>6, <3>1 DEF RoomMove, Room!RoomNext
  <2>3. QED
    BY <2>1, <2>2
<1>7. CASE HolderOf(h) # Null /\ t = Null
  <2>1. Room!Leave(h)
    BY <1>1, <1>2, <1>3, <1>4, <1>7 DEF Room!Leave, hold, shown
  <2>2. QED
    BY <2>1 DEF RoomMove, Room!RoomNext
<1>8. CASE t = HolderOf(h) /\ (OnMarket(h)' => HolderOf(h) = Null)
  <2>1. CASE OnMarket(h)'
    <3>1. Room!Publish(h)
      BY <1>1, <1>2, <1>3, <1>4, <1>8, <2>1 DEF Room!Publish, hold, shown
    <3>2. QED
      BY <3>1 DEF RoomMove, Room!RoomNext
  <2>2. CASE ~OnMarket(h)'
    <3>1. Room!Withdraw(h)
      BY <1>1, <1>2, <1>3, <1>4, <1>8, <2>2 DEF Room!Withdraw, hold, shown
    <3>2. QED
      BY <3>1 DEF RoomMove, Room!RoomNext
  <2>3. QED
    BY <2>1, <2>2
<1>9. QED
  BY <1>5, <1>6, <1>7, <1>8

\* Nothing happens to any home.
LEMMA RoomStutters ==
    ASSUME \A g \in Listings : HolderOf(g)' = HolderOf(g) /\ (OnMarket(g)' <=> OnMarket(g))
    PROVE  RoomMove
<1> DEFINE hold == [l \in Listings |-> HolderOf(l)]
           shown == [l \in Listings |-> listing[l] = "VERIFIED"]
<1>1. hold' = hold
  OBVIOUS
<1>2. shown' = shown
  BY DEF OnMarket
<1>3. QED
  BY <1>1, <1>2 DEF RoomMove, Room!roomVars

\* A step that writes the status of the home h, and no booking.
LEMMA StatusFrame ==
    ASSUME UNCHANGED booking, NEW h \in Listings,
           \A g \in Listings : g # h => listing'[g] = listing[g],
           OnMarket(h)' => OnMarket(h) \/ Free(h)
    PROVE  RoomMove
<1>1. \A g \in Listings : HolderOf(g)' = HolderOf(g)
  BY SameHolder
<1>2. OnlyHome(h)
  BY <1>1 DEF OnlyHome, OnMarket
<1>3. PICK t : HolderOf(h)' = t
  OBVIOUS
<1>4. CASE OnMarket(h)' /\ OnMarket(h)
  BY <1>1, <1>2, <1>3, <1>4, RoomSteps DEF OnMarket
<1>5. CASE OnMarket(h)' => Free(h)
  <2>1. OnMarket(h)' => HolderOf(h) = Null
    BY <1>5, NoHolder
  <2>2. QED
    BY <1>1, <1>2, <1>3, <2>1, RoomSteps
<1>6. QED
  BY <1>4, <1>5

\* A step that writes the booking b, of the home h, and perhaps the status of h.
RowFrame(h, b) ==
    /\ booking[b].status \in Active => booking[b].listing = h
    /\ booking'[b].listing = h
    /\ \A c \in Bookings : c # b => booking'[c] = booking[c]
    /\ \A g \in Listings : g # h => listing'[g] = listing[g]

\* Nobody else gains or loses a home by it.
LEMMA RowFrameMovesOneHome ==
    ASSUME NEW h \in Listings, NEW b \in Bookings, RowFrame(h, b)
    PROVE  OnlyHome(h)
<1>1. ASSUME NEW g \in Listings, g # h PROVE HolderOf(g)' = HolderOf(g)
  BY <1>1, SameHolder DEF RowFrame
<1>2. QED
  BY <1>1 DEF RowFrame, OnlyHome, OnMarket

\* The booking b comes to hold the home.
LEMMA RowTakes ==
    ASSUME NEW h \in Listings, NEW b \in Bookings, RowFrame(h, b), Free(h),
           booking'[b].status \in Active, ~OnMarket(h)'
    PROVE  RoomMove
<1>1. ActiveOn(h)' = {b}
  BY DEF ActiveOn, RowFrame, Free
<1>2. (CHOOSE c \in {b} : TRUE) = b
  OBVIOUS
<1>3. HolderOf(h)' = b
  BY <1>1, <1>2 DEF HolderOf
<1>4. HolderOf(h) = Null
  BY NoHolder
<1>5. QED
  BY <1>3, <1>4, RowFrameMovesOneHome, RoomSteps

\* The booking b, which alone could hold the home, holds it no more.
LEMMA RowLeaves ==
    ASSUME TypeOK, NEW h \in Listings, NEW b \in Bookings, RowFrame(h, b), Sole(b),
           booking[b].listing = h, booking'[b].status \notin Active
    PROVE  RoomMove
<1>1. ActiveOn(h)' = {}
  BY DEF ActiveOn, RowFrame, Sole
<1>2. HolderOf(h)' = Null
  BY <1>1 DEF HolderOf
<1>3. CASE booking[b].status \in Active
  <2>1. HolderOf(h) # Null
    BY <1>3, ActiveHolder, BookingsAssumption
  <2>2. QED
    BY <1>2, <2>1, RowFrameMovesOneHome, RoomSteps
<1>4. CASE booking[b].status \notin Active
  <2>1. HolderOf(h) = Null
    BY <1>4, NoHolder DEF Sole, Free
  <2>2. QED
    BY <1>2, <2>1, RowFrameMovesOneHome, RoomSteps
<1>5. QED
  BY <1>3, <1>4

\* The listing endpoints write one status at a time.
LEMMA OneStatus ==
    ASSUME ListingsTypeOK, NEW ref, ListingsStep(ref)
    PROVE  \/ UNCHANGED listing
           \/ \E h \in Listings : \A g \in Listings : g # h => listing'[g] = listing[g]
<1> USE DEF ListingsTypeOK
<1>1. PICK r \in ListingReqs :
          \/ \E l \in Listings : ListingCallStarts(r, l)
          \/ ListingCallGoesOn(r, ref)
          \/ ListingCallFails(r)
  BY DEF ListingsStep
<1>2. ASSUME NEW l \in Listings, CreateListing(r, l)
      PROVE  \A g \in Listings : g # l => listing'[g] = listing[g]
  BY <1>2 DEF CreateListing
<1>3. ASSUME listingCall[r].pc # "idle" PROVE listingCall[r].listing \in Listings
  BY <1>3 DEF ListingRequest, IdleListingCall
<1>4. CASE SubmitWrite(r) \/ ReviewWrite(r) \/ FlagWrite(r) \/ DeleteWrite(r, ref)
  <2>1. \A g \in Listings : g # listingCall[r].listing => listing'[g] = listing[g]
    BY <1>4 DEF SubmitWrite, ReviewWrite, FlagWrite, DeleteWrite, SetStatusLogged, SetStatus
  <2>2. listingCall[r].listing \in Listings
    BY <1>3, <1>4 DEF SubmitWrite, ReviewWrite, FlagWrite, DeleteWrite, Answer
  <2>3. QED
    BY <2>1, <2>2
<1>5. QED
  BY <1>1, <1>2, <1>4
     DEF ListingCallStarts, UploadPhoto, UpdateRead, SubmitRead, ReviewRead, FlagRead,
         DeleteRead, ListingCallGoesOn, AttachPhoto, HashPhoto, UpdateWrite,
         ListingCallFails

\* Every step of Bookings is a step of RoomLock, or none.
LEMMA RoomStep ==
    ASSUME TypeOK, CallsOnRows, HomesInv, ReviewInv, OneBookingPerHome, LockInv,
           Next
    PROVE  RoomMove
<1> USE DEF TypeOK, BookingsTypeOK
<1>1. CASE UNCHANGED <<booking, listing>>
  <2>1. \A g \in Listings : HolderOf(g)' = HolderOf(g)
    BY <1>1, SameHolder
  <2>2. QED
    BY <1>1, <2>1, RoomStutters DEF OnMarket
<1>2. CASE ListingsStep(Referenced) /\ UNCHANGED bookingVars
  <2>1. ListingsTypeOK /\ UNCHANGED booking
    BY <1>2 DEF bookingVars
  <2>2. ASSUME NEW h \in Listings, \A g \in Listings : g # h => listing'[g] = listing[g]
        PROVE  RoomMove
    <3>1. ASSUME OnMarket(h)', ~OnMarket(h) PROVE Free(h)
      <4>1. PICK r \in ListingReqs : listingCall[r].pc = "approve" /\ listingCall[r].listing = h
        BY <1>2, <2>1, <3>1, StatusStep DEF OnMarket
      <4>2. \A b \in Bookings : booking[b].status # "ABSENT" => booking[b].listing # h
        BY <4>1, BookedIsNotApproved
      <4>3. QED
        BY <4>2 DEF Free, Active
    <3>2. QED
      BY <2>1, <2>2, <3>1, StatusFrame
  <2>3. QED
    BY <1>1, <1>2, <2>1, <2>2, OneStatus
<1>3. ASSUME NEW r \in BookingReqs, NEW b \in Bookings, CreateInsert(r, b) PROVE RoomMove
  <2>0. bookingCall[r].pc = "insert" /\ bookingCall[r].listing \in Listings
    BY <1>3 DEF CreateInsert, At, BookingRequest, IdleBookingCall
  <2>1. PICK h \in Listings : h = bookingCall[r].listing /\ bookingCall[r].pc = "insert"
    BY <2>0
  <2>2. Free(h)
    BY <2>1 DEF LockInv
  <2>3. RowFrame(h, b) /\ booking'[b].status \in Active /\ ~OnMarket(h)'
    BY <1>3, <2>1
    DEF CreateInsert, SetStatus, HasRow, RowFrame, Active, OnMarket, ListingsTypeOK
  <2>4. QED
    BY <2>1, <2>2, <2>3, RowTakes
<1>4. ASSUME NEW r \in BookingReqs, bookingCall[r].pc = "write"
      PROVE  /\ bookingCall[r].booking \in Bookings
             /\ booking[bookingCall[r].booking] \in BookingRow
             /\ booking[bookingCall[r].booking].listing = bookingCall[r].listing
             /\ bookingCall[r].listing \in Listings
             /\ Sole(bookingCall[r].booking)
  BY <1>4, CallAfterRead DEF AfterRead, LockInv
<1>5. ASSUME NEW r \in BookingReqs, ConfirmWrite(r) PROVE RoomMove
  <2>0. PICK b, h : b = bookingCall[r].booking /\ h = bookingCall[r].listing
    OBVIOUS
  <2>1. bookingCall[r].pc = "write" /\ At(r, "write", {"BOOKED"})
    BY <1>5 DEF ConfirmWrite, At
  <2>2. /\ b \in Bookings /\ booking[b] \in BookingRow
        /\ booking[b].listing = h /\ h \in Listings /\ Sole(b)
    BY <1>4, <2>0, <2>1
  <2>3. /\ booking'[b].status = "BOOKED"
        /\ booking'[b].listing = h
        /\ \A c \in Bookings : c # b => booking'[c] = booking[c]
        /\ UNCHANGED listing
    BY <1>5, <2>0, <2>2 DEF ConfirmWrite, BookingRow, listingVars
  <2>4. CASE booking[b].status \in Active
    <3>1. \A g \in Listings : HolderOf(g)' = HolderOf(g)
      BY <2>2, <2>3, <2>4, SameHolder DEF Active
    <3>2. QED
      BY <2>3, <3>1, RoomStutters DEF OnMarket
  <2>5. CASE booking[b].status \notin Active
    <3>1. Free(h)
      BY <2>2, <2>5 DEF Sole, Free
    <3>2. listing[h] # "VERIFIED"
      BY <2>0, <2>1, <2>2 DEF LockInv
    <3>3. RowFrame(h, b) /\ booking'[b].status \in Active /\ ~OnMarket(h)'
      BY <2>2, <2>3, <3>2 DEF RowFrame, Active, OnMarket
    <3>4. QED
      BY <2>2, <3>1, <3>3, RowTakes
  <2>6. QED
    BY <2>4, <2>5
<1>6. ASSUME NEW r \in BookingReqs, ConfirmSell(r) PROVE RoomMove
  <2>1. PICK h \in Listings : h = bookingCall[r].listing
    BY <1>6, CallAfterRead DEF ConfirmSell, At, AfterRead
  <2>2. /\ UNCHANGED booking
        /\ \A g \in Listings : g # h => listing'[g] = listing[g]
        /\ OnMarket(h)' => OnMarket(h)
    BY <1>6, <2>1 DEF ConfirmSell, SetStatus, OnMarket, ListingsTypeOK
  <2>3. QED
    BY <2>1, <2>2, StatusFrame
<1>7. ASSUME NEW r \in BookingReqs, CancelWrite(r) PROVE RoomMove
  <2>0. PICK b, h : b = bookingCall[r].booking /\ h = bookingCall[r].listing
    OBVIOUS
  <2>1. bookingCall[r].pc = "write"
    BY <1>7 DEF CancelWrite, At
  <2>2. /\ b \in Bookings /\ booking[b] \in BookingRow
        /\ booking[b].listing = h /\ h \in Listings /\ Sole(b)
    BY <1>4, <2>0, <2>1
  <2>3. RowFrame(h, b) /\ booking'[b].status \notin Active
    BY <1>7, <2>0, <2>2 DEF CancelWrite, SetStatus, BookingRow, RowFrame, Active
  <2>4. QED
    BY <2>2, <2>3, RowLeaves
<1>8. ASSUME NEW r \in BookingReqs, OutcomeWrite(r) PROVE RoomMove
  <2>0. PICK b, h : b = bookingCall[r].booking /\ h = bookingCall[r].listing
    OBVIOUS
  <2>1. bookingCall[r].pc = "write" /\ bookingCall[r].aim \in Outcome
    BY <1>8 DEF OutcomeWrite, At
  <2>2. /\ b \in Bookings /\ booking[b] \in BookingRow
        /\ booking[b].listing = h /\ h \in Listings /\ Sole(b)
    BY <1>4, <2>0, <2>1
  <2>3. RowFrame(h, b) /\ booking'[b].status \notin Active
    BY <1>8, <2>0, <2>1, <2>2 DEF OutcomeWrite, BookingRow, RowFrame, Active, Outcome, listingVars
  <2>4. QED
    BY <2>2, <2>3, RowLeaves
<1>9. ASSUME NEW b \in Bookings, ExpiryWrite(b) PROVE RoomMove
  <2>1. booking[b] \in BookingRow
    BY <1>9, BookingsAssumption DEF ExpiryWrite, CallsOnRows, NoBooking
  <2> PICK h \in Listings : h = booking[b].listing
    BY <2>1 DEF BookingRow
  <2>2. h = booking[b].listing /\ RowFrame(h, b) /\ booking'[b].status \notin Active
    BY <1>9, <2>1 DEF ExpiryWrite, SetStatus, BookingRow, RowFrame, Active
  <2>3. CASE booking[b].status \in Active
    <3>1. Sole(b)
      BY <2>3 DEF LockInv, ExclusiveHold, AtMostOneActive, Sole
    <3>2. QED
      BY <2>2, <3>1, RowLeaves
  <2>4. CASE booking[b].status \notin Active
    <3>1. \A g \in Listings : HolderOf(g)' = HolderOf(g)
      BY <2>2, <2>4, SameHolder DEF RowFrame
    <3>2. ~OnMarket(h)' \/ OnMarket(h)
      BY <1>9, <2>2 DEF ExpiryWrite, SetStatus, OnMarket, ListingsTypeOK
    <3>3. PICK t : HolderOf(h)' = t
      OBVIOUS
    <3>4. QED
      BY <2>2, <3>1, <3>2, <3>3, RowFrameMovesOneHome, RoomSteps DEF OnMarket
  <2>5. QED
    BY <2>3, <2>4
<1>10. CASE Tick
  <2>1. ASSUME NEW c \in Bookings
        PROVE  booking'[c].listing = booking[c].listing /\ booking'[c].status = booking[c].status
    <3>1. booking'[c] = [booking[c] EXCEPT !.holdExpiresIn = Sooner(booking[c].holdExpiresIn)]
      BY <1>10 DEF Tick
    <3>2. QED
      BY <3>1 DEF BookingRow, NoBooking
  <2>2. \A g \in Listings : HolderOf(g)' = HolderOf(g)
    BY <2>1, SameHolder
  <2>3. UNCHANGED listing
    BY <1>10 DEF Tick, listingVars
  <2>4. QED
    BY <2>2, <2>3, RoomStutters DEF OnMarket
<1>11. QED
  BY <1>1, <1>2, <1>3, <1>5, <1>6, <1>7, <1>8, <1>9, <1>10
     DEF Next, listingVars, BookingCallStarts, CreateRead, BookingRead, BookingCallGoesOn,
         CreateFindActive, CreateRejected, CreateAddHoldJob, NotifyFirst, NotifySecond,
         BookingCallFails, ExpiryStep, ExpiryRead, ExpiryFails, Crash

\* The whole of Bookings, with its listing endpoints, worker, queue, clock and
\* faults, implements the lock RoomLock that one student at a time can have of
\* each home, while the requests about one home run one at a time.
THEOREM RoomLockImplemented == SerialSpec => ImplementsRoomLock
<1>1. Init => Room!RoomInit
  <2>1. ASSUME Init, NEW g \in Listings PROVE HolderOf(g) = Null
    BY <2>1, NoHolder DEF Init, BookingsInit, NoBooking, Free, Active
  <2>2. QED
    BY <2>1 DEF Room!RoomInit
<1>2. /\ TypeOK /\ CallsOnRows /\ HomesInv /\ OneAtATimePerHome
      /\ (ReviewInv /\ LockInv)
      /\ [Next]_vars
      => RoomMove
  <2>1. ASSUME UNCHANGED vars PROVE RoomMove
    <3>1. \A g \in Listings : HolderOf(g)' = HolderOf(g)
      BY <2>1, SameHolder DEF vars, bookingVars
    <3>2. QED
      BY <2>1, <3>1, RoomStutters DEF vars, listingVars, OnMarket
  <2>2. QED
    BY <2>1, RoomStep DEF OneAtATimePerHome
<1>3. QED
  BY <1>1, <1>2, SerialSteps, LockInvariant, RowsInvariant, HomesInvariant, PTL
     DEF Spec, ImplementsRoomLock, Room!RoomSpec, RoomMove
=============================================================================
