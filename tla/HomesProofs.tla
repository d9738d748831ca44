---------------------------- MODULE HomesProofs -----------------------------
(***************************************************************************)
(* More proofs about the homes of Bookings: what a review has seen, and    *)
(* what is left of a home that was deleted.  For any number of listings,   *)
(* bookings and requests, any hold time and any faults.                    *)
(***************************************************************************)
EXTENDS BookingsProofs

-----------------------------------------------------------------------------
(* Homes that were reviewed are complete                                   *)

Reviewed == {"SUBMITTED", "UNDER_REVIEW", "VERIFIED", "REJECTED"}

\* A home that can stand a review, and one that will unless its row is gone.
Complete(h) == photo[h] /\ "LISTING_SUBMITTED" \in audit[h]
CompleteIfThere(h) == listing[h] # "ABSENT" /\ (HasRow(h) => Complete(h))

CompleteHomes ==
    \A h \in Listings :
        /\ HasRow(h) /\ (listing[h] \in Reviewed \/ "LISTING_VERIFIED" \in audit[h]) =>
               Complete(h)
        /\ "LISTING_VERIFIED" \in audit[h] => listing[h] # "ABSENT"

Reviewing == {"approve", "reject"}

CompleteReviews ==
    \A r \in ListingReqs :
        listingCall[r].pc \in Reviewing => CompleteIfThere(listingCall[r].listing)

\* The strengthening: a decision that is about to be written is about a home
\* that was complete when it was read, and nobody can undo that.
CompleteInv == CompleteHomes /\ CompleteReviews

LEMMA CompleteStays ==
    ASSUME NEW h \in Listings, HomeStays(h)
    PROVE  /\ CompleteIfThere(h) => CompleteIfThere(h)'
           /\ HasRow(h)' /\ HasRow(h) /\ Complete(h) => Complete(h)'
BY DEF HomeStays, CompleteIfThere, Complete

\* How a home comes to be reviewed, or approved, through the listing endpoints.
LEMMA ReviewedStep ==
    ASSUME ListingsTypeOK, NEW ref, ListingsStep(ref), NEW h \in Listings,
           \/ listing'[h] # listing[h] /\ listing'[h] \in Reviewed
           \/ audit'[h] # audit[h]
    PROVE  \E r \in ListingReqs :
               /\ listingCall[r].listing = h
               /\ HasRow(h)
               /\ \/ listingCall[r].pc = "submit" /\ "LISTING_SUBMITTED" \in audit'[h]
                  \/ listingCall[r].pc \in Reviewing
<1> USE DEF ListingsTypeOK, Reviewed
<1>1. PICK r \in ListingReqs :
          \/ \E l \in Listings : ListingCallStarts(r, l)
          \/ ListingCallGoesOn(r, ref)
          \/ ListingCallFails(r)
  BY DEF ListingsStep
<1>2. CASE SubmitWrite(r)
  BY <1>2 DEF SubmitWrite, Answer, SetStatusLogged, SetStatus
<1>3. CASE ReviewWrite(r)
  BY <1>3 DEF ReviewWrite, Answer, SetStatusLogged, SetStatus, Reviewing
<1>4. ~FlagWrite(r)
  BY DEF FlagWrite, SetStatus
<1>5. ~DeleteWrite(r, ref)
  BY DEF DeleteWrite
<1>6. ASSUME NEW l \in Listings PROVE ~CreateListing(r, l)
  BY DEF CreateListing
<1>7. QED
  BY <1>1, <1>2, <1>3, <1>4, <1>5, <1>6
     DEF ListingCallStarts, UploadPhoto, UpdateRead, SubmitRead, ReviewRead, FlagRead,
         DeleteRead, ListingCallGoesOn, AttachPhoto, HashPhoto, UpdateWrite,
         ListingCallFails

\* A request that is about to write a decision has just read the home, or goes on.
LEMMA PendingReviews ==
    ASSUME ListingsTypeOK, NEW ref, ListingsStep(ref), NEW r \in ListingReqs,
           listingCall'[r].pc \in Reviewing
    PROVE  \/ listingCall'[r] = listingCall[r]
           \/ \E l \in Listings :
                 /\ listingCall'[r].listing = l
                 /\ listing[l] \in {"SUBMITTED", "UNDER_REVIEW"}
<1> DEFINE P == \/ listingCall'[r] = listingCall[r]
                \/ \E l \in Listings :
                      /\ listingCall'[r].listing = l
                      /\ listing[l] \in {"SUBMITTED", "UNDER_REVIEW"}
<1> USE DEF ListingsTypeOK, Reviewing
<1>1. PICK q \in ListingReqs :
          \/ \E l \in Listings : ListingCallStarts(q, l)
          \/ ListingCallGoesOn(q, ref)
          \/ ListingCallFails(q)
  BY DEF ListingsStep
<1>2. CASE UNCHANGED listingCall \/ listingCall' = [listingCall EXCEPT ![q] = IdleListingCall]
  BY <1>2 DEF IdleListingCall
<1>3. ASSUME NEW l \in Listings, NEW op, NEW pc \in ListingPc \ Reviewing,
             Proceed(q, op, l, pc)
      PROVE  P
  BY <1>3 DEF Proceed
<1>4. ASSUME NEW l \in Listings, ReviewRead(q, l, "approve") \/ ReviewRead(q, l, "reject")
      PROVE  P
  BY <1>4 DEF ReviewRead, Proceed
<1>5. CASE AttachPhoto(q)
  <2>1. listingCall[q] \in ListingRequest
    BY <1>5 DEF AttachPhoto, IdleListingCall
  <2>2. QED
    BY <1>5, <2>1 DEF AttachPhoto, IdleListingCall, ListingRequest
<1>6. {"attachPhoto", "submit", "update", "flag", "delete"} \subseteq ListingPc \ Reviewing
  BY DEF ListingPc
<1>7. ASSUME NEW l \in Listings, ListingCallStarts(q, l) PROVE P
  BY <1>2, <1>3, <1>4, <1>6, <1>7
     DEF ListingCallStarts, CreateListing, UploadPhoto, UpdateRead, SubmitRead, FlagRead,
         DeleteRead
<1>8. ASSUME ListingCallGoesOn(q, ref) \/ ListingCallFails(q) PROVE P
  BY <1>2, <1>5, <1>8
     DEF ListingCallGoesOn, HashPhoto, UpdateWrite, SubmitWrite, ReviewWrite, FlagWrite,
         DeleteWrite, ListingCallFails, Answer
<1>9. QED
  BY <1>1, <1>7, <1>8

LEMMA CompleteHomesStep ==
    ASSUME TypeOK, CallsOnRows, HomesInv, CompleteInv, Next
    PROVE  CompleteHomes'
<1> SUFFICES ASSUME NEW h \in Listings
             PROVE  /\ HasRow(h)' /\ (listing'[h] \in Reviewed \/ "LISTING_VERIFIED" \in audit'[h])
                           => Complete(h)'
                    /\ "LISTING_VERIFIED" \in audit'[h] => listing'[h] # "ABSENT"
  BY DEF CompleteHomes
<1> DEFINE P == /\ HasRow(h)' /\ (listing'[h] \in Reviewed \/ "LISTING_VERIFIED" \in audit'[h])
                       => Complete(h)'
                /\ "LISTING_VERIFIED" \in audit'[h] => listing'[h] # "ABSENT"
<1>1. /\ HomeStays(h)
      /\ HasRow(h) => listing[h] # "ABSENT"
      /\ "LISTING_VERIFIED" \in audit[h] => listing[h] # "ABSENT"
  BY HomesStay DEF HasRow, NoRow, CompleteInv, CompleteHomes
<1>2. ASSUME HasRow(h), listing[h] \in Reviewed \/ "LISTING_VERIFIED" \in audit[h]
      PROVE  P
  <2>1. Complete(h)
    BY <1>2 DEF CompleteInv, CompleteHomes
  <2>2. listing'[h] # "ABSENT"
    BY <1>1, <1>2 DEF HomeStays
  <2>3. QED
    BY <1>1, <1>2, <2>1, <2>2, CompleteStays
<1>3. ASSUME audit'[h] = audit[h], listing'[h] = listing[h] \/ listing'[h] \notin Reviewed
      PROVE  P
  <2>1. CASE HasRow(h) /\ (listing[h] \in Reviewed \/ "LISTING_VERIFIED" \in audit[h])
    BY <1>2, <2>1
  <2>2. CASE "LISTING_VERIFIED" \in audit[h] /\ ~HasRow(h)
    BY <1>1, <2>2 DEF HomeStays
  <2>3. CASE "LISTING_VERIFIED" \notin audit[h] /\ (~HasRow(h) \/ listing[h] \notin Reviewed)
    <3>1. HasRow(h)' /\ listing'[h] = listing[h] => HasRow(h)
      BY DEF HasRow
    <3>2. QED
      BY <1>3, <2>3, <3>1
  <2>4. QED
    BY <2>1, <2>2, <2>3
<1>4. CASE ListingsStep(Referenced)
  <2>1. CASE (listing'[h] # listing[h] /\ listing'[h] \in Reviewed) \/ audit'[h] # audit[h]
    <3>1. PICK r \in ListingReqs :
              /\ listingCall[r].listing = h
              /\ HasRow(h)
              /\ \/ listingCall[r].pc = "submit" /\ "LISTING_SUBMITTED" \in audit'[h]
                 \/ listingCall[r].pc \in Reviewing
      BY <1>4, <2>1, ReviewedStep DEF TypeOK
    <3>2. CASE listingCall[r].pc = "submit" /\ "LISTING_SUBMITTED" \in audit'[h]
      <4>1. photo[h]
        BY <3>1, <3>2 DEF HomesInv, Decisions, Deciding, PhotoIfThere
      <4>2. HasRow(h)' => Complete(h)'
        BY <1>1, <3>2, <4>1 DEF HomeStays, Complete
      <4>3. QED
        BY <1>1, <3>1, <4>2 DEF HomeStays
    <3>3. CASE listingCall[r].pc \in Reviewing
      <4>1. Complete(h)
        BY <3>1, <3>3 DEF CompleteInv, CompleteReviews, CompleteIfThere
      <4>2. HasRow(h)' => Complete(h)'
        BY <1>1, <3>1, <4>1, CompleteStays
      <4>3. QED
        BY <1>1, <3>1, <4>2 DEF HomeStays
    <3>4. QED
      BY <3>1, <3>2, <3>3
  <2>2. QED
    BY <1>3, <2>1
<1>5. CASE UNCHANGED <<listing, audit>>
  BY <1>3, <1>5
<1>6. ASSUME NEW l \in Listings, NEW s \in BookingWrites, SetStatus(l, s), UNCHANGED audit,
             s = "VERIFIED" => l \in Referenced
      PROVE  P
  <2>1. s \in ListingStatus /\ ListingsTypeOK
    BY DEF BookingWrites, ListingStatus, TypeOK
  <2>2. listing'[h] = listing[h] \/ (listing'[h] = s /\ h = l)
    BY <1>6, <2>1, SetStatusKeepsRows
  <2>3. CASE listing'[h] = s /\ h = l /\ s = "VERIFIED"
    <3>1. HasRow(h) /\ "LISTING_VERIFIED" \in audit[h]
      BY <1>6, <2>3 DEF Referenced, HomesInv, BookedHomes, Vouched
    <3>2. QED
      BY <1>2, <3>1
  <2>4. CASE listing'[h] = s /\ s # "VERIFIED"
    <3>1. listing'[h] \notin Reviewed
      BY <2>4 DEF BookingWrites, Reviewed
    <3>2. QED
      BY <1>3, <1>6, <3>1
  <2>5. CASE listing'[h] = listing[h]
    BY <1>3, <1>6, <2>5
  <2>6. QED
    BY <2>2, <2>3, <2>4, <2>5
<1>7. QED
  BY <1>4, <1>5, <1>6, HomesInBookings

LEMMA CompleteReviewsStep ==
    ASSUME TypeOK, CallsOnRows, HomesInv, CompleteInv, Next
    PROVE  CompleteReviews'
<1> SUFFICES ASSUME NEW r \in ListingReqs, listingCall'[r].pc \in Reviewing
             PROVE  CompleteIfThere(listingCall[r].listing)'
  BY DEF CompleteReviews
<1>1. ASSUME NEW l \in Listings, CompleteIfThere(l), listingCall'[r].listing = l
      PROVE  CompleteIfThere(listingCall[r].listing)'
  <2>1. CompleteIfThere(l)'
    BY <1>1, HomesStay, CompleteStays
  <2>2. QED
    BY <1>1, <2>1 DEF CompleteIfThere, HasRow, Complete
<1>2. CASE listingCall'[r] = listingCall[r]
  <2>1. PICK l \in Listings : l = listingCall[r].listing
    BY <1>2 DEF TypeOK, ListingsTypeOK, ListingRequest, IdleListingCall, Reviewing
  <2>2. CompleteIfThere(l)
    BY <1>2, <2>1 DEF CompleteInv, CompleteReviews
  <2>3. QED
    BY <1>1, <1>2, <2>1, <2>2
<1>3. CASE listingCall' = [q \in ListingReqs |-> IdleListingCall]
  BY <1>3 DEF IdleListingCall, Reviewing
<1>4. ASSUME NEW l \in Listings, listingCall'[r].listing = l,
             listing[l] \in {"SUBMITTED", "UNDER_REVIEW"}
      PROVE  CompleteIfThere(listingCall[r].listing)'
  <2>1. CompleteIfThere(l)
    BY <1>4 DEF CompleteIfThere, CompleteInv, CompleteHomes, Reviewed
  <2>2. QED
    BY <1>1, <1>4, <2>1
<1>5. CASE ListingsStep(Referenced)
  <2>1. ListingsTypeOK
    BY DEF TypeOK
  <2>2. QED
    BY <1>2, <1>4, <1>5, <2>1, PendingReviews
<1>6. QED
  BY <1>2, <1>3, <1>5, HomesInBookings

LEMMA CompleteInvariant == Spec => []CompleteInv
<1>1. Init => CompleteInv
  BY DEF Init, ListingsInit, IdleListingCall, HasRow, NoRow, CompleteInv, CompleteHomes,
         CompleteReviews, Reviewing
<1>2. TypeOK /\ CallsOnRows /\ HomesInv /\ CompleteInv /\ [Next]_vars => CompleteInv'
  <2>1. ASSUME TypeOK, CallsOnRows, HomesInv, CompleteInv, Next PROVE CompleteInv'
    BY <2>1, CompleteHomesStep, CompleteReviewsStep DEF CompleteInv
  <2>2. ASSUME CompleteInv, UNCHANGED vars PROVE CompleteInv'
    BY <2>2 DEF vars, listingVars, CompleteInv, CompleteHomes, CompleteReviews, HasRow,
                Complete, CompleteIfThere
  <2>3. QED
    BY <2>1, <2>2
<1>3. QED
  BY <1>1, <1>2, RowsInvariant, HomesInvariant, PTL DEF Spec

\* No home gets past its draft without a photo and none is approved that was not
\* submitted, whatever else is done to it between the awaits of submitListing and
\* reviewListing, by other listing requests, by bookings, or by the worker.
THEOREM ReviewsSeeCompleteHomes == Spec => []ReviewedHomesAreComplete
<1>1. CompleteInv => ReviewedHomesAreComplete
  BY DEF CompleteInv, CompleteHomes, Complete, Reviewed, ReviewedHomesAreComplete
<1>2. QED
  BY <1>1, CompleteInvariant, PTL

-----------------------------------------------------------------------------
(* Homes that were deleted                                                 *)

DeletedHomesAreBare == \A h \in Listings : listing[h] = "DELETED" => ~photo[h]

\* What a step does at most to a home that was deleted.
LEMMA DeletedStep ==
    ASSUME ListingsTypeOK, NEW ref, ListingsStep(ref), NEW h \in Listings,
           listing[h] = "DELETED"
    PROVE  /\ listing'[h] = "DELETED"
           /\ photo'[h] => photo[h]
           /\ content'[h] = content[h]
           /\ audit'[h] = audit[h]
<1> DEFINE P == /\ listing'[h] = "DELETED"
                /\ photo'[h] => photo[h]
                /\ content'[h] = content[h]
                /\ audit'[h] = audit[h]
<1> USE DEF ListingsTypeOK
<1>0. ~HasRow(h)
  BY DEF HasRow, NoRow
<1>1. PICK r \in ListingReqs :
          \/ \E l \in Listings : ListingCallStarts(r, l)
          \/ ListingCallGoesOn(r, ref)
          \/ ListingCallFails(r)
  BY DEF ListingsStep
<1>2. CASE UNCHANGED <<listing, photo, content, audit>>
  BY <1>2
<1>3. ASSUME NEW l \in Listings, CreateListing(r, l) PROVE P
  BY <1>3 DEF CreateListing
<1>4. CASE AttachPhoto(r)
  BY <1>0, <1>4 DEF AttachPhoto
<1>5. CASE UpdateWrite(r)
  BY <1>0, <1>5 DEF UpdateWrite
<1>6. CASE SubmitWrite(r)
  BY <1>0, <1>6 DEF SubmitWrite, SetStatusLogged, SetStatus
<1>7. CASE ReviewWrite(r)
  BY <1>0, <1>7 DEF ReviewWrite, SetStatusLogged, SetStatus
<1>8. CASE FlagWrite(r)
  BY <1>0, <1>8 DEF FlagWrite, SetStatus
<1>9. CASE DeleteWrite(r, ref)
  BY <1>0, <1>9 DEF DeleteWrite
<1>10. QED
  BY <1>1, <1>2, <1>3, <1>4, <1>5, <1>6, <1>7, <1>8, <1>9
     DEF ListingCallStarts, UploadPhoto, UpdateRead, SubmitRead, ReviewRead, FlagRead,
         DeleteRead, ListingCallGoesOn, HashPhoto, ListingCallFails

\* A home loses its photos in the step that deletes it.
LEMMA DeletionStep ==
    ASSUME ListingsTypeOK, NEW ref, ListingsStep(ref), NEW h \in Listings,
           listing[h] # "DELETED", listing'[h] = "DELETED"
    PROVE  ~photo'[h]
<1> USE DEF ListingsTypeOK
<1>1. PICK r \in ListingReqs :
          \/ \E l \in Listings : ListingCallStarts(r, l)
          \/ ListingCallGoesOn(r, ref)
          \/ ListingCallFails(r)
  BY DEF ListingsStep
<1>2. CASE DeleteWrite(r, ref)
  BY <1>2 DEF DeleteWrite
<1>3. ~SubmitWrite(r) /\ ~ReviewWrite(r) /\ ~FlagWrite(r)
  BY DEF SubmitWrite, ReviewWrite, FlagWrite, SetStatusLogged, SetStatus
<1>4. ASSUME NEW l \in Listings PROVE ~CreateListing(r, l)
  BY DEF CreateListing
<1>5. QED
  BY <1>1, <1>2, <1>3, <1>4
     DEF ListingCallStarts, UploadPhoto, UpdateRead, SubmitRead, ReviewRead, FlagRead,
         DeleteRead, ListingCallGoesOn, AttachPhoto, HashPhoto, UpdateWrite,
         ListingCallFails

LEMMA DeletedInBookings ==
    ASSUME TypeOK, CallsOnRows, DeletedHomesAreBare, Next, NEW h \in Listings
    PROVE  /\ listing'[h] = "DELETED" => ~photo'[h]
           /\ listing[h] = "DELETED" => /\ listing'[h] = "DELETED"
                                        /\ content'[h] = content[h]
                                        /\ audit'[h] = audit[h]
<1> DEFINE P == /\ listing'[h] = "DELETED" => ~photo'[h]
                /\ listing[h] = "DELETED" => /\ listing'[h] = "DELETED"
                                             /\ content'[h] = content[h]
                                             /\ audit'[h] = audit[h]
<1>1. ListingsTypeOK /\ (listing[h] = "DELETED" => ~photo[h])
  BY DEF TypeOK, DeletedHomesAreBare
<1>2. CASE ListingsStep(Referenced)
  BY <1>1, <1>2, DeletedStep, DeletionStep
<1>3. ASSUME NEW l \in Listings, NEW s \in BookingWrites, SetStatus(l, s),
             UNCHANGED <<photo, content, audit>>
      PROVE  P
  <2>1. s \in ListingStatus /\ s # "DELETED"
    BY DEF BookingWrites, ListingStatus
  <2>2. listing'[h] \in {listing[h], s} /\ (HasRow(h)' <=> HasRow(h))
    BY <1>1, <1>3, <2>1, SetStatusKeepsRows
  <2>3. listing'[h] = "DELETED" <=> listing[h] = "DELETED"
    BY <2>1, <2>2 DEF HasRow, NoRow, ListingStatus
  <2>4. QED
    BY <1>1, <1>3, <2>3
<1>4. CASE UNCHANGED <<listing, photo, content, audit>>
  BY <1>1, <1>4
<1>5. QED
  BY <1>2, <1>3, <1>4, HomesInBookings

\* No method in flight brings back a row that was deleted under it, or leaves it
\* a photo, an edit or an audit row.
THEOREM DeletedHomes == Spec => DeletedHomesStayDeleted
<1>1. Init => DeletedHomesAreBare
  BY DEF Init, ListingsInit, DeletedHomesAreBare
<1>2. TypeOK /\ CallsOnRows /\ DeletedHomesAreBare /\ [Next]_vars =>
          DeletedHomesAreBare'
  BY DeletedInBookings DEF DeletedHomesAreBare, vars, listingVars
<1>3. TypeOK /\ CallsOnRows /\ DeletedHomesAreBare /\ [Next]_vars =>
          [\A l \in Listings : listing[l] = "DELETED" =>
              /\ listing'[l] = "DELETED"
              /\ ~photo'[l]
              /\ content'[l] = content[l]
              /\ audit'[l] = audit[l]]_listingVars
  BY DeletedInBookings DEF vars
<1>4. QED
  BY <1>1, <1>2, <1>3, RowsInvariant, PTL DEF Spec, DeletedHomesStayDeleted
=============================================================================
