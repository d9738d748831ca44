------------------------------ MODULE Listings ------------------------------
(***************************************************************************)
(* The life of a listing ("home"): modules/listings/listings.service.ts    *)
(* and the flag endpoint of modules/admin/admin.service.ts.                *)
(*                                                                         *)
(* Every service method awaits the database at least twice: it reads the   *)
(* row, decides, and writes.  Node interleaves other requests at each      *)
(* await and Postgres (READ COMMITTED, no row lock taken by a plain read)  *)
(* protects nothing in between, so a method is one action per await, tied  *)
(* together by the record listingCall[r] of the request r that runs it.    *)
(* A request whose check fails answers an error and changes nothing: it is *)
(* a stuttering step and has no action.                                    *)
(*                                                                         *)
(* The caller is always somebody the controller admits: the owner for the  *)
(* owner's endpoints, an administrator for review and flag.                *)
(***************************************************************************)
EXTENDS Naturals

CONSTANTS
    Listings,      \* ids of listing rows
    ListingReqs,   \* requests to the listing endpoints that may be in flight
    Ops,           \* the operations the run lets callers start
    Faults,        \* the faults that may happen: "crash", "dbError"
    MaxEdits,      \* bound on how often a home is edited
    Null

ASSUME NullAssumption == Null \notin Listings
ASSUME MaxEditsAssumption == MaxEdits \in Nat

VARIABLES
    listing,       \* listing[l]: the status column, or no row
    photo,         \* photo[l]: the listing has at least one photo row
    content,       \* content[l]: version of the text, price and place shown
    audit,         \* audit[l]: the kinds of audit_logs rows written for l
    hashJobs,      \* listings with a photo in the image-hash queue
    listingCall    \* listingCall[r]: where the request r stands

listingVars == <<listing, photo, content, audit, hashJobs, listingCall>>

ListingStatus == {"DRAFT", "SUBMITTED", "UNDER_REVIEW", "VERIFIED", "REJECTED",
                  "ACTIVE", "INACTIVE", "SOLD", "FLAGGED"}

\* An id that was never used, and one whose row was deleted, have no row.
NoRow == {"ABSENT", "DELETED"}

AuditAction == {"LISTING_SUBMITTED", "LISTING_VERIFIED", "LISTING_REJECTED"}

\* What a request in flight does at its next await.
ListingPc == {"attachPhoto", "hashPhoto", "submit", "approve",
              "reject", "update", "flag", "delete"}

\* A request: its next await, its listing.
ListingRequest == [pc : ListingPc, listing : Listings]

IdleListingCall == [pc |-> "idle", listing |-> Null]

HasRow(l) == listing[l] \notin NoRow

ListingsTypeOK ==
    /\ listing \in [Listings -> ListingStatus \cup NoRow]
    /\ photo \in [Listings -> BOOLEAN]
    /\ content \in [Listings -> 0..MaxEdits]
    /\ audit \in [Listings -> SUBSET AuditAction]
    /\ hashJobs \subseteq Listings
    /\ listingCall \in [ListingReqs -> ListingRequest \cup {IdleListingCall}]

ListingsInit ==
    /\ listing = [l \in Listings |-> "ABSENT"]
    /\ photo = [l \in Listings |-> FALSE]
    /\ content = [l \in Listings |-> 0]
    /\ audit = [l \in Listings |-> {}]
    /\ hashJobs = {}
    /\ listingCall = [r \in ListingReqs |-> IdleListingCall]

-----------------------------------------------------------------------------
(* The two halves every method is made of.                                 *)

\* The first await of method op on l is over; the next one is pc.
Proceed(r, op, l, pc) ==
    /\ op \in Ops
    /\ listingCall[r].pc = "idle"
    /\ listingCall' = [listingCall EXCEPT ![r] = [pc |-> pc, listing |-> l]]

\* r is at pc; it answers after this step.
Answer(r, pc) ==
    /\ listingCall[r].pc = pc
    /\ listingCall' = [listingCall EXCEPT ![r] = IdleListingCall]

\* Fault: an upsert, which brings back a row that is gone.
SetStatusUpserts(l, status) == listing' = [listing EXCEPT ![l] = status]

\* prisma.listing.update by id: rejects when the row is gone (P2025).
SetStatus(l, status) ==
    listing' = IF HasRow(l) THEN [listing EXCEPT ![l] = status] ELSE listing

\* The same update with an audit_logs row, in one transaction.
SetStatusLogged(l, status, action) ==
    /\ SetStatus(l, status)
    /\ audit' = IF HasRow(l) THEN [audit EXCEPT ![l] = @ \cup {action}] ELSE audit

-----------------------------------------------------------------------------
(* createListing, uploadPhoto, updateListing                               *)

\* The row is created as a DRAFT.  requireVerifiedPage has let the owner
\* through; the one caller, the controller, hands over no photos.
CreateListing(r, l) ==
    /\ "createListing" \in Ops
    /\ listingCall[r].pc = "idle"
    /\ listing[l] = "ABSENT"
    /\ listing' = [listing EXCEPT ![l] = "DRAFT"]
    /\ UNCHANGED <<photo, content, audit, hashJobs, listingCall>>

UploadPhoto(r, l) ==
    /\ HasRow(l)
    /\ Proceed(r, "uploadPhoto", l, "attachPhoto")
    /\ UNCHANGED <<listing, photo, content, audit, hashJobs>>

\* listingPhoto.create: the foreign key rejects it once the row is gone.  A
\* photo given as a URL only has no hash and is not queued.
AttachPhoto(r) ==
    LET l == listingCall[r].listing IN
    /\ listingCall[r].pc = "attachPhoto"
    /\ \/ /\ ~HasRow(l)
          /\ UNCHANGED photo
          /\ listingCall' = [listingCall EXCEPT ![r] = IdleListingCall]
       \/ /\ HasRow(l)
          /\ photo' = [photo EXCEPT ![l] = TRUE]
          /\ \E next \in {IdleListingCall, [listingCall[r] EXCEPT !.pc = "hashPhoto"]} :
                listingCall' = [listingCall EXCEPT ![r] = next]
    /\ UNCHANGED <<listing, content, audit, hashJobs>>

\* Fault: the job is built from the request after it was answered.
HashPhotoLate(r) ==
    /\ Answer(r, "hashPhoto")
    /\ hashJobs' = hashJobs \cup {listingCall'[r].listing}
    /\ UNCHANGED <<listing, photo, content, audit>>

HashPhoto(r) ==
    /\ Answer(r, "hashPhoto")
    /\ hashJobs' = hashJobs \cup {listingCall[r].listing}
    /\ UNCHANGED <<listing, photo, content, audit>>

\* The owner may edit the home whatever its status.
UpdateRead(r, l) ==
    /\ HasRow(l)
    /\ Proceed(r, "updateListing", l, "update")
    /\ UNCHANGED <<listing, photo, content, audit, hashJobs>>

UpdateWrite(r) ==
    LET l == listingCall[r].listing IN
    /\ Answer(r, "update")
    /\ content' = [content EXCEPT ![l] = IF HasRow(l) /\ @ < MaxEdits THEN @ + 1 ELSE @]
    /\ UNCHANGED <<listing, photo, audit, hashJobs>>

-----------------------------------------------------------------------------
(* submitListing, reviewListing, flagListing, deleteListing                *)

\* Fault: the photos are not counted.
SubmitReadUncounted(r, l) ==
    /\ listing[l] \in {"DRAFT", "REJECTED"}
    /\ Proceed(r, "submitListing", l, "submit")
    /\ UNCHANGED <<listing, photo, content, audit, hashJobs>>

SubmitRead(r, l) ==
    /\ listing[l] \in {"DRAFT", "REJECTED"}
    /\ photo[l]
    /\ Proceed(r, "submitListing", l, "submit")
    /\ UNCHANGED <<listing, photo, content, audit, hashJobs>>

SubmitWrite(r) ==
    /\ Answer(r, "submit")
    /\ SetStatusLogged(listingCall[r].listing, "SUBMITTED", "LISTING_SUBMITTED")
    /\ UNCHANGED <<photo, content, hashJobs>>

\* Fault: the status is not looked at.
ReviewReadAnyStatus(r, l, verdict) ==
    /\ HasRow(l)
    /\ Proceed(r, "reviewListing", l, verdict)
    /\ UNCHANGED <<listing, photo, content, audit, hashJobs>>

ReviewRead(r, l, verdict) ==
    /\ listing[l] \in {"SUBMITTED", "UNDER_REVIEW"}
    /\ Proceed(r, "reviewListing", l, verdict)
    /\ UNCHANGED <<listing, photo, content, audit, hashJobs>>

\* The verdict is written over whatever the row holds by now.
ReviewWrite(r) ==
    LET l == listingCall[r].listing IN
    /\ \/ /\ Answer(r, "approve")
          /\ SetStatusLogged(l, "VERIFIED", "LISTING_VERIFIED")
       \/ /\ Answer(r, "reject")
          /\ SetStatusLogged(l, "REJECTED", "LISTING_REJECTED")
    /\ UNCHANGED <<photo, content, hashJobs>>

\* The flag endpoint looks only at the existence of the row.
FlagRead(r, l) ==
    /\ HasRow(l)
    /\ Proceed(r, "flagListing", l, "flag")
    /\ UNCHANGED <<listing, photo, content, audit, hashJobs>>

FlagWrite(r) ==
    /\ Answer(r, "flag")
    /\ SetStatus(listingCall[r].listing, "FLAGGED")
    /\ UNCHANGED <<photo, content, audit, hashJobs>>

DeleteRead(r, l) ==
    /\ HasRow(l)
    /\ Proceed(r, "deleteListing", l, "delete")
    /\ UNCHANGED <<listing, photo, content, audit, hashJobs>>

\* A booking row that refers to the listing makes the database reject the
\* delete (ON DELETE RESTRICT); photos are deleted with it (CASCADE).
DeleteWrite(r, referenced) ==
    LET l == listingCall[r].listing
        gone == HasRow(l) /\ l \notin referenced
    IN  /\ Answer(r, "delete")
        /\ listing' = [listing EXCEPT ![l] = IF gone THEN "DELETED" ELSE @]
        /\ photo' = [photo EXCEPT ![l] = @ /\ ~gone]
        /\ UNCHANGED <<content, audit, hashJobs>>

\* A rejected await (database or Redis unreachable): the method stops there.
ListingCallFails(r) ==
    /\ "dbError" \in Faults
    /\ listingCall[r].pc # "idle"
    /\ listingCall' = [listingCall EXCEPT ![r] = IdleListingCall]
    /\ UNCHANGED <<listing, photo, content, audit, hashJobs>>

-----------------------------------------------------------------------------
ListingCallStarts(r, l) ==
    \/ CreateListing(r, l)
    \/ UploadPhoto(r, l)
    \/ UpdateRead(r, l)
    \/ SubmitRead(r, l)
    \/ ReviewRead(r, l, "approve")
    \/ ReviewRead(r, l, "reject")
    \/ FlagRead(r, l)
    \/ DeleteRead(r, l)

ListingCallGoesOn(r, referenced) ==
    \/ AttachPhoto(r)
    \/ HashPhoto(r)
    \/ UpdateWrite(r)
    \/ SubmitWrite(r)
    \/ ReviewWrite(r)
    \/ FlagWrite(r)
    \/ DeleteWrite(r, referenced)

\* One step of the listing endpoints, in a database where the rows of the
\* listings in referenced are referred to by bookings.
ListingsStep(referenced) ==
    \E r \in ListingReqs :
        \/ \E l \in Listings : ListingCallStarts(r, l)
        \/ ListingCallGoesOn(r, referenced)
        \/ ListingCallFails(r)

-----------------------------------------------------------------------------
(* Properties                                                              *)

\* No home gets past its draft without a photo, and none is approved that
\* was not submitted: submitListing counts the photos it read earlier, and
\* an upload, a delete or another submit may come between its two awaits.
ReviewedHomesAreComplete ==
    \A l \in Listings :
        HasRow(l) =>
            /\ listing[l] \in {"SUBMITTED", "VERIFIED", "REJECTED"} => photo[l]
            /\ "LISTING_VERIFIED" \in audit[l] =>
                   photo[l] /\ "LISTING_SUBMITTED" \in audit[l]

\* A row that was deleted under a method in flight is not brought back by
\* that method, and gets no photo, no edit and no audit row.
DeletedHomesStayDeleted ==
    [][\A l \in Listings : listing[l] = "DELETED" =>
          /\ listing'[l] = "DELETED"
          /\ ~photo'[l]
          /\ content'[l] = content[l]
          /\ audit'[l] = audit[l]]_listingVars
=============================================================================
