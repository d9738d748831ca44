----------------------------- MODULE MCBookings -----------------------------
(* Small instances of Bookings for TLC. *)
EXTENDS BookingsRefinement, TLC

CONSTANTS l1, l2, m1, m2, b1, b2, r1, r2

NoModerator == {}
OneListing == {l1}
TwoListings == {l1, l2}
OneModerator == {m1}
TwoModerators == {m1, m2}
OneBooking == {b1}
TwoBookings == {b1, b2}
OneRequest == {r1}
TwoRequests == {r1, r2}

\* A home gets on the market and nothing else happens to it.
PublishOps == {"createListing", "uploadPhoto", "submitListing", "reviewListing"}
\* The endpoints; releaseHold has no caller in the repository.
BookingOps == {"createBooking", "confirmBooking", "cancelBooking",
               "completeBooking", "disputeBooking", "expireHold"}

FlagAndBook == BookingOps \cup {"flagListing", "deleteListing"}
EveryBookingOp == FlagAndBook \cup {"releaseHold"}
EveryListingOpAndBook == PublishOps \cup FlagAndBook \cup {"updateListing"}

NoFaults == {}
AllFaults == {"crash", "dbError"}

Symmetry ==
    Permutations(TwoModerators) \cup Permutations(TwoRequests) \cup Permutations(TwoBookings)

\* The market after the homes in S were created, given a photo, submitted and
\* approved: a reachable state of Spec, from which the runs that are about
\* bookings alone start.
Market(S) ==
    /\ BookingsInit
    /\ listing = [l \in Listings |-> IF l \in S THEN "VERIFIED" ELSE "ABSENT"]
    /\ photo = [l \in Listings |-> l \in S]
    /\ content = [l \in Listings |-> 0]
    /\ audit = [l \in Listings |->
                   IF l \in S THEN {"LISTING_SUBMITTED", "LISTING_VERIFIED"} ELSE {}]
    /\ hashJobs = {}
    /\ listingCall = [r \in ListingReqs |-> IdleListingCall]

MarketSpec == Market(Listings) /\ [][Next]_vars

\* One home on the market, or both.
MarketsSpec == (Market(OneListing) \/ Market(Listings)) /\ [][Next]_vars

\* Bound: faults and administrators come to a market of one home only; on two
\* homes it is the requests about the one and the other that overlap.
Small ==
    (\A l \in Listings : listing[l] # "ABSENT") =>
        \/ \E r \in BookingReqs : BookingCallStarts(r) \/ BookingCallGoesOn(r)
        \/ ExpiryStep
        \/ Tick

\* The steps of SerialSpec among them.
SmallAndSerial == OneAtATimePerHome' /\ Small
=============================================================================
