------------------------- MODULE BookingsRefinement -------------------------
(***************************************************************************)
(* Bookings implements RoomLock while requests about one home do not       *)
(* overlap.  Its holder is its HELD or BOOKED booking; the home is on the  *)
(* market when its listing is VERIFIED, the one status searchListings and  *)
(* createBooking accept.  INACTIVE, SOLD, ACTIVE and FLAGGED are all off   *)
(* the market.                                                             *)
(***************************************************************************)
EXTENDS Bookings

ActiveOn(l) == {b \in Bookings : booking[b].listing = l /\ booking[b].status \in Active}

HolderOf(l) ==
    LET active == ActiveOn(l)
    IN  IF active = {} THEN Null ELSE CHOOSE b \in active : TRUE

Room == INSTANCE RoomLock WITH
            Homes <- Listings,
            Tickets <- Bookings,
            Nobody <- Null,
            holder <- [l \in Listings |-> HolderOf(l)],
            onMarket <- [l \in Listings |-> listing[l] = "VERIFIED"]

\* README.md of the backend, lines 75-77, as a refinement: whatever createBooking,
\* confirmBooking, cancelBooking and the expiry worker do to a home's bookings
\* and its status is a step of a lock that one student at a time can have.
ImplementsRoomLock == Room!RoomSpec
=============================================================================
