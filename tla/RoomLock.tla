------------------------------ MODULE RoomLock ------------------------------
(***************************************************************************)
(* What booking a home promises, without bookings, requests, queues or     *)
(* clocks: a home is on the market or not, and at most one student has it. *)
(* Bookings implements this while the requests about one home run one at a *)
(* time (module BookingsRefinement).                                       *)
(***************************************************************************)
CONSTANTS Homes, Tickets, Nobody

VARIABLES
    holder,      \* holder[h]: the ticket of the student who has the home
    onMarket     \* onMarket[h]: students can find the home and ask for it

roomVars == <<holder, onMarket>>

RoomInit ==
    /\ holder = [h \in Homes |-> Nobody]
    /\ onMarket \in [Homes -> BOOLEAN]

\* A student gets a home that is on the market and free, and it leaves the
\* market in the same step.
Take(h, t) ==
    /\ holder[h] = Nobody
    /\ onMarket[h]
    /\ holder' = [holder EXCEPT ![h] = t]
    /\ onMarket' = [onMarket EXCEPT ![h] = FALSE]

\* A student who was late gets the home back: nobody could have asked for it,
\* because it did not return to the market.
Reclaim(h, t) ==
    /\ holder[h] = Nobody
    /\ ~onMarket[h]
    /\ holder' = [holder EXCEPT ![h] = t]
    /\ UNCHANGED onMarket

\* The student gives the home up or loses it, or moved in.
Leave(h) ==
    /\ holder[h] # Nobody
    /\ holder' = [holder EXCEPT ![h] = Nobody]
    /\ \E again \in BOOLEAN : onMarket' = [onMarket EXCEPT ![h] = again]

Publish(h) ==
    /\ holder[h] = Nobody
    /\ onMarket' = [onMarket EXCEPT ![h] = TRUE]
    /\ UNCHANGED holder

Withdraw(h) ==
    /\ onMarket' = [onMarket EXCEPT ![h] = FALSE]
    /\ UNCHANGED holder

RoomNext ==
    \E h \in Homes :
        \/ Withdraw(h)
        \/ Publish(h)
        \/ Leave(h)
        \/ \E t \in Tickets : Take(h, t) \/ Reclaim(h, t)

RoomSpec == RoomInit /\ [][RoomNext]_roomVars
=============================================================================
