---------------------------- MODULE MCTrustScore ----------------------------
(* A small instance of TrustScore for TLC. *)
EXTENDS TrustScore

\* One kind of each type; of the penalties, those whose weight changes most.
SomeKinds == {"identity", "reviewWorst", "ownerCompleted", "studentDisputed", "reporter"}

\* A new user, and a provider whose completed bookings make more than 100.
NewAndOldUsers == {0, 21}
=============================================================================
