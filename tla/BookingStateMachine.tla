------------------------- MODULE BookingStateMachine -------------------------
(***************************************************************************)
(* domain/booking/booking-state-machine.ts: the table of legal booking     *)
(* transitions, which every booking service consults before it writes.     *)
(* The services take only this verdict from applyTransition; what they     *)
(* write to the row they spell out themselves.                             *)
(***************************************************************************)

Status == {"AVAILABLE", "HELD", "BOOKED", "COMPLETED", "DISPUTED", "CANCELLED"}

\* TRANSITIONS: the statuses the handlers of each status lead to.
TRANSITIONS ==
    [AVAILABLE |-> {"HELD"},
     HELD      |-> {"BOOKED", "AVAILABLE", "CANCELLED"},
     BOOKED    |-> {"COMPLETED", "DISPUTED", "CANCELLED"},
     COMPLETED |-> {},
     DISPUTED  |-> {"COMPLETED", "CANCELLED"},
     CANCELLED |-> {}]

\* canTransition and getAllowedTransitions; applyTransition throws an
\* IllegalStateTransitionError exactly when this is FALSE.
CanTransition(current, target) == target \in TRANSITIONS[current]
=============================================================================
