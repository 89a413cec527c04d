------------------------------ MODULE MCBooking ------------------------------
(* The booking service for TLC: the seats of one event, on sale from the      *)
(* start, at one price.                                                       *)
EXTENDS Booking, TLC

CONSTANTS u1, u2, e1

MCEventOf == [t \in Tickets |-> e1]
MCPrice == [t \in Tickets |-> 1]
MCOnsaleAt == [e \in Events |-> 0]

\* u1 alone buys; u2 competes for the seats.
OneBuyer == [u \in Users |-> IF u = u1 THEN Keys ELSE {}]

\* Both clients happen to choose the same keys.
SharedKeys == [u \in Users |-> Keys]

Symmetry ==
    Permutations(Tickets) \cup Permutations(HoldIds) \cup Permutations(Keys)
        \cup Permutations(Callers)
=============================================================================
