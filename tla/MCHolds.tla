------------------------------- MODULE MCHolds -------------------------------
(* Holds for TLC: the seats of one event, on sale from the start.  The cfg     *)
(* files choose how many users, calls and sweeps compete for them.             *)
EXTENDS Holds, TLC

CONSTANTS u1, u2, t1, t2, h1, h2, e1

MCEventOf == [t \in Tickets |-> e1]
MCPrice == [t \in Tickets |-> 1]
MCOnsaleAt == [e \in Events |-> 0]

Symmetry ==
    Permutations(Users) \cup Permutations(Tickets) \cup Permutations(HoldIds)
        \cup Permutations(Claimers)
=============================================================================
