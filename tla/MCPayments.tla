----------------------------- MODULE MCPayments -----------------------------
(* The payments service for TLC: one ticket makes two amounts, 0 and 1.       *)
EXTENDS PaymentsCalls, TLC

CONSTANTS t1, e1

MCEventOf == [t \in Tickets |-> e1]
MCPrice == [t \in Tickets |-> 1]
MCOnsaleAt == [e \in Events |-> 0]

Symmetry == Permutations(Users) \cup Permutations(Keys) \cup Permutations(Callers)
=============================================================================
