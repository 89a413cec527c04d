--------------------------- MODULE TicketInventory ---------------------------
(***************************************************************************)
(* What the booking service promises about inventory, without its tables,  *)
(* requests, sweeps or payments: a ticket has at most one owner, a lease   *)
(* is broken by nobody but its holder while it runs, seats are claimed and *)
(* sold all or nothing, and a sold ticket is never released.               *)
(***************************************************************************)
EXTENDS Naturals

CONSTANTS
    Tickets, Leases, Sales, Nobody,
    Times       \* the expiry times a lease may be given

VARIABLES
    owner,  \* owner[t]: the lease or the sale that has the ticket, or Nobody
    until,  \* until[t]: when the lease on t lapses; 0 without a lease
    now

InventoryInit ==
    /\ owner = [t \in Tickets |-> Nobody]
    /\ until = [t \in Tickets |-> 0]
    /\ now = 0

Leased(l) == {t \in Tickets : owner[t] = l}

Assign(S, who) ==
    /\ owner' = [t \in Tickets |-> IF t \in S THEN who ELSE owner[t]]
    /\ UNCHANGED now

Until(S, time) == until' = [t \in Tickets |-> IF t \in S THEN time ELSE until[t]]

RunOut(t) == owner[t] \in Leases /\ until[t] <= now

\* A fresh lease takes tickets nobody has and tickets whose lease has run out.
Lease(l, S) ==
    /\ Leased(l) = {}
    /\ \A t \in S : owner[t] = Nobody \/ RunOut(t)
    /\ Assign(S, l)
    /\ \E time \in Times : Until(S, time)

\* The holder lengthens its lease on everything it still has.
Extend(l) ==
    /\ UNCHANGED <<owner, now>>
    /\ \E time \in Times :
           /\ \A t \in Leased(l) : until[t] <= time
           /\ Until(Leased(l), time)

\* The holder gives everything back.
GiveBack(l) == Assign(Leased(l), Nobody) /\ Until(Leased(l), 0)

\* Tickets whose lease has run out go back.
Reclaim(S) ==
    /\ \A t \in S : RunOut(t)
    /\ Assign(S, Nobody)
    /\ Until(S, 0)

\* A lease is sold whole, to a sale that had no ticket before.
Sell(l, s) ==
    /\ Leased(l) # {} /\ Leased(s) = {}
    /\ Assign(Leased(l), s)
    /\ Until(Leased(l), 0)

PassTime == now' = now + 1 /\ UNCHANGED <<owner, until>>

InventoryNext ==
    \/ PassTime
    \/ \E l \in Leases :
           \/ \E S \in SUBSET Tickets : Lease(l, S)
           \/ Extend(l)
           \/ GiveBack(l)
           \/ \E s \in Sales : Sell(l, s)
    \/ \E S \in SUBSET Tickets : Reclaim(S)

InventorySpec == InventoryInit /\ [][InventoryNext]_<<owner, until, now>>
=============================================================================
