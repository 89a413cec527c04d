------------------------------- MODULE Schema -------------------------------
(***************************************************************************)
(* The rows the booking and payments services share in one Postgres       *)
(* database (store/migrations), and the sets their columns range over.     *)
(*                                                                         *)
(* A table is a function from its key to a row; a row that has not been    *)
(* inserted has status (or state) "NONE".  Identifiers that the code draws *)
(* at random are replaced by what identifies the row through a UNIQUE      *)
(* index: a booking is the pair <<user, idempotency key>>, a payment is    *)
(* its idempotency key.                                                    *)
(***************************************************************************)
EXTENDS Integers, FiniteSets, FiniteSetsExt

CONSTANTS
    Users,      \* callers with a verified identity
    Events,     \* published events
    Tickets,    \* inventory rows, one per (event, seat)
    HoldIds,    \* hold_id values (uuid.New)
    HoldKeys,   \* Idempotency-Key values of hold requests
    Keys,       \* Idempotency-Key values of purchase requests
    Null,       \* SQL NULL
    EventOf,    \* tickets.event_id
    Price,      \* price_tiers.price_cents of a ticket's tier
    OnsaleAt    \* events.onsale_at

ASSUME SchemaAssumption ==
    /\ IsFiniteSet(Tickets) /\ IsFiniteSet(HoldIds)
    /\ Null \notin HoldIds /\ Null \notin Users /\ Null \notin HoldKeys
    /\ Null \notin Keys /\ Null \notin Users \X Keys /\ HoldIds \cap (Users \X Keys) = {}
    /\ EventOf \in [Tickets -> Events]
    /\ Price \in [Tickets -> Nat]
    /\ OnsaleAt \in [Events -> Nat]

BookingIds == Users \X Keys

\* The price of a set of tickets, as a lease adds it up.
TotalCents(S) == MapThenSumSet(LAMBDA t : Price[t], S)

Amounts == {TotalCents(S) : S \in SUBSET Tickets}

-----------------------------------------------------------------------------
\* tickets: the contested resource and its CHECK constraints.
TicketColumns ==
    [status  : {"AVAILABLE", "HELD", "SOLD"},
     hold    : HoldIds \cup {Null},
     expires : Nat \cup {Null},
     booking : BookingIds \cup {Null}]

TicketChecks(row) ==
    /\ row.status = "HELD" => row.hold \in HoldIds /\ row.expires \in Nat
    /\ row.status = "SOLD" => row.booking \in BookingIds
    /\ row.status = "AVAILABLE" =>
           row.hold = Null /\ row.expires = Null /\ row.booking = Null

AvailableTicket ==
    [status |-> "AVAILABLE", hold |-> Null, expires |-> Null, booking |-> Null]

\* holds: `seats' is a history field, the tickets the hold was granted.
HoldColumns ==
    [status  : {"NONE", "ACTIVE", "CONVERTED", "EXPIRED", "RELEASED"},
     user    : Users \cup {Null},
     expires : Nat,
     key     : HoldKeys \cup {Null},
     seats   : SUBSET Tickets]

NoHold == [status |-> "NONE", user |-> Null, expires |-> 0, key |-> Null, seats |-> {}]

\* bookings, keyed by the unique index on (user_id, idempotency_key).
BookingColumns ==
    [status : {"NONE", "CONFIRMED", "FAILED", "COMPENSATING", "COMPENSATED"},
     hold   : HoldIds \cup {Null},
     total  : Amounts \cup {Null}]

NoBooking == [status |-> "NONE", hold |-> Null, total |-> Null]

\* payments, keyed by the UNIQUE idempotency_key; refunded is refunded_at IS NOT NULL.
PaymentColumns ==
    [state    : {"NONE", "IN_PROGRESS", "COMPLETED", "FAILED"},
     user     : Users \cup {Null},
     amount   : Amounts \cup {Null},
     refunded : BOOLEAN]

NoPayment == [state |-> "NONE", user |-> Null, amount |-> Null, refunded |-> FALSE]
=============================================================================
