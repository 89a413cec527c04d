------------------------------- MODULE Booking -------------------------------
(***************************************************************************)
(* The booking service: holds and the reaper (Holds), and the purchase     *)
(* saga (booking/purchase.go) over the payments service (Payments).        *)
(*                                                                         *)
(* A purchase is served by one of Callers and runs                         *)
(*                                                                         *)
(*   prepare -> charge -> charging -> (booking row) [-> compensate         *)
(*           -> refund -> refunding -> booking row COMPENSATED]            *)
(*                                                                         *)
(* prepareLease, convertToSold and recordDeclined are one transaction      *)
(* each; the charge and the refund run outside any transaction.  The       *)
(* caller can die between any two of these steps, and nothing in the       *)
(* program resumes it: only the client may ask again.                      *)
(***************************************************************************)
EXTENDS Holds, Payments

CONSTANTS
    PaymentBudget,
    KeysOf      \* KeysOf[u]: the purchase keys user u's client may send

ASSUME BookingAssumption ==
    /\ PaymentBudget \in Nat \ {0}
    /\ KeysOf \in [Users -> SUBSET Keys]

VARIABLES
    bookings,   \* table bookings
    outbox,     \* table outbox: the bookings announced as booking.confirmed
    buy         \* buy[b]: local state of the purchase call b serves

bookingVars == <<bookings, outbox, buy>>

vars == <<holdVars, payVars, bookingVars>>

\* `lease' is the lease struct: the priced seats and their total.
IdleBuy ==
    [pc |-> "idle", user |-> Null, hold |-> Null, token |-> Null, key |-> Null,
     now |-> 0, seats |-> {}, total |-> Null]

BookingOf(b) == <<buy[b].user, buy[b].key>>

\* The call answers its client (or dies) and leaves no local state.
EndPurchase(b) ==
    /\ buy' = [buy EXCEPT ![b] = IdleBuy]
    /\ pay' = [pay EXCEPT ![b] = IdleCall]
    /\ UNCHANGED <<payments, provider>>

InsertBooking(b, status) ==
    bookings' = [bookings EXCEPT ![BookingOf(b)] =
        [status |-> status, hold |-> buy[b].hold, total |-> buy[b].total]]

\* The unique index on (user_id, idempotency_key) rejects an insert: the call
\* returns the booking that is there.
BookingExists(b) == bookings[BookingOf(b)].status # "NONE"

-----------------------------------------------------------------------------
\* A key that already names a booking returns it; prepareLease then reads the clock.
Purchase(b, u, h, tok, k) ==
    /\ buy[b].pc = "idle"
    /\ clock <= LastCall
    /\ holds[h].status # "NONE"
    /\ bookings[<<u, k>>].status = "NONE"
    /\ buy' = [buy EXCEPT ![b] =
           [pc |-> "prepare", user |-> u, hold |-> h, token |-> tok, key |-> k,
            now |-> clock, seats |-> {}, total |-> Null]]
    /\ UNCHANGED <<holdVars, payVars, bookings, outbox>>

\* Owner, fence token (a hold's token is as unique as its id, and stands for it
\* here), status, expiry by the captured time, and at least one seat left.
LeaseValid(b) ==
    LET h == buy[b].hold IN
    /\ holds[h].user = buy[b].user
    /\ buy[b].token = h
    /\ holds[h].status = "ACTIVE"
    /\ holds[h].expires > buy[b].now
    /\ HeldBy(h) # {}

\* Mutation: D9 is not applied.
NeverExtend(b) == FALSE

\* D9: less than PaymentBudget of the lease is left.
NeedsExtension(b) == holds[buy[b].hold].expires - buy[b].now < PaymentBudget

ExtendTickets(h, newExpiry) ==
    tickets' = [t \in Tickets |->
        IF t \in HeldBy(h) THEN [tickets[t] EXCEPT !.expires = newExpiry] ELSE tickets[t]]

\* Mutation: the hold keeps its old expiry.
ExtendTicketsOnly(h, newExpiry) == ExtendTickets(h, newExpiry) /\ UNCHANGED holds

\* Both tables get the new expiry.
ExtendLease(h, newExpiry) ==
    /\ ExtendTickets(h, newExpiry)
    /\ holds' = [holds EXCEPT ![h].expires = newExpiry]

\* Price the seats still held, and extend the lease when the payment might outlive it.
\* A seat a sweep takes in between aborts the transaction: PurchaseFails.
PrepareLease(b) ==
    LET seats == HeldBy(buy[b].hold) IN
    /\ buy[b].pc = "prepare"
    /\ LeaseValid(b)
    /\ IF NeedsExtension(b) THEN ExtendLease(buy[b].hold, buy[b].now + PaymentBudget)
                            ELSE UNCHANGED <<tickets, holds>>
    /\ buy' = [buy EXCEPT ![b].pc = "charge", ![b].seats = seats, ![b].total = TotalCents(seats)]
    /\ UNCHANGED <<clock, claim, sweep, payVars, bookings, outbox>>

PrepareRejected(b) ==
    /\ buy[b].pc = "prepare"
    /\ ~LeaseValid(b)
    /\ EndPurchase(b)
    /\ UNCHANGED <<holdVars, bookings, outbox>>

StartCharge(b) ==
    /\ buy[b].pc = "charge"
    /\ Charge(b, buy[b].key, buy[b].user, buy[b].total)
    /\ buy' = [buy EXCEPT ![b].pc = "charging"]
    /\ UNCHANGED <<holdVars, bookings, outbox>>

\* Mutation: an error is taken for an approval.
ChargeReturnedOrError(b, res) ==
    /\ buy[b].pc = "charging" /\ pay[b].pc = "returned"
    /\ pay[b].result = res \/ (pay[b].result = "error" /\ res = "COMPLETED")

ChargeReturned(b, res) ==
    buy[b].pc = "charging" /\ pay[b].pc = "returned" /\ pay[b].result = res

\* Ambiguous or unavailable: the hold is left alone.
ChargeError(b) ==
    /\ ChargeReturned(b, "error")
    /\ EndPurchase(b)
    /\ UNCHANGED <<holdVars, bookings, outbox>>

-----------------------------------------------------------------------------
\* Mutation: the sale is fenced on the status alone.
SeatsNotAvailable(b) == \A t \in buy[b].seats : tickets[t].status # "AVAILABLE"

\* The fence: every priced seat is still HELD by this hold.
SeatsStillOurs(b) == buy[b].seats \subseteq HeldBy(buy[b].hold)

\* Mutation: whatever is left of the hold is sold.
ConvertToSoldSubset(b) ==
    /\ ChargeReturned(b, "COMPLETED")
    /\ ~BookingExists(b)
    /\ InsertBooking(b, "CONFIRMED")
    /\ tickets' = [t \in Tickets |->
           IF t \in buy[b].seats \cap HeldBy(buy[b].hold)
           THEN [status |-> "SOLD", hold |-> Null, expires |-> Null, booking |-> BookingOf(b)]
           ELSE tickets[t]]
    /\ holds' = [holds EXCEPT ![buy[b].hold].status = "CONVERTED"]
    /\ outbox' = outbox \cup {BookingOf(b)}
    /\ EndPurchase(b)
    /\ UNCHANGED <<clock, claim, sweep>>

\* convertToSold commits the booking, the sale, the hold and the outbox row together.
ConvertToSold(b) ==
    /\ ChargeReturned(b, "COMPLETED")
    /\ ~BookingExists(b)
    /\ SeatsStillOurs(b)
    /\ InsertBooking(b, "CONFIRMED")
    /\ tickets' = [t \in Tickets |->
           IF t \in buy[b].seats
           THEN [status |-> "SOLD", hold |-> Null, expires |-> Null, booking |-> BookingOf(b)]
           ELSE tickets[t]]
    /\ holds' = [holds EXCEPT ![buy[b].hold].status = "CONVERTED"]
    /\ outbox' = outbox \cup {BookingOf(b)}
    /\ EndPurchase(b)
    /\ UNCHANGED <<clock, claim, sweep>>

\* A seat is gone: roll back and compensate.
ConvertLost(b) ==
    /\ ChargeReturned(b, "COMPLETED")
    /\ ~BookingExists(b)
    /\ ~SeatsStillOurs(b)
    /\ buy' = [buy EXCEPT ![b].pc = "compensate"]
    /\ pay' = [pay EXCEPT ![b] = IdleCall]
    /\ UNCHANGED <<holdVars, payments, provider, bookings, outbox>>

\* Mutation: the release is not fenced, it frees the seats that were priced.
RecordDeclinedUnfenced(b) ==
    /\ ChargeReturned(b, "FAILED")
    /\ ~BookingExists(b)
    /\ InsertBooking(b, "FAILED")
    /\ tickets' = FreeTickets(buy[b].seats)
    /\ holds' = [holds EXCEPT ![buy[b].hold].status = "RELEASED"]
    /\ EndPurchase(b)
    /\ UNCHANGED <<clock, claim, sweep, outbox>>

\* recordDeclined: a FAILED booking, the seats freed, the hold RELEASED whatever
\* its status was.
RecordDeclined(b) ==
    /\ ChargeReturned(b, "FAILED")
    /\ ~BookingExists(b)
    /\ InsertBooking(b, "FAILED")
    /\ tickets' = FreeTickets(HeldBy(buy[b].hold))
    /\ holds' = [holds EXCEPT ![buy[b].hold].status = "RELEASED"]
    /\ EndPurchase(b)
    /\ UNCHANGED <<clock, claim, sweep, outbox>>

\* Mutation: the refund comes first.
CompensateUnrecorded(b) ==
    /\ buy[b].pc = "compensate"
    /\ ~BookingExists(b)
    /\ buy' = [buy EXCEPT ![b].pc = "refund"]
    /\ UNCHANGED <<holdVars, payVars, bookings, outbox>>

\* compensate: the obligation is durable before the refund is tried.
Compensate(b) ==
    /\ buy[b].pc = "compensate"
    /\ ~BookingExists(b)
    /\ InsertBooking(b, "COMPENSATING")
    /\ buy' = [buy EXCEPT ![b].pc = "refund"]
    /\ UNCHANGED <<holdVars, payVars, outbox>>

\* Whichever of the three inserts lost the race for the key returns the winner.
ReplayBooking(b) ==
    /\ \/ ChargeReturned(b, "COMPLETED")
       \/ ChargeReturned(b, "FAILED")
       \/ buy[b].pc = "compensate"
    /\ BookingExists(b)
    /\ EndPurchase(b)
    /\ UNCHANGED <<holdVars, bookings, outbox>>

StartRefund(b) ==
    /\ buy[b].pc = "refund"
    /\ Refund(b, buy[b].key)
    /\ buy' = [buy EXCEPT ![b].pc = "refunding"]
    /\ UNCHANGED <<holdVars, bookings, outbox>>

\* UPDATE bookings SET status = 'COMPENSATED'; a failed refund leaves COMPENSATING.
RefundReturned(b) ==
    /\ buy[b].pc = "refunding"
    /\ pay[b].pc = "returned"
    /\ IF pay[b].result = "refunded"
       THEN bookings' = [bookings EXCEPT ![BookingOf(b)].status = "COMPENSATED"]
       ELSE UNCHANGED bookings
    /\ EndPurchase(b)
    /\ UNCHANGED <<holdVars, outbox>>

PurchaseFails(b) ==
    /\ buy[b].pc # "idle"
    /\ EndPurchase(b)
    /\ UNCHANGED <<holdVars, bookings, outbox>>

-----------------------------------------------------------------------------
Init ==
    /\ HoldsInit
    /\ PayInit
    /\ bookings = [id \in BookingIds |-> NoBooking]
    /\ outbox = {}
    /\ buy = [b \in Callers |-> IdleBuy]

PurchaseStep(b) ==
    \/ \E u \in Users, h \in HoldIds, tok \in HoldIds : \E k \in KeysOf[u] : Purchase(b, u, h, tok, k)
    \/ PrepareLease(b)
    \/ PrepareRejected(b)
    \/ StartCharge(b)
    \/ PayStep(b) /\ UNCHANGED <<holdVars, bookingVars>>
    \/ ChargeError(b)
    \/ ConvertToSold(b)
    \/ ConvertLost(b)
    \/ RecordDeclined(b)
    \/ Compensate(b)
    \/ ReplayBooking(b)
    \/ StartRefund(b)
    \/ RefundReturned(b)
    \/ PurchaseFails(b)

Next ==
    \/ HoldsNext /\ UNCHANGED <<payVars, bookingVars>>
    \/ \E b \in Callers : PurchaseStep(b)

Spec == Init /\ [][Next]_vars
-----------------------------------------------------------------------------
Purchases ==
    [pc    : {"idle", "prepare", "charge", "charging", "compensate", "refund", "refunding"},
     user  : Users \cup {Null},
     hold  : HoldIds \cup {Null},
     token : HoldIds \cup {Null},
     key   : Keys \cup {Null},
     now   : Nat,
     seats : SUBSET Tickets,
     total : Amounts \cup {Null}]

\* Every table, and every request in flight, has the columns the schema gives it.
TypeOK ==
    /\ HoldTypeOK
    /\ PayTypeOK
    /\ bookings \in [BookingIds -> BookingColumns]
    /\ outbox \in SUBSET BookingIds
    /\ buy \in [Callers -> Purchases]

SoldTo(id) == {t \in Tickets : tickets[t].status = "SOLD" /\ tickets[t].booking = id}

\* "a SOLD ticket is never released" (booking.go:6), nor resold: no step of any
\* request or sweep touches a SOLD row again.
SoldIsFinal ==
    [][\A t \in Tickets : tickets[t].status = "SOLD" => tickets'[t] = tickets[t]]_vars

\* The audit of integrity.go:108-113 on a consistent snapshot, seat by seat: a SOLD
\* ticket belongs to a CONFIRMED booking, and a CONFIRMED booking has been announced,
\* has seats of its own hold, and its total is the price of exactly those seats.
SalesMatchBookings ==
    /\ \A t \in Tickets : tickets[t].status = "SOLD" =>
           bookings[tickets[t].booking].status = "CONFIRMED"
    /\ \A id \in BookingIds : bookings[id].status = "CONFIRMED" =>
           /\ SoldTo(id) # {}
           /\ SoldTo(id) \subseteq holds[bookings[id].hold].seats
           /\ bookings[id].total = TotalCents(SoldTo(id))
           /\ id \in outbox

\* However many purchases race for one hold, at most one of them buys it.
OneSalePerHold ==
    \A i, j \in BookingIds :
        /\ bookings[i].status = "CONFIRMED" /\ bookings[j].status = "CONFIRMED"
        /\ bookings[i].hold = bookings[j].hold
        => i = j

\* A confirmed booking is paid: its payment completed, for its total, and the money
\* has not been given back (purchase.go:104-132).
ConfirmedIsPaid ==
    \A id \in BookingIds : bookings[id].status = "CONFIRMED" =>
        /\ payments[id[2]].state = "COMPLETED"
        /\ payments[id[2]].amount = bookings[id].total
        /\ provider[id[2]].refunds = 0

\* Money goes back at most once, only for a booking that recorded the obligation
\* first, and a booking is COMPENSATED only once it did (purchase.go:419-424).
RefundIsOwed ==
    /\ \A k \in Keys : provider[k].refunds > 0 =>
           /\ provider[k].refunds = 1
           /\ \E u \in Users : bookings[<<u, k>>].status \in {"COMPENSATING", "COMPENSATED"}
    /\ \A id \in BookingIds : bookings[id].status = "COMPENSATED" => payments[id[2]].refunded

\* D9 (purchase.go:18-23): a purchase whose charge ends within PaymentBudget of its
\* start finds its seats, unless its owner released the hold, bought it with another
\* purchase, or had another purchase of it declined.
BudgetProtectsPayment ==
    \A b \in Callers : buy[b].pc = "compensate" =>
        \/ clock >= buy[b].now + PaymentBudget
        \/ holds[buy[b].hold].status \in {"RELEASED", "CONVERTED"}

\* "ACTIVE -> CONVERTED / EXPIRED / RELEASED" (docs/system-design.md:94): these are
\* ends of a hold's life, so a hold that was sold stays CONVERTED.
ConvertedIsFinal ==
    [][\A h \in HoldIds : holds[h].status = "CONVERTED" => holds'[h].status = "CONVERTED"]_vars

\* "IdempotencyKey is derived from the booking attempt" (payments.go:38): the money
\* behind a confirmed booking is its buyer's own.
PayerIsBuyer ==
    \A id \in BookingIds :
        bookings[id].status = "CONFIRMED" => payments[id[2]].user = id[1]

\* "Crash between charge and convert: reconcile job finds IN_PROGRESS payments"
\* (docs/system-design.md:190): money taken for no booking, with no call left that
\* deals with it, is marked IN_PROGRESS.
ChargeIsRecoverable ==
    \A k \in Keys :
        /\ provider[k].result = "approved"
        /\ \A u \in Users : bookings[<<u, k>>].status = "NONE"
        /\ \A b \in Callers : buy[b].key # k
        => payments[k].state = "IN_PROGRESS"

-----------------------------------------------------------------------------
\* Refinement: the tables as an inventory of owned tickets.
Inventory == INSTANCE TicketInventory WITH
    Leases <- HoldIds,
    Sales <- BookingIds,
    Nobody <- Null,
    Times <- 0 .. (MaxTime + HoldTTL + PaymentBudget),
    owner <- [t \in Tickets |->
                 IF tickets[t].status = "HELD" THEN tickets[t].hold ELSE tickets[t].booking],
    until <- [t \in Tickets |-> IF tickets[t].status = "HELD" THEN tickets[t].expires ELSE 0],
    now <- clock

\* Every step of every request, sweep and crash is a step of the inventory the
\* service promises (booking.go:1-10), or leaves it alone.
RefinesInventory == Inventory!InventorySpec
=============================================================================
