---------------------------- MODULE BookingProofs ----------------------------
(***************************************************************************)
(* The booking service, for every number of users, tickets, holds, calls   *)
(* and sweeps.                                                             *)
(*                                                                         *)
(* Its founding promise, that a SOLD ticket is never released              *)
(* (booking.go:6), needs no invariant of the tables: each conditional      *)
(* write carries its own fence, status = 'HELD' or claimable.              *)
(*                                                                         *)
(* The rest is inductive only together (SalesIInv): what a purchase still  *)
(* knows of its hold between pricing and selling (BuyKnows), what a        *)
(* booking row says of the seats it owns (BookingKnows), and the agreement *)
(* of the tables on leases.  From it follow the balance of the books, one  *)
(* sale per hold, and that the tables implement TicketInventory.           *)
(***************************************************************************)
EXTENDS Booking, HoldsProofs, PaymentsProofs

\* The writes of the lease half pass over SOLD rows.
LEMMA HoldsStepSparesSold ==
    ASSUME HoldsNext, NEW t \in Tickets, tickets[t].status = "SOLD"
    PROVE  tickets'[t] = tickets[t]
<1>1. ASSUME NEW c \in Claimers, ClaimStep(c) PROVE tickets'[t] = tickets[t]
  <2>1. ASSUME NEW h \in HoldIds, ClaimSeats(c, h) PROVE tickets'[t] = tickets[t]
    BY <2>1 DEF ClaimSeats, SeatsClaimable, Claimable, Lapsed
  <2> QED
    BY <1>1, <2>1
    DEF ClaimStep, CreateHold, AssertQuota, QuotaRejected, ClaimRejected, ClaimFails
<1>2. ASSUME NEW u \in Users, NEW h \in HoldIds, ReleaseHold(u, h) PROVE tickets'[t] = tickets[t]
  BY <1>2 DEF ReleaseHold, FreeTickets, HeldBy
<1>3. ASSUME NEW r \in Reapers, ReapStep(r) PROVE tickets'[t] = tickets[t]
  BY <1>3 DEF ReapStep, ReapStart, ReapBatch, ReapHolds, ReapFails, FreeTickets, Reapable
<1>4. CASE Tick
  BY <1>4 DEF Tick
<1> QED  BY <1>1, <1>2, <1>3, <1>4 DEF HoldsNext

\* So do the writes of the purchase saga.
LEMMA PurchaseStepSparesSold ==
    ASSUME NEW b \in Callers, PurchaseStep(b), NEW t \in Tickets, tickets[t].status = "SOLD"
    PROVE  tickets'[t] = tickets[t]
<1>1. CASE PrepareLease(b)
  <2>1. CASE ExtendTickets(buy[b].hold, buy[b].now + PaymentBudget)
    BY <2>1 DEF ExtendTickets, HeldBy
  <2>2. CASE UNCHANGED tickets
    BY <2>2
  <2> QED  BY <1>1, <2>1, <2>2 DEF PrepareLease, ExtendLease
<1>2. CASE ConvertToSold(b)
  BY <1>2 DEF ConvertToSold, SeatsStillOurs, HeldBy
<1>3. CASE RecordDeclined(b)
  BY <1>3 DEF RecordDeclined, FreeTickets, HeldBy
<1>4. CASE UNCHANGED holdVars
  BY <1>4 DEF holdVars
<1> QED
  BY <1>1, <1>2, <1>3, <1>4
  DEF PurchaseStep, Purchase, PrepareRejected, StartCharge, ChargeError, ConvertLost, Compensate,
      ReplayBooking, StartRefund, RefundReturned, PurchaseFails

\* A SOLD ticket is never released, resold or otherwise touched again, under every
\* interleaving of claims, releases, sweeps, purchases, refunds and crashes.
THEOREM SoldNeverReleased == Spec => SoldIsFinal
<1>1. ASSUME Next
      PROVE  \A t \in Tickets : tickets[t].status = "SOLD" => tickets'[t] = tickets[t]
  BY <1>1, HoldsStepSparesSold, PurchaseStepSparesSold DEF Next
<1>2. [Next]_vars
        => [\A t \in Tickets : tickets[t].status = "SOLD" => tickets'[t] = tickets[t]]_vars
  BY <1>1
<1> QED  BY <1>2, PTL DEF Spec, SoldIsFinal

-----------------------------------------------------------------------------
\* A purchase that has priced the seats of its hold.
HasPriced(b) == buy[b].pc \in {"charge", "charging", "compensate", "refund", "refunding"}

\* What the request of purchase b names.
BuyTyped(b) ==
    /\ buy[b].pc # "idle" =>
           /\ buy[b].user \in Users
           /\ buy[b].hold \in HoldIds
           /\ buy[b].key \in KeysOf[buy[b].user]
    /\ HasPriced(b) => buy[b].total \in Amounts

TypeIInv ==
    /\ HoldTypeOK
    /\ PayIInv
    /\ bookings \in [BookingIds -> BookingColumns]
    /\ outbox \in SUBSET BookingIds
    /\ buy \in [Callers -> Purchases]
    /\ \A b \in Callers : BuyTyped(b)

LEMMA BookingOfType ==
    ASSUME TypeIInv, NEW b \in Callers, buy[b].pc # "idle"
    PROVE  /\ buy[b].user \in Users /\ buy[b].key \in Keys /\ buy[b].hold \in HoldIds
           /\ BookingOf(b) \in BookingIds
BY BookingAssumption DEF TypeIInv, BuyTyped, BookingOf, BookingIds

\* Where purchase b is when it goes on to another statement.
LEMMA BuyMoves ==
    ASSUME buy \in [Callers -> Purchases], NEW b \in Callers,
           NEW label \in {"charging", "compensate", "refund", "refunding"},
           buy' = [buy EXCEPT ![b].pc = label]
    PROVE  /\ buy' \in [Callers -> Purchases]
           /\ buy'[b] = [buy[b] EXCEPT !.pc = label] /\ buy'[b].pc = label
           /\ buy'[b].user = buy[b].user /\ buy'[b].key = buy[b].key /\ buy'[b].hold = buy[b].hold
           /\ buy'[b].seats = buy[b].seats /\ buy'[b].total = buy[b].total
           /\ buy'[b].now = buy[b].now
           /\ \A c \in Callers \ {b} : buy'[c] = buy[c]
BY DEF Purchases

\* A purchase that has its answer keeps nothing.
LEMMA BuyEnds ==
    ASSUME TypeIInv, NEW b \in Callers, EndPurchase(b)
    PROVE  /\ buy' \in [Callers -> Purchases] /\ buy'[b].pc = "idle"
           /\ \A c \in Callers \ {b} : buy'[c] = buy[c]
           /\ pay'[b].pc = "idle"
           /\ \A c \in Callers \ {b} : pay'[c] = pay[c]
           /\ PayIInv'
<1>1. IdleBuy \in Purchases /\ IdleBuy.pc = "idle" /\ IdleCall.pc = "idle"
  BY DEF IdleBuy, Purchases, IdleCall
<1>2. PayIInv'
  BY IdleIInv DEF EndPurchase, TypeIInv
<1> QED  BY <1>1, <1>2 DEF EndPurchase, TypeIInv, PayIInv, PayTypeOK

\* The seats are priced, and the purchase goes on to the charge.
LEMMA BuyPriced ==
    ASSUME TypeIInv, NEW b \in Callers, PrepareLease(b)
    PROVE  /\ buy' \in [Callers -> Purchases] /\ buy'[b].pc = "charge"
           /\ buy'[b].user = buy[b].user /\ buy'[b].key = buy[b].key /\ buy'[b].hold = buy[b].hold
           /\ buy'[b].now = buy[b].now
           /\ buy'[b].seats = HeldBy(buy[b].hold)
           /\ buy'[b].total = TotalCents(HeldBy(buy[b].hold))
           /\ buy'[b].total \in Amounts
           /\ \A c \in Callers \ {b} : buy'[c] = buy[c]
<1> DEFINE seats == HeldBy(buy[b].hold)
           one == [buy[b] EXCEPT !.pc = "charge"]
           two == [one EXCEPT !.seats = seats]
           three == [two EXCEPT !.total = TotalCents(seats)]
<1>0. buy \in [Callers -> Purchases]
  BY DEF TypeIInv
<1>1. seats \in SUBSET Tickets /\ TotalCents(seats) \in Amounts
  BY DEF HeldBy, Amounts
<1>2. buy' = [buy EXCEPT ![b] = three]
  BY <1>0 DEF PrepareLease
<1> HIDE DEF seats
<1>3. /\ one \in Purchases /\ one.pc = "charge" /\ one.user = buy[b].user
      /\ one.key = buy[b].key /\ one.hold = buy[b].hold /\ one.now = buy[b].now
  BY <1>0 DEF Purchases
<1> HIDE DEF one
<1>4. /\ two \in Purchases /\ two.pc = "charge" /\ two.user = buy[b].user
      /\ two.key = buy[b].key /\ two.hold = buy[b].hold /\ two.now = buy[b].now
      /\ two.seats = seats
  BY <1>1, <1>3 DEF Purchases
<1> HIDE DEF two
<1>5. /\ three \in Purchases /\ three.pc = "charge" /\ three.user = buy[b].user
      /\ three.key = buy[b].key /\ three.hold = buy[b].hold /\ three.now = buy[b].now
      /\ three.seats = seats /\ three.total = TotalCents(seats)
  BY <1>1, <1>4 DEF Purchases
<1> HIDE DEF three
<1> QED  BY <1>0, <1>1, <1>2, <1>5 DEF seats

\* The writes of the saga to tickets and holds: rows of the schema.
LEMMA PurchaseHoldType ==
    ASSUME TypeIInv, NEW b \in Callers, PurchaseStep(b)
    PROVE  HoldTypeOK'
<1>0. HoldTypeOK /\ tickets \in [Tickets -> TicketColumns] /\ holds \in [HoldIds -> HoldColumns]
      /\ \A t \in Tickets : TicketChecks(tickets[t])
  BY DEF TypeIInv, HoldTypeOK
<1>1. \A g \in HoldIds : /\ [holds[g] EXCEPT !.status = "CONVERTED"] \in HoldColumns
                         /\ [holds[g] EXCEPT !.status = "RELEASED"] \in HoldColumns
  BY <1>0 DEF HoldColumns
<1>2. CASE PrepareLease(b)
  <2> DEFINE h == buy[b].hold
             newExpiry == buy[b].now + PaymentBudget
  <2>1. newExpiry \in Nat
    BY BookingAssumption DEF TypeIInv, Purchases
  <2> HIDE DEF newExpiry
  <2>2. CASE ExtendLease(h, newExpiry)
    <3>1. \A t \in Tickets : [tickets[t] EXCEPT !.expires = newExpiry] \in TicketColumns
      BY <1>0, <2>1 DEF TicketColumns
    <3>2. \A t \in HeldBy(h) : TicketChecks([tickets[t] EXCEPT !.expires = newExpiry])
      BY <1>0, <2>1 DEF TicketColumns, TicketChecks, HeldBy
    <3>3. tickets' \in [Tickets -> TicketColumns] /\ \A t \in Tickets : TicketChecks(tickets'[t])
      BY <1>0, <2>2, <3>1, <3>2 DEF ExtendLease, ExtendTickets
    <3>4. holds' \in [HoldIds -> HoldColumns]
      <4>1. \A g \in HoldIds : [holds[g] EXCEPT !.expires = newExpiry] \in HoldColumns
        BY <1>0, <2>1 DEF HoldColumns
      <4> QED  BY <1>0, <2>2, <4>1 DEF ExtendLease
    <3> QED  BY <1>0, <1>2, <3>3, <3>4 DEF PrepareLease, HoldTypeOK
  <2>3. CASE UNCHANGED <<tickets, holds>>
    BY <1>0, <1>2, <2>3 DEF PrepareLease, HoldTypeOK
  <2> QED  BY <1>2, <2>2, <2>3 DEF PrepareLease, newExpiry
<1>3. CASE ConvertToSold(b)
  <2> DEFINE sold == [status |-> "SOLD", hold |-> Null, expires |-> Null,
                      booking |-> BookingOf(b)]
  <2>1. BookingOf(b) \in BookingIds
    BY <1>3, BookingOfType DEF ConvertToSold, ChargeReturned
  <2>2. sold \in TicketColumns /\ TicketChecks(sold)
    BY <2>1 DEF TicketColumns, TicketChecks
  <2>3. tickets' \in [Tickets -> TicketColumns] /\ \A t \in Tickets : TicketChecks(tickets'[t])
    BY <1>0, <1>3, <2>2 DEF ConvertToSold
  <2>4. holds' \in [HoldIds -> HoldColumns]
    BY <1>0, <1>3, <1>1 DEF ConvertToSold
  <2> QED  BY <1>0, <1>3, <2>3, <2>4 DEF ConvertToSold, HoldTypeOK
<1>4. CASE RecordDeclined(b)
  <2>1. holds' \in [HoldIds -> HoldColumns]
    BY <1>0, <1>4, <1>1 DEF RecordDeclined
  <2> QED  BY <1>0, <1>4, <2>1, FreeTicketsType DEF RecordDeclined, HoldTypeOK
<1>5. CASE UNCHANGED holdVars
  BY <1>0, <1>5, HoldsStepType
<1> QED
  BY <1>2, <1>3, <1>4, <1>5
  DEF PurchaseStep, Purchase, PrepareRejected, StartCharge, ChargeError, ConvertLost, Compensate,
      ReplayBooking, StartRefund, RefundReturned, PurchaseFails

\* What purchase b does to its own request; nobody else's is touched.
LEMMA PurchaseBuyType ==
    ASSUME TypeIInv, NEW b \in Callers, PurchaseStep(b)
    PROVE  /\ buy' \in [Callers -> Purchases]
           /\ \A c \in Callers \ {b} : buy'[c] = buy[c]
           /\ BuyTyped(b)'
           /\ \/ buy'[b].pc = "idle"
              \/ buy[b].pc = "idle" /\ buy'[b].now = clock /\ ~HasPriced(b)'
                     /\ holds[buy'[b].hold].status # "NONE"
              \/ /\ buy[b].pc # "idle"
                 /\ buy'[b].user = buy[b].user /\ buy'[b].key = buy[b].key
                 /\ buy'[b].hold = buy[b].hold /\ buy'[b].now = buy[b].now
<1>0. buy \in [Callers -> Purchases] /\ BuyTyped(b)
  BY DEF TypeIInv
<1>1. ASSUME NEW u \in Users, NEW h \in HoldIds, NEW tok \in HoldIds, NEW k \in KeysOf[u],
             Purchase(b, u, h, tok, k)
      PROVE  /\ buy' \in [Callers -> Purchases]
             /\ \A c \in Callers \ {b} : buy'[c] = buy[c]
             /\ BuyTyped(b)'
             /\ buy[b].pc = "idle" /\ buy'[b].now = clock /\ ~HasPriced(b)'
             /\ holds[buy'[b].hold].status # "NONE"
  <2> DEFINE new == [pc |-> "prepare", user |-> u, hold |-> h, token |-> tok, key |-> k,
                     now |-> clock, seats |-> {}, total |-> Null]
  <2>1. clock \in Nat /\ k \in Keys
    BY BookingAssumption DEF TypeIInv, HoldTypeOK
  <2>2. new \in Purchases
    BY <2>1 DEF Purchases
  <2>3. buy' = [buy EXCEPT ![b] = new]
    BY <1>1 DEF Purchase
  <2> QED  BY <1>0, <1>1, <2>2, <2>3 DEF BuyTyped, HasPriced, Purchase
<1>2. CASE PrepareLease(b)
  BY <1>0, <1>2, BuyPriced DEF BuyTyped, HasPriced, PrepareLease
<1>3. CASE EndPurchase(b)
  BY <1>3, BuyEnds DEF BuyTyped, HasPriced
<1>4. CASE StartCharge(b) \/ ConvertLost(b) \/ Compensate(b) \/ StartRefund(b)
  <2>1. HasPriced(b) /\ buy[b].pc # "idle"
    BY <1>4 DEF HasPriced, StartCharge, ConvertLost, Compensate, StartRefund, ChargeReturned
  <2>2. \E label \in {"charging", "compensate", "refund", "refunding"} :
            buy' = [buy EXCEPT ![b].pc = label]
    BY <1>4 DEF StartCharge, ConvertLost, Compensate, StartRefund
  <2> QED  BY <1>0, <2>1, <2>2, BuyMoves DEF BuyTyped, HasPriced
<1>5. CASE PayStep(b) /\ UNCHANGED bookingVars
  <2>1. buy' = buy
    BY <1>5 DEF bookingVars
  <2> QED  BY <1>0, <1>5, <2>1 DEF bookingVars, BuyTyped, HasPriced
<1> QED
  BY <1>1, <1>2, <1>3, <1>4, <1>5
  DEF PurchaseStep, PrepareRejected, ChargeError, ConvertToSold, RecordDeclined,
      ReplayBooking, RefundReturned, PurchaseFails

\* The payments service is used as PaymentsProofs proves about it.
LEMMA PurchasePayIInv ==
    ASSUME TypeIInv, NEW b \in Callers, PurchaseStep(b)
    PROVE  PayIInv' /\ \A c \in Callers \ {b} : pay'[c] = pay[c]
<1>0. PayIInv /\ BuyTyped(b) /\ pay \in [Callers -> PayCalls]
  BY DEF TypeIInv, PayIInv, PayTypeOK
<1>1. CASE EndPurchase(b)
  BY <1>1, BuyEnds
<1>2. CASE StartCharge(b)
  <2>1. Charge(b, buy[b].key, buy[b].user, buy[b].total)
    BY <1>2 DEF StartCharge
  <2>2. buy[b].key \in Keys /\ buy[b].user \in Users /\ buy[b].total \in Amounts
    BY <1>0, <1>2, BookingOfType DEF StartCharge, BuyTyped, HasPriced
  <2> QED  BY <1>0, <2>1, <2>2, ChargeIInv DEF Charge
<1>3. CASE StartRefund(b)
  <2>1. Refund(b, buy[b].key) /\ buy[b].key \in Keys
    BY <1>3, BookingOfType DEF StartRefund
  <2> QED  BY <1>0, <2>1, RefundIInv DEF Refund
<1>4. CASE PayStep(b)
  <2>1. \A c \in Callers \ {b} : pay'[c] = pay[c]
    BY <1>0, <1>4
    DEF PayStep, ProviderCharge, RecordCharge, Replay, ProviderRefund, RecordRefund, Returned
  <2> QED  BY <1>0, <1>4, <2>1, PayStepIInv
<1>5. CASE ConvertLost(b)
  BY <1>0, <1>5, IdleIInv DEF ConvertLost
<1>6. CASE UNCHANGED payVars
  BY <1>0, <1>6, PayUnchangedIInv DEF payVars
<1> QED
  BY <1>1, <1>2, <1>3, <1>4, <1>5, <1>6
  DEF PurchaseStep, Purchase, PrepareLease, PrepareRejected, ChargeError, ConvertToSold,
      RecordDeclined, Compensate, ReplayBooking, RefundReturned, PurchaseFails

\* A booking is inserted, or marked COMPENSATED, under its own key.
LEMMA PurchaseBookingType ==
    ASSUME TypeIInv, NEW b \in Callers, PurchaseStep(b)
    PROVE  bookings' \in [BookingIds -> BookingColumns] /\ outbox' \in SUBSET BookingIds
<1>0. /\ bookings \in [BookingIds -> BookingColumns] /\ outbox \in SUBSET BookingIds
      /\ buy \in [Callers -> Purchases]
  BY DEF TypeIInv
<1>1. ASSUME NEW status \in {"CONFIRMED", "FAILED", "COMPENSATING"}, InsertBooking(b, status)
      PROVE  bookings' \in [BookingIds -> BookingColumns]
  <2>1. [status |-> status, hold |-> buy[b].hold, total |-> buy[b].total] \in BookingColumns
    BY <1>0 DEF Purchases, BookingColumns
  <2> QED  BY <1>0, <1>1, <2>1 DEF InsertBooking
<1>2. CASE ConvertToSold(b)
  BY <1>0, <1>1, <1>2, BookingOfType DEF ConvertToSold, ChargeReturned
<1>3. CASE RecordDeclined(b)
  BY <1>0, <1>1, <1>3 DEF RecordDeclined
<1>4. CASE Compensate(b)
  BY <1>0, <1>1, <1>4 DEF Compensate
<1>5. CASE RefundReturned(b)
  <2>1. \A id \in BookingIds : [bookings[id] EXCEPT !.status = "COMPENSATED"] \in BookingColumns
    BY <1>0 DEF BookingColumns
  <2> QED  BY <1>0, <1>5, <2>1 DEF RefundReturned
<1>6. CASE UNCHANGED <<bookings, outbox>>
  BY <1>0, <1>6
<1> QED
  BY <1>2, <1>3, <1>4, <1>5, <1>6
  DEF PurchaseStep, Purchase, PrepareLease, PrepareRejected, StartCharge, ChargeError, ConvertLost,
      ReplayBooking, StartRefund, PurchaseFails, bookingVars

LEMMA BookingTypeInit == Init => TypeIInv
<1> SUFFICES ASSUME Init PROVE TypeIInv
  OBVIOUS
<1>1. HoldTypeOK /\ PayIInv
  BY HoldsInitType, PayInitIInv DEF Init
<1>2. NoBooking \in BookingColumns /\ IdleBuy \in Purchases /\ IdleBuy.pc = "idle"
  BY DEF NoBooking, BookingColumns, IdleBuy, Purchases
<1> QED  BY <1>1, <1>2 DEF Init, TypeIInv, BuyTyped, HasPriced

LEMMA BookingTypeStep == TypeIInv /\ [Next]_vars => TypeIInv'
<1> SUFFICES ASSUME TypeIInv, [Next]_vars PROVE TypeIInv'
  OBVIOUS
<1>1. CASE [HoldsNext]_holdVars /\ UNCHANGED <<payVars, bookingVars>>
  <2>1. HoldTypeOK'
    BY <1>1, HoldsStepType DEF TypeIInv
  <2>2. PayIInv'
    BY <1>1, PayUnchangedIInv DEF TypeIInv, payVars
  <2> QED  BY <1>1, <2>1, <2>2 DEF TypeIInv, bookingVars, BuyTyped, HasPriced
<1>2. ASSUME NEW b \in Callers, PurchaseStep(b) PROVE TypeIInv'
  <2>1. \A c \in Callers : BuyTyped(c)'
    BY <1>2, PurchaseBuyType DEF TypeIInv, BuyTyped, HasPriced
  <2> QED
    BY <1>2, <2>1, PurchaseBuyType, PurchasePayIInv, PurchaseBookingType, PurchaseHoldType
    DEF TypeIInv
<1> QED  BY <1>1, <1>2 DEF Next, vars

LEMMA BookingTypes == Spec => []TypeIInv
BY BookingTypeInit, BookingTypeStep, PTL DEF Spec

\* Type correctness of the whole service: rows of the schema, CHECK constraints, and
\* requests that name what exists.
THEOREM BookingTypeCorrect == Spec => []TypeOK
<1>1. TypeIInv => TypeOK
  BY DEF TypeIInv, TypeOK, PayIInv
<1> QED  BY <1>1, BookingTypes, PTL

-----------------------------------------------------------------------------
\* What the saga writes to the inventory: it lengthens a valid lease, sells all the
\* seats of a hold, or gives them back.
LEMMA PurchaseWrites ==
    ASSUME NEW b \in Callers, PurchaseStep(b)
    PROVE  /\ UNCHANGED clock
           /\ \/ UNCHANGED <<tickets, holds>>
              \/ /\ PrepareLease(b) /\ NeedsExtension(b)
                 /\ ExtendLease(buy[b].hold, buy[b].now + PaymentBudget)
              \/ ConvertToSold(b)
              \/ RecordDeclined(b)
BY DEF PurchaseStep, Purchase, PrepareLease, PrepareRejected, StartCharge, ChargeError,
       ConvertToSold, ConvertLost, RecordDeclined, Compensate, ReplayBooking, StartRefund,
       RefundReturned, PurchaseFails, holdVars

\* What it writes to the bookings: it inserts one, or marks its own COMPENSATED.
LEMMA PurchaseBooks ==
    ASSUME NEW b \in Callers, PurchaseStep(b)
    PROVE  \/ UNCHANGED <<bookings, outbox>>
           \/ ConvertToSold(b)
           \/ RecordDeclined(b)
           \/ Compensate(b)
           \/ /\ RefundReturned(b) /\ UNCHANGED outbox
              /\ pay[b].result = "refunded"
              /\ bookings' = [bookings EXCEPT ![BookingOf(b)].status = "COMPENSATED"]
BY DEF PurchaseStep, Purchase, PrepareLease, PrepareRejected, StartCharge, ChargeError,
       ConvertLost, ReplayBooking, StartRefund, RefundReturned, PurchaseFails, bookingVars

\* What purchase b knows of its hold, its seats and its booking.
BuyKnows(b) ==
    /\ buy[b].pc # "idle" => holds[buy[b].hold].status # "NONE" /\ buy[b].now <= clock
    /\ HasPriced(b) =>
           /\ buy[b].seats # {} /\ buy[b].total = TotalCents(buy[b].seats)
           /\ HeldBy(buy[b].hold) \subseteq buy[b].seats
    /\ buy[b].pc \in {"refund", "refunding"} =>
           bookings[BookingOf(b)].status \in {"COMPENSATING", "COMPENSATED"}

\* What a booking says of its hold: a sale left the hold no seat.
BookingKnows(id) ==
    /\ bookings[id].status # "NONE" =>
           bookings[id].hold \in HoldIds /\ holds[bookings[id].hold].status # "NONE"
    /\ bookings[id].status = "CONFIRMED" => HeldBy(bookings[id].hold) = {}

SalesIInv ==
    /\ TypeIInv
    /\ LeaseAgreement
    /\ \A b \in Callers : BuyKnows(b)
    /\ \A id \in BookingIds : BookingKnows(id)
    /\ SalesMatchBookings
    /\ OneSalePerHold

\* A hold without a row holds no seat.
LEMMA NoneHoldsNothing ==
    ASSUME LeaseAgreement, NEW h \in HoldIds, holds[h].status = "NONE"
    PROVE  HeldBy(h) = {}
BY DEF LeaseAgreement, HeldBy

\* The saga, too, never gives a hold a seat back.
LEMMA PurchaseHoldsLiveOn ==
    ASSUME TypeIInv, NEW b \in Callers, PurchaseStep(b),
           NEW h \in HoldIds, holds[h].status # "NONE"
    PROVE  /\ holds'[h].status # "NONE" /\ holds'[h].seats = holds[h].seats
           /\ HeldBy(h)' \subseteq HeldBy(h)
           /\ clock' = clock
<1>0. /\ holds \in [HoldIds -> HoldColumns] /\ tickets \in [Tickets -> TicketColumns]
  BY DEF TypeIInv, HoldTypeOK
<1>1. CASE ExtendLease(buy[b].hold, buy[b].now + PaymentBudget)
  <2>1. \A t \in Tickets : tickets'[t].status = tickets[t].status /\ tickets'[t].hold = tickets[t].hold
    BY <1>0, <1>1 DEF ExtendLease, ExtendTickets, TicketColumns
  <2> QED  BY <1>0, <1>1, <2>1, PurchaseWrites DEF ExtendLease, HeldBy, HoldColumns
<1>2. CASE ConvertToSold(b)
  BY <1>0, <1>2 DEF ConvertToSold, HeldBy, HoldColumns
<1>3. CASE RecordDeclined(b)
  BY <1>0, <1>3 DEF RecordDeclined, FreeTickets, AvailableTicket, HeldBy, HoldColumns
<1>4. CASE UNCHANGED <<tickets, holds>>
  BY <1>4, PurchaseWrites DEF HeldBy
<1> QED  BY <1>1, <1>2, <1>3, <1>4, PurchaseWrites

\* The two tables still agree when the saga lengthens, sells or gives back a lease.
LEMMA PurchaseAgreement ==
    ASSUME SalesIInv, NEW b \in Callers, PurchaseStep(b)
    PROVE  LeaseAgreement'
<1> DEFINE h == buy[b].hold
<1>0. /\ holds \in [HoldIds -> HoldColumns] /\ tickets \in [Tickets -> TicketColumns]
      /\ LeaseAgreement
      /\ \A t \in Tickets : tickets[t].status = "HELD" => tickets[t].hold \in HoldIds
  BY DEF SalesIInv, TypeIInv, HoldTypeOK, TicketChecks
<1>1. ASSUME PrepareLease(b), ExtendLease(h, buy[b].now + PaymentBudget)
      PROVE  LeaseAgreement'
  <2> DEFINE newExpiry == buy[b].now + PaymentBudget
  <2>1. h \in HoldIds /\ holds[h].status = "ACTIVE"
    BY <1>1, BookingOfType DEF SalesIInv, PrepareLease, LeaseValid
  <2>2. /\ holds'[h].expires = newExpiry /\ holds'[h].status = "ACTIVE"
        /\ holds'[h].seats = holds[h].seats
        /\ \A g \in HoldIds \ {h} : holds'[g] = holds[g]
    BY <1>0, <1>1, <2>1 DEF ExtendLease, HoldColumns
  <2>3. \A t \in Tickets :
            /\ tickets'[t].status = tickets[t].status /\ tickets'[t].hold = tickets[t].hold
            /\ tickets'[t].expires = IF t \in HeldBy(h) THEN newExpiry ELSE tickets[t].expires
    BY <1>0, <1>1 DEF ExtendLease, ExtendTickets, TicketColumns
  <2>4. clock' = clock
    BY PurchaseWrites
  <2> HIDE DEF h, newExpiry
  <2> QED  BY <1>0, <2>1, <2>2, <2>3, <2>4 DEF LeaseAgreement, HeldBy
<1>2. CASE ConvertToSold(b)
  <2>1. h \in HoldIds /\ HeldBy(h) \subseteq buy[b].seats
    BY <1>2, BookingOfType DEF SalesIInv, BuyKnows, HasPriced, ConvertToSold, ChargeReturned
  <2>2. \A t \in Tickets : tickets'[t].status = "HELD" =>
            tickets'[t] = tickets[t] /\ tickets[t].hold # h
    BY <1>2, <2>1 DEF ConvertToSold, HeldBy
  <2>3. \A g \in HoldIds \ {h} : holds'[g] = holds[g]
    BY <1>0, <1>2 DEF ConvertToSold
  <2>4. clock' = clock
    BY PurchaseWrites
  <2> HIDE DEF h
  <2> QED  BY <1>0, <2>2, <2>3, <2>4 DEF LeaseAgreement
<1>3. CASE RecordDeclined(b)
  <2>1. \A t \in Tickets : tickets'[t].status = "HELD" =>
            tickets'[t] = tickets[t] /\ tickets[t].hold # h
    BY <1>3 DEF RecordDeclined, FreeTickets, AvailableTicket, HeldBy
  <2>2. \A g \in HoldIds \ {h} : holds'[g] = holds[g]
    BY <1>0, <1>3 DEF RecordDeclined
  <2>3. clock' = clock
    BY PurchaseWrites
  <2> HIDE DEF h
  <2> QED  BY <1>0, <2>1, <2>2, <2>3 DEF LeaseAgreement
<1>4. CASE UNCHANGED <<tickets, holds>>
  BY <1>0, <1>4, PurchaseWrites DEF LeaseAgreement
<1> QED  BY <1>1, <1>2, <1>3, <1>4, PurchaseWrites

\* Bookings are never deleted; only a COMPENSATING one changes its status.
LEMMA BookingsStay ==
    ASSUME SalesIInv, NEW b \in Callers, PurchaseStep(b),
           NEW id \in BookingIds, bookings[id].status # "NONE"
    PROVE  /\ bookings'[id].hold = bookings[id].hold /\ bookings'[id].total = bookings[id].total
           /\ \/ bookings'[id].status = bookings[id].status
              \/ /\ bookings[id].status \in {"COMPENSATING", "COMPENSATED"}
                 /\ bookings'[id].status = "COMPENSATED"
           /\ id \in outbox => id \in outbox'
<1>0. bookings \in [BookingIds -> BookingColumns]
  BY DEF SalesIInv, TypeIInv
<1>1. ASSUME NEW status \in {"CONFIRMED", "FAILED", "COMPENSATING"},
             InsertBooking(b, status), ~BookingExists(b)
      PROVE  bookings'[id] = bookings[id]
  BY <1>0, <1>1 DEF InsertBooking, BookingExists
<1>2. CASE ConvertToSold(b)
  BY <1>1, <1>2 DEF ConvertToSold
<1>3. CASE RecordDeclined(b)
  BY <1>1, <1>3 DEF RecordDeclined
<1>4. CASE Compensate(b)
  BY <1>1, <1>4 DEF Compensate
<1>5. CASE RefundReturned(b) /\ bookings' = [bookings EXCEPT ![BookingOf(b)].status = "COMPENSATED"]
  <2>1. bookings[BookingOf(b)].status \in {"COMPENSATING", "COMPENSATED"}
    BY <1>5 DEF SalesIInv, BuyKnows, RefundReturned
  <2> QED  BY <1>0, <1>5, <2>1 DEF BookingColumns, RefundReturned
<1>6. CASE UNCHANGED <<bookings, outbox>>
  BY <1>6
<1> QED  BY <1>2, <1>3, <1>4, <1>5, <1>6, PurchaseBooks

LEMMA SalesInit == Init => SalesIInv
<1> SUFFICES ASSUME Init PROVE SalesIInv
  OBVIOUS
<1>1. TypeIInv
  BY BookingTypeInit
<1>2. LeaseAgreement
  BY DEF Init, HoldsInit, LeaseAgreement, AvailableTicket
<1>3. \A b \in Callers : BuyKnows(b)
  BY DEF Init, BuyKnows, HasPriced, IdleBuy
<1>4. \A id \in BookingIds : BookingKnows(id)
  BY DEF Init, BookingKnows, NoBooking
<1>5. SalesMatchBookings /\ OneSalePerHold
  BY DEF Init, HoldsInit, SalesMatchBookings, OneSalePerHold, AvailableTicket, NoBooking
<1> QED  BY <1>1, <1>2, <1>3, <1>4, <1>5 DEF SalesIInv

\* A purchase that makes no step keeps what it knows, whoever else steps.
LEMMA OthersKeepKnowing ==
    ASSUME SalesIInv, NEW c \in Callers, buy'[c] = buy[c],
           clock' \in Nat, clock <= clock',
           \A h \in HoldIds : holds[h].status # "NONE" =>
               holds'[h].status # "NONE" /\ HeldBy(h)' \subseteq HeldBy(h),
           \A id \in BookingIds : bookings[id].status \in {"COMPENSATING", "COMPENSATED"} =>
               bookings'[id].status \in {"COMPENSATING", "COMPENSATED"}
    PROVE  BuyKnows(c)'
<1>1. CASE buy[c].pc = "idle"
  BY <1>1 DEF BuyKnows, HasPriced
<1>2. CASE buy[c].pc # "idle"
  <2>1. /\ buy[c].hold \in HoldIds /\ BookingOf(c) \in BookingIds /\ BookingOf(c)' = BookingOf(c)
        /\ buy[c].now \in Nat /\ clock \in Nat
    BY <1>2, BookingOfType DEF SalesIInv, TypeIInv, HoldTypeOK, Purchases, BookingOf
  <2>2. BuyKnows(c)
    BY DEF SalesIInv
  <2>3. PICK h \in HoldIds : h = buy[c].hold
    BY <2>1
  <2>4. holds'[h].status # "NONE" /\ HeldBy(h)' \subseteq HeldBy(h)
    BY <1>2, <2>2, <2>3 DEF BuyKnows
  <2>5. HasPriced(c) => HeldBy(h)' \subseteq buy[c].seats
    BY <2>2, <2>3, <2>4 DEF BuyKnows
  <2>6. HeldBy(buy[c].hold)' = HeldBy(h)'
    BY <2>3 DEF HeldBy
  <2> QED  BY <1>2, <2>1, <2>2, <2>3, <2>4, <2>5, <2>6 DEF BuyKnows, HasPriced
<1> QED  BY <1>1, <1>2

\* The purchase that makes the step.
LEMMA PurchaseKnows ==
    ASSUME SalesIInv, NEW b \in Callers, PurchaseStep(b)
    PROVE  BuyKnows(b)'
<1>0. /\ TypeIInv /\ BuyKnows(b) /\ buy \in [Callers -> Purchases] /\ clock \in Nat
      /\ clock' = clock
  BY PurchaseWrites DEF SalesIInv, TypeIInv, HoldTypeOK
<1>1. ASSUME buy'[b].pc # "idle"
      PROVE  holds'[buy'[b].hold].status # "NONE" /\ buy'[b].now <= clock'
  <2>1. holds[buy'[b].hold].status # "NONE" /\ buy'[b].now <= clock
    BY <1>0, <1>1, PurchaseBuyType DEF BuyKnows
  <2>2. buy'[b].hold \in HoldIds
    BY <1>0, <1>1, PurchaseBuyType DEF BuyTyped
  <2> QED  BY <1>0, <2>1, <2>2, PurchaseHoldsLiveOn
<1>2. CASE buy'[b].pc \in {"idle", "prepare"}
  BY <1>1, <1>2 DEF BuyKnows, HasPriced
<1>3. CASE PrepareLease(b)
  <2>1. /\ buy'[b].pc = "charge" /\ buy'[b].hold = buy[b].hold
        /\ buy'[b].seats = HeldBy(buy[b].hold)
        /\ buy'[b].total = TotalCents(HeldBy(buy[b].hold))
    BY <1>0, <1>3, BuyPriced
  <2>2. HeldBy(buy[b].hold) # {} /\ holds[buy[b].hold].status # "NONE"
    BY <1>0, <1>3 DEF PrepareLease, LeaseValid
  <2>3. PICK h \in HoldIds : h = buy[b].hold
    BY <1>0, <1>3, BookingOfType DEF PrepareLease
  <2>4. HeldBy(h)' \subseteq HeldBy(h)
    BY <1>0, <2>2, <2>3, PurchaseHoldsLiveOn
  <2>5. HeldBy(buy[b].hold)' = HeldBy(h)'
    BY <2>1, <2>3 DEF HeldBy
  <2> QED  BY <1>1, <2>1, <2>2, <2>3, <2>4, <2>5 DEF BuyKnows
<1>4. CASE StartCharge(b) \/ ConvertLost(b) \/ Compensate(b) \/ StartRefund(b)
  <2>1. /\ HasPriced(b) /\ buy[b].pc # "idle"
        /\ \E label \in {"charging", "compensate", "refund", "refunding"} :
               buy' = [buy EXCEPT ![b].pc = label]
    BY <1>4
    DEF HasPriced, StartCharge, ConvertLost, Compensate, StartRefund, ChargeReturned
  <2>2. /\ buy'[b].hold = buy[b].hold /\ buy'[b].seats = buy[b].seats
        /\ buy'[b].total = buy[b].total /\ BookingOf(b)' = BookingOf(b)
    BY <1>0, <2>1, BuyMoves DEF BookingOf
  <2>3. buy[b].hold \in HoldIds /\ BookingOf(b) \in BookingIds
    BY <1>0, <2>1, BookingOfType
  <2>4. PICK h \in HoldIds : h = buy[b].hold
    BY <2>3
  <2>5. HeldBy(h)' \subseteq HeldBy(h)
    BY <1>0, <2>1, <2>4, PurchaseHoldsLiveOn DEF BuyKnows
  <2>6. HeldBy(buy[b].hold)' = HeldBy(h)'
    BY <2>2, <2>4 DEF HeldBy
  <2>7. /\ buy'[b].seats # {} /\ buy'[b].total = TotalCents(buy[b].seats)
        /\ HeldBy(buy[b].hold)' \subseteq buy'[b].seats
    BY <1>0, <2>1, <2>2, <2>4, <2>5, <2>6 DEF BuyKnows
  <2>8. buy'[b].pc \in {"refund", "refunding"} =>
            bookings'[BookingOf(b)].status \in {"COMPENSATING", "COMPENSATED"}
    <3>1. CASE StartCharge(b) \/ ConvertLost(b)
      BY <1>0, <3>1, BuyMoves DEF StartCharge, ConvertLost
    <3>2. CASE Compensate(b)
      BY <1>0, <2>3, <3>2 DEF Compensate, InsertBooking, TypeIInv
    <3>3. CASE StartRefund(b)
      BY <1>0, <3>3 DEF StartRefund, BuyKnows
    <3> QED  BY <1>4, <3>1, <3>2, <3>3
  <2> QED  BY <1>1, <2>2, <2>7, <2>8 DEF BuyKnows
<1>5. CASE PayStep(b) /\ UNCHANGED <<holdVars, bookingVars>>
  BY <1>0, <1>5 DEF holdVars, bookingVars, BuyKnows, HasPriced, BookingOf, HeldBy
<1>6. ASSUME NEW u \in Users, NEW h \in HoldIds, NEW tok \in HoldIds, NEW k \in KeysOf[u],
             Purchase(b, u, h, tok, k)
      PROVE  buy'[b].pc = "prepare"
  BY <1>0, <1>6 DEF Purchase
<1>7. EndPurchase(b) => buy'[b].pc = "idle"
  BY <1>0, BuyEnds
<1> QED
  BY <1>2, <1>3, <1>4, <1>5, <1>6, <1>7
  DEF PurchaseStep, PrepareRejected, ChargeError, ConvertToSold, RecordDeclined,
      ReplayBooking, RefundReturned, PurchaseFails

\* A sale in the making: all the seats of the hold, to a booking that has none yet.
LEMMA SaleIsWhole ==
    ASSUME SalesIInv, NEW b \in Callers, ConvertToSold(b)
    PROVE  /\ BookingOf(b) \in BookingIds /\ buy[b].hold \in HoldIds
           /\ holds[buy[b].hold].status # "NONE"
           /\ bookings[BookingOf(b)].status = "NONE"
           /\ bookings' = [bookings EXCEPT ![BookingOf(b)] =
                  [status |-> "CONFIRMED", hold |-> buy[b].hold, total |-> buy[b].total]]
           /\ HeldBy(buy[b].hold) = buy[b].seats /\ buy[b].seats # {}
           /\ buy[b].seats \subseteq Tickets
           /\ buy[b].total = TotalCents(buy[b].seats)
           /\ \A t \in buy[b].seats : /\ tickets'[t].status = "SOLD"
                                      /\ tickets'[t].booking = BookingOf(b)
           /\ \A t \in Tickets \ buy[b].seats : tickets'[t] = tickets[t]
<1>1. TypeIInv /\ BuyKnows(b) /\ buy[b].pc = "charging" /\ HasPriced(b)
  BY DEF SalesIInv, ConvertToSold, ChargeReturned, HasPriced
<1>2. BookingOf(b) \in BookingIds /\ buy[b].hold \in HoldIds
  BY <1>1, BookingOfType
<1>3. HeldBy(buy[b].hold) = buy[b].seats /\ buy[b].seats # {}
      /\ buy[b].total = TotalCents(buy[b].seats) /\ holds[buy[b].hold].status # "NONE"
  BY <1>1 DEF BuyKnows, ConvertToSold, SeatsStillOurs
<1>4. buy[b].seats \subseteq Tickets
  BY <1>1 DEF TypeIInv, Purchases
<1>5. bookings[BookingOf(b)].status = "NONE"
  BY <1>2 DEF SalesIInv, TypeIInv, BookingColumns, ConvertToSold, BookingExists
<1> QED  BY <1>2, <1>3, <1>4, <1>5 DEF ConvertToSold, InsertBooking

\* A booking is new when the purchase of that name inserts it.
LEMMA NewBooking ==
    ASSUME SalesIInv, NEW b \in Callers, PurchaseStep(b), NEW id \in BookingIds,
           bookings[id].status = "NONE", bookings'[id].status # "NONE"
    PROVE  /\ buy[b].pc # "idle" /\ id = BookingOf(b)
           /\ bookings'[id].hold = buy[b].hold /\ bookings'[id].total = buy[b].total
           /\ bookings'[id].status \in {"CONFIRMED", "FAILED", "COMPENSATING"}
           /\ bookings'[id].status = "CONFIRMED" => ConvertToSold(b)
<1>0. bookings \in [BookingIds -> BookingColumns] /\ BuyKnows(b)
  BY DEF SalesIInv, TypeIInv
<1>1. \A status \in {"FAILED", "COMPENSATING", "CONFIRMED"} : InsertBooking(b, status) =>
          /\ id = BookingOf(b) /\ bookings'[id].hold = buy[b].hold
          /\ bookings'[id].total = buy[b].total /\ bookings'[id].status = status
  BY <1>0 DEF InsertBooking
<1>2. ~(/\ RefundReturned(b)
        /\ bookings' = [bookings EXCEPT ![BookingOf(b)].status = "COMPENSATED"])
  BY <1>0 DEF RefundReturned, BuyKnows
<1> QED
  BY <1>1, <1>2, PurchaseBooks DEF ConvertToSold, RecordDeclined, Compensate, ChargeReturned

\* Bookings keep a hold that exists, and a sold one keeps no seat.
LEMMA PurchaseBookingKnows ==
    ASSUME SalesIInv, NEW b \in Callers, PurchaseStep(b), NEW id \in BookingIds
    PROVE  BookingKnows(id)'
<1>0. /\ TypeIInv /\ bookings \in [BookingIds -> BookingColumns] /\ BookingKnows(id)
      /\ BuyKnows(b)
  BY DEF SalesIInv, TypeIInv
<1>1. CASE bookings[id].status # "NONE"
  <2>1. /\ bookings'[id].hold = bookings[id].hold
        /\ bookings'[id].status = "CONFIRMED" => bookings[id].status = "CONFIRMED"
    BY <1>1, BookingsStay
  <2>2. PICK h \in HoldIds : h = bookings[id].hold /\ holds[h].status # "NONE"
    BY <1>0, <1>1 DEF BookingKnows
  <2>3. holds'[h].status # "NONE" /\ HeldBy(h)' \subseteq HeldBy(h)
    BY <1>0, <2>2, PurchaseHoldsLiveOn
  <2>4. HeldBy(bookings[id].hold)' = HeldBy(h)'
    BY <2>1, <2>2 DEF HeldBy
  <2> QED  BY <1>0, <2>1, <2>2, <2>3, <2>4 DEF BookingKnows
<1>2. CASE bookings[id].status = "NONE" /\ bookings'[id].status # "NONE"
  <2>1. /\ buy[b].pc # "idle" /\ id = BookingOf(b)
        /\ bookings'[id].hold = buy[b].hold
        /\ bookings'[id].status = "CONFIRMED" => ConvertToSold(b)
    BY <1>2, NewBooking
  <2>2. PICK h \in HoldIds : h = buy[b].hold
    BY <1>0, <2>1, BookingOfType
  <2>3. holds'[h].status # "NONE"
    BY <1>0, <2>1, <2>2, PurchaseHoldsLiveOn DEF BuyKnows
  <2>4. HeldBy(bookings[id].hold)' = HeldBy(h)'
    BY <2>1, <2>2 DEF HeldBy
  <2>5. ASSUME ConvertToSold(b) PROVE HeldBy(h)' = {}
    <3>1. \A t \in Tickets : tickets'[t].status = "HELD" => tickets'[t] = tickets[t]
      BY <2>5, SaleIsWhole
    <3>2. HeldBy(h) = buy[b].seats /\ \A t \in buy[b].seats : tickets'[t].status = "SOLD"
      BY <2>2, <2>5, SaleIsWhole
    <3> QED  BY <3>1, <3>2 DEF HeldBy
  <2> QED  BY <2>1, <2>2, <2>3, <2>4, <2>5 DEF BookingKnows
<1>3. CASE bookings'[id].status = "NONE"
  BY <1>3 DEF BookingKnows
<1> QED  BY <1>1, <1>2, <1>3

\* Only a sale gives a booking seats, and no booking loses any.
LEMMA SoldToGrows ==
    ASSUME SalesIInv, NEW b \in Callers, PurchaseStep(b), NEW id \in BookingIds
    PROVE  SoldTo(id)' = IF ConvertToSold(b) /\ id = BookingOf(b)
                         THEN buy[b].seats ELSE SoldTo(id)
<1>0. \A t \in Tickets : tickets[t].status = "SOLD" => tickets'[t] = tickets[t]
  BY PurchaseStepSparesSold
<1>1. CASE ConvertToSold(b)
  <2>1. SoldTo(BookingOf(b)) = {}
    BY <1>1, SaleIsWhole DEF SalesIInv, SalesMatchBookings, SoldTo
  <2> QED  BY <1>0, <1>1, <2>1, SaleIsWhole DEF SoldTo
<1>2. CASE ~ConvertToSold(b)
  <2>1. \A t \in Tickets : tickets'[t].status = "SOLD" => tickets[t].status = "SOLD"
    <3>1. CASE ExtendLease(buy[b].hold, buy[b].now + PaymentBudget)
      BY <3>1 DEF ExtendLease, ExtendTickets, HeldBy, SalesIInv, TypeIInv, HoldTypeOK, TicketColumns
    <3>2. CASE RecordDeclined(b)
      BY <3>2 DEF RecordDeclined, FreeTickets, AvailableTicket
    <3> QED  BY <1>2, <3>1, <3>2, PurchaseWrites
  <2> QED  BY <1>0, <1>2, <2>1 DEF SoldTo
<1> QED  BY <1>1, <1>2

\* The audit's rules, after a step of the saga.
LEMMA PurchaseSales ==
    ASSUME SalesIInv, NEW b \in Callers, PurchaseStep(b)
    PROVE  SalesMatchBookings'
<1>0. /\ TypeIInv /\ SalesMatchBookings /\ LeaseAgreement
      /\ bookings \in [BookingIds -> BookingColumns]
      /\ \A t \in Tickets : TicketChecks(tickets[t])
  BY DEF SalesIInv, TypeIInv, HoldTypeOK
<1>1. ASSUME NEW t \in Tickets, tickets'[t].status = "SOLD"
      PROVE  bookings'[tickets'[t].booking].status = "CONFIRMED"
  <2>1. TicketChecks(tickets'[t])
    BY <1>0, PurchaseHoldType DEF HoldTypeOK
  <2>2. PICK id \in BookingIds : id = tickets'[t].booking
    BY <1>1, <2>1 DEF TicketChecks
  <2>3. t \in SoldTo(id)'
    BY <1>1, <2>2 DEF SoldTo
  <2>4. CASE ConvertToSold(b) /\ id = BookingOf(b)
    BY <1>0, <2>2, <2>4, SaleIsWhole
  <2>5. CASE ~(ConvertToSold(b) /\ id = BookingOf(b))
    <3>1. bookings[id].status = "CONFIRMED"
      BY <1>0, <2>3, <2>5, SoldToGrows DEF SoldTo, SalesMatchBookings
    <3> QED  BY <2>2, <3>1, BookingsStay
  <2> QED  BY <2>4, <2>5
<1>2. ASSUME NEW id \in BookingIds, bookings'[id].status = "CONFIRMED"
      PROVE  /\ SoldTo(id)' # {}
             /\ SoldTo(id)' \subseteq holds'[bookings'[id].hold].seats
             /\ bookings'[id].total = TotalCents(SoldTo(id)')
             /\ id \in outbox'
  <2>1. CASE ConvertToSold(b) /\ id = BookingOf(b)
    <3>1. bookings'[id].hold = buy[b].hold /\ bookings'[id].total = buy[b].total
      BY <1>0, <2>1, SaleIsWhole
    <3>2. SoldTo(id)' = buy[b].seats
      BY <2>1, SoldToGrows
    <3>3. buy[b].seats \subseteq holds[buy[b].hold].seats
      BY <1>0, <2>1, SaleIsWhole DEF LeaseAgreement, HeldBy
    <3>4. holds'[buy[b].hold].seats = holds[buy[b].hold].seats
      BY <1>0, <2>1, SaleIsWhole, PurchaseHoldsLiveOn
    <3>5. id \in outbox'
      BY <2>1 DEF ConvertToSold
    <3> QED  BY <2>1, <3>1, <3>2, <3>3, <3>4, <3>5, SaleIsWhole
  <2>2. CASE ~(ConvertToSold(b) /\ id = BookingOf(b))
    <3>1. bookings[id].status = "CONFIRMED"
      BY <1>2, <2>2, BookingsStay, NewBooking
    <3>2. SoldTo(id)' = SoldTo(id)
      BY <2>2, SoldToGrows
    <3>3. bookings'[id].hold = bookings[id].hold /\ bookings'[id].total = bookings[id].total
          /\ (id \in outbox => id \in outbox')
      BY <3>1, BookingsStay
    <3>4. bookings[id].hold \in HoldIds /\ holds[bookings[id].hold].status # "NONE"
      BY <3>1 DEF SalesIInv, BookingKnows
    <3>5. holds'[bookings[id].hold].seats = holds[bookings[id].hold].seats
      BY <1>0, <3>4, PurchaseHoldsLiveOn
    <3> QED  BY <1>0, <3>1, <3>2, <3>3, <3>5 DEF SalesMatchBookings
  <2> QED  BY <2>1, <2>2
<1> QED  BY <1>1, <1>2 DEF SalesMatchBookings

\* A hold that was sold has no seat left to sell again.
LEMMA PurchaseOneSale ==
    ASSUME SalesIInv, NEW b \in Callers, PurchaseStep(b)
    PROVE  OneSalePerHold'
<1>0. OneSalePerHold /\ bookings \in [BookingIds -> BookingColumns]
  BY DEF SalesIInv, TypeIInv
<1>1. CASE ConvertToSold(b)
  <2>1. \A id \in BookingIds \ {BookingOf(b)} : bookings'[id] = bookings[id]
    BY <1>0, <1>1, SaleIsWhole
  <2>2. bookings'[BookingOf(b)].hold = buy[b].hold
    BY <1>0, <1>1, SaleIsWhole
  <2>3. \A id \in BookingIds : bookings[id].status = "CONFIRMED" => bookings[id].hold # buy[b].hold
    BY <1>1, SaleIsWhole DEF SalesIInv, BookingKnows
  <2> QED  BY <1>0, <2>1, <2>2, <2>3 DEF OneSalePerHold
<1>2. CASE ~ConvertToSold(b)
  <2>1. ASSUME NEW id \in BookingIds, bookings'[id].status = "CONFIRMED"
        PROVE  bookings[id].status = "CONFIRMED" /\ bookings'[id].hold = bookings[id].hold
    BY <1>2, <2>1, BookingsStay, NewBooking
  <2> QED  BY <1>0, <2>1 DEF OneSalePerHold
<1> QED  BY <1>1, <1>2

\* The lease half neither sells a seat nor touches a booking.
LEMMA HoldsStepSales ==
    ASSUME SalesIInv, TypeIInv', [HoldsNext]_holdVars, UNCHANGED <<payVars, bookingVars>>
    PROVE  SalesIInv'
<1>0. /\ TypeIInv /\ HoldTypeOK /\ LeaseAgreement /\ bookings' = bookings /\ outbox' = outbox
      /\ buy' = buy /\ SalesMatchBookings /\ OneSalePerHold
      /\ tickets' \in [Tickets -> TicketColumns]
  BY DEF SalesIInv, TypeIInv, HoldTypeOK, bookingVars
<1>1. LeaseAgreement'
  BY <1>0, HoldsStepAgreement
<1>2. \A h \in HoldIds : holds[h].status # "NONE" =>
          /\ holds'[h].status # "NONE" /\ holds'[h].seats = holds[h].seats
          /\ HeldBy(h)' \subseteq HeldBy(h)
  BY <1>0, HoldsLiveOn
<1>3. clock \in Nat /\ clock' \in Nat /\ clock <= clock'
  BY <1>0, HoldsClock
<1>4. \A b \in Callers : BuyKnows(b)'
  BY <1>0, <1>2, <1>3, OthersKeepKnowing
<1>5. \A id \in BookingIds : BookingKnows(id)'
  <2> SUFFICES ASSUME NEW id \in BookingIds PROVE BookingKnows(id)'
    OBVIOUS
  <2>1. CASE bookings[id].status = "NONE"
    BY <1>0, <2>1 DEF BookingKnows
  <2>2. CASE bookings[id].status # "NONE"
    <3>1. PICK h \in HoldIds : h = bookings[id].hold /\ holds[h].status # "NONE"
      BY <2>2 DEF SalesIInv, BookingKnows
    <3>2. HeldBy(bookings[id].hold)' = HeldBy(h)'
      BY <1>0, <3>1 DEF HeldBy
    <3>3. BookingKnows(id)
      BY DEF SalesIInv
    <3> QED  BY <1>0, <1>2, <3>1, <3>2, <3>3 DEF BookingKnows
  <2> QED  BY <2>1, <2>2
<1>6. \A id \in BookingIds : SoldTo(id)' = SoldTo(id)
  <2>1. \A t \in Tickets : tickets[t].status = "SOLD" => tickets'[t] = tickets[t]
    BY HoldsStepSparesSold DEF holdVars
  <2>2. \A t \in Tickets : tickets'[t].status = "SOLD" => tickets[t].status = "SOLD"
    BY <1>0, HoldsStepSellsNothing
  <2> QED  BY <2>1, <2>2 DEF SoldTo
<1>7. SalesMatchBookings'
  <2>1. ASSUME NEW t \in Tickets, tickets'[t].status = "SOLD"
        PROVE  bookings'[tickets'[t].booking].status = "CONFIRMED"
    <3>1. tickets[t].status = "SOLD"
      BY <1>0, <2>1, HoldsStepSellsNothing
    <3>2. tickets'[t] = tickets[t]
      BY <3>1, HoldsStepSparesSold DEF holdVars
    <3> QED  BY <1>0, <3>1, <3>2 DEF SalesMatchBookings
  <2>2. ASSUME NEW id \in BookingIds, bookings'[id].status = "CONFIRMED"
        PROVE  /\ SoldTo(id)' # {}
               /\ SoldTo(id)' \subseteq holds'[bookings'[id].hold].seats
               /\ bookings'[id].total = TotalCents(SoldTo(id)')
               /\ id \in outbox'
    <3>1. bookings[id].hold \in HoldIds /\ holds[bookings[id].hold].status # "NONE"
      BY <1>0, <2>2 DEF SalesIInv, BookingKnows
    <3> QED  BY <1>0, <1>2, <1>6, <2>2, <3>1 DEF SalesMatchBookings
  <2> QED  BY <2>1, <2>2 DEF SalesMatchBookings
<1>8. OneSalePerHold'
  BY <1>0 DEF OneSalePerHold
<1> QED  BY <1>1, <1>4, <1>5, <1>7, <1>8 DEF SalesIInv

LEMMA SalesStep == SalesIInv /\ [Next]_vars => SalesIInv'
<1> SUFFICES ASSUME SalesIInv, [Next]_vars PROVE SalesIInv'
  OBVIOUS
<1>0. TypeIInv /\ TypeIInv'
  BY BookingTypeStep DEF SalesIInv
<1>1. CASE [HoldsNext]_holdVars /\ UNCHANGED <<payVars, bookingVars>>
  BY <1>0, <1>1, HoldsStepSales
<1>2. ASSUME NEW b \in Callers, PurchaseStep(b) PROVE SalesIInv'
  <2>1. \A c \in Callers \ {b} : BuyKnows(c)'
    <3>1. clock \in Nat /\ clock' = clock
      BY <1>0, <1>2, PurchaseWrites DEF TypeIInv, HoldTypeOK
    <3>2. \A c \in Callers \ {b} : buy'[c] = buy[c]
      BY <1>0, <1>2, PurchaseBuyType
    <3>3. \A h \in HoldIds : holds[h].status # "NONE" =>
              holds'[h].status # "NONE" /\ HeldBy(h)' \subseteq HeldBy(h)
      BY <1>0, <1>2, PurchaseHoldsLiveOn
    <3>4. \A id \in BookingIds : bookings[id].status \in {"COMPENSATING", "COMPENSATED"} =>
              bookings'[id].status \in {"COMPENSATING", "COMPENSATED"}
      BY <1>2, BookingsStay
    <3> QED  BY <3>1, <3>2, <3>3, <3>4, OthersKeepKnowing
  <2> QED
    BY <1>0, <1>2, <2>1, PurchaseAgreement, PurchaseKnows, PurchaseBookingKnows, PurchaseSales,
       PurchaseOneSale
    DEF SalesIInv
<1> QED  BY <1>1, <1>2 DEF Next, vars

LEMMA BookingSales == Spec => []SalesIInv
BY SalesInit, SalesStep, PTL DEF Spec

\* The books balance at every moment, whatever requests, sweeps and crashes interleave:
\* a SOLD ticket belongs to a CONFIRMED booking; a CONFIRMED booking has seats, of its
\* own hold, for which it asks exactly their price, and it has been announced.
THEOREM SalesBalance == Spec => []SalesMatchBookings
<1>1. SalesIInv => SalesMatchBookings
  BY DEF SalesIInv
<1> QED  BY <1>1, BookingSales, PTL

\* However many purchases race for one hold, at most one of them buys it.
THEOREM HoldsAreSoldOnce == Spec => []OneSalePerHold
<1>1. SalesIInv => OneSalePerHold
  BY DEF SalesIInv
<1> QED  BY <1>1, BookingSales, PTL

\* Selling, extending and compensating, the tables tickets and holds still agree on
\* every lease.
THEOREM LeasesAgreeThroughSales == Spec => []LeaseAgreement
<1>1. SalesIInv => LeaseAgreement
  BY DEF SalesIInv
<1> QED  BY <1>1, BookingSales, PTL

\* While a lease runs, its seats leave it only with an end of the hold its owner asked
\* for, the saga's own writes included: the sale, a release or a declined payment.
THEOREM LiveLeasesKeptThroughSales == Spec => LiveLeaseKept
<1> DEFINE Kept ==
      \A t \in Tickets :
          tickets[t].status = "HELD" /\ tickets[t].expires > clock
              /\ tickets'[t].hold # tickets[t].hold
          => holds'[tickets[t].hold].status \in {"RELEASED", "CONVERTED"}
<1>1. ASSUME SalesIInv, HoldsNext PROVE Kept
  BY <1>1, HoldsStepKeepsLeases DEF SalesIInv, TypeIInv
<1>2. ASSUME SalesIInv, NEW b \in Callers, PurchaseStep(b) PROVE Kept
  <2>0. /\ tickets \in [Tickets -> TicketColumns] /\ holds \in [HoldIds -> HoldColumns]
    BY <1>2 DEF SalesIInv, TypeIInv, HoldTypeOK
  <2>1. CASE ExtendLease(buy[b].hold, buy[b].now + PaymentBudget)
    BY <2>0, <2>1 DEF ExtendLease, ExtendTickets, TicketColumns
  <2>2. CASE ConvertToSold(b)
    <3>1. /\ \A t \in buy[b].seats : tickets[t].hold = buy[b].hold
          /\ \A t \in Tickets \ buy[b].seats : tickets'[t] = tickets[t]
          /\ buy[b].hold \in HoldIds
      BY <1>2, <2>2, SaleIsWhole DEF HeldBy
    <3>2. holds'[buy[b].hold].status = "CONVERTED"
      BY <2>0, <2>2, <3>1 DEF ConvertToSold, HoldColumns
    <3> QED  BY <3>1, <3>2
  <2>3. CASE RecordDeclined(b)
    <3>1. TypeIInv /\ buy[b].hold \in HoldIds
      BY <1>2, <2>3, BookingOfType DEF SalesIInv, RecordDeclined, ChargeReturned
    <3> QED  BY <2>0, <2>3, <3>1 DEF RecordDeclined, FreeTickets, HeldBy, HoldColumns
  <2> QED  BY <1>2, <2>1, <2>2, <2>3, PurchaseWrites
<1>3. SalesIInv /\ [Next]_vars => [Kept]_holdVars
  BY <1>1, <1>2 DEF Next, vars
<1> QED  BY <1>3, BookingSales, PTL DEF Spec, LiveLeaseKept

-----------------------------------------------------------------------------
(***************************************************************************)
(* The tables implement the inventory of owned tickets.                    *)
(***************************************************************************)
OwnerOf(row) == IF row.status = "HELD" THEN row.hold ELSE row.booking

UntilOf(row) == IF row.status = "HELD" THEN row.expires ELSE 0

ClockBounded == clock <= MaxTime

\* What the inventory sees of the rows.
LEMMA LeasedAndSold ==
    ASSUME TypeIInv
    PROVE  /\ \A l \in HoldIds : Inventory!Leased(l) = HeldBy(l)
           /\ \A s \in BookingIds : Inventory!Leased(s) = SoldTo(s)
           /\ \A t \in Tickets : tickets[t].status = "HELD" =>
                  (tickets[t].expires <= clock => Inventory!RunOut(t))
<1>1. /\ Null \notin HoldIds /\ Null \notin BookingIds /\ HoldIds \cap BookingIds = {}
      /\ \A t \in Tickets : TicketChecks(tickets[t]) /\ tickets[t] \in TicketColumns
  BY SchemaAssumption DEF TypeIInv, HoldTypeOK, BookingIds
<1>2. \A t \in Tickets :
          /\ tickets[t].status = "HELD" => tickets[t].hold \in HoldIds
          /\ tickets[t].status = "SOLD" => tickets[t].booking \in BookingIds
          /\ tickets[t].status = "AVAILABLE" => tickets[t].booking = Null
          /\ tickets[t].status \in {"AVAILABLE", "HELD", "SOLD"}
  BY <1>1 DEF TicketChecks, TicketColumns
<1>3. \A l \in HoldIds : Inventory!Leased(l) = HeldBy(l)
  BY <1>1, <1>2 DEF Inventory!Leased, HeldBy
<1>4. \A s \in BookingIds : Inventory!Leased(s) = SoldTo(s)
  BY <1>1, <1>2 DEF Inventory!Leased, SoldTo
<1>5. \A t \in Tickets : tickets[t].status = "HELD" =>
          (tickets[t].expires <= clock => Inventory!RunOut(t))
  BY <1>2 DEF Inventory!RunOut
<1> QED  BY <1>3, <1>4, <1>5

\* A write of some rows, all to the same owner, is an assignment of the inventory.
LEMMA WriteIsAssign ==
    ASSUME NEW S \in SUBSET Tickets, NEW who, NEW time,
           \A t \in S : OwnerOf(tickets'[t]) = who /\ UntilOf(tickets'[t]) = time,
           \A t \in Tickets \ S : tickets'[t] = tickets[t],
           clock' = clock
    PROVE  Inventory!Assign(S, who) /\ Inventory!Until(S, time)
BY DEF Inventory!Assign, Inventory!Until, OwnerOf, UntilOf

\* Seats that become AVAILABLE have no owner.
LEMMA FreeIsAssign ==
    ASSUME NEW S \in SUBSET Tickets, tickets' = FreeTickets(S), clock' = clock
    PROVE  Inventory!Assign(S, Null) /\ Inventory!Until(S, 0)
<1>1. \A t \in S : OwnerOf(tickets'[t]) = Null /\ UntilOf(tickets'[t]) = 0
  BY DEF FreeTickets, AvailableTicket, OwnerOf, UntilOf
<1>2. \A t \in Tickets \ S : tickets'[t] = tickets[t]
  BY DEF FreeTickets
<1> QED  BY <1>1, <1>2, WriteIsAssign

inventoryVars ==
    <<[t \in Tickets |->
          IF tickets[t].status = "HELD" THEN tickets[t].hold ELSE tickets[t].booking],
      [t \in Tickets |-> IF tickets[t].status = "HELD" THEN tickets[t].expires ELSE 0],
      clock>>

\* Every step of the lease half is a lease, a return, a reclaim or a tick.
LEMMA HoldsStepMaps ==
    ASSUME TypeIInv, LeaseAgreement, ClockBounded, HoldsNext
    PROVE  Inventory!InventoryNext \/ UNCHANGED inventoryVars
<1>0. /\ HoldTypeOK /\ clock \in Nat
      /\ \A t \in Tickets : TicketChecks(tickets[t]) /\ tickets[t] \in TicketColumns
  BY DEF TypeIInv, HoldTypeOK
<1>1. ASSUME NEW c \in Claimers, NEW h \in HoldIds, ClaimSeats(c, h)
      PROVE  Inventory!InventoryNext
  <2>1. /\ claim[c].seats \in SUBSET Tickets
        /\ claim[c].now \in Nat /\ claim[c].now <= clock
    BY <1>0 DEF HoldTypeOK, ClaimCalls
  <2>2. PICK S \in SUBSET Tickets, time \in 0 .. (MaxTime + HoldTTL + PaymentBudget) :
            S = claim[c].seats /\ time = claim[c].now + HoldTTL
    <3>1. claim[c].now + HoldTTL \in 0 .. (MaxTime + HoldTTL + PaymentBudget)
      BY <1>0, <2>1, HoldsAssumption, BookingAssumption DEF ClockBounded
    <3> QED  BY <2>1, <3>1
  <2>3. Inventory!Leased(h) = {}
    BY <1>1, NoneHoldsNothing, LeasedAndSold DEF ClaimSeats
  <2>4. \A t \in S : Inventory!RunOut(t) \/ OwnerOf(tickets[t]) = Null
    <3> SUFFICES ASSUME NEW t \in S PROVE Inventory!RunOut(t) \/ OwnerOf(tickets[t]) = Null
      OBVIOUS
    <3>1. t \in Tickets /\ Claimable(t, claim[c].now)
      BY <1>1, <2>2 DEF ClaimSeats, SeatsClaimable
    <3>2. CASE tickets[t].status = "AVAILABLE"
      BY <1>0, <3>1, <3>2 DEF OwnerOf, TicketChecks
    <3>3. CASE tickets[t].status = "HELD" /\ tickets[t].expires <= claim[c].now
      <4>1. tickets[t].expires \in Nat
        BY <1>0, <3>1, <3>3 DEF TicketChecks
      <4>2. tickets[t].expires <= clock
        BY <1>0, <2>1, <3>3, <4>1
      <4> QED  BY <3>1, <3>3, <4>2, LeasedAndSold
    <3> QED  BY <3>1, <3>2, <3>3 DEF Claimable, Lapsed
  <2>5. Inventory!Assign(S, h) /\ Inventory!Until(S, time)
    <3>1. \A t \in S : OwnerOf(tickets'[t]) = h /\ UntilOf(tickets'[t]) = time
      BY <1>1, <2>2 DEF ClaimSeats, OwnerOf, UntilOf
    <3>2. (\A t \in Tickets \ S : tickets'[t] = tickets[t]) /\ clock' = clock
      BY <1>1, <2>2 DEF ClaimSeats
    <3> QED  BY <3>1, <3>2, WriteIsAssign
  <2>6. Inventory!Lease(h, S)
    <3>1. \A t \in S : Inventory!RunOut(t) \/
              (IF tickets[t].status = "HELD" THEN tickets[t].hold ELSE tickets[t].booking) = Null
      BY <2>4 DEF OwnerOf
    <3> QED  BY <2>3, <2>5, <3>1 DEF Inventory!Lease
  <2> QED  BY <2>6 DEF Inventory!InventoryNext
<1>2. ASSUME NEW u \in Users, NEW h \in HoldIds, ReleaseHold(u, h)
      PROVE  Inventory!InventoryNext
  <2>1. HeldBy(h) \in SUBSET Tickets
    BY DEF HeldBy
  <2>2. Inventory!GiveBack(h)
    BY <1>2, <2>1, FreeIsAssign, LeasedAndSold DEF ReleaseHold, Inventory!GiveBack
  <2> QED  BY <2>2 DEF Inventory!InventoryNext
<1>3. ASSUME NEW r \in Reapers, NEW S \in SUBSET Tickets, ReapBatch(r, S)
      PROVE  Inventory!InventoryNext
  <2>1. sweep[r].now \in Nat /\ sweep[r].now <= clock
    BY <1>0 DEF HoldTypeOK, Sweeps
  <2>2. \A t \in S : Inventory!RunOut(t)
    <3> SUFFICES ASSUME NEW t \in S PROVE Inventory!RunOut(t)
      OBVIOUS
    <3>1. t \in Tickets /\ tickets[t].status = "HELD" /\ tickets[t].expires <= sweep[r].now
      BY <1>3 DEF ReapBatch, Reapable
    <3>2. tickets[t].expires \in Nat
      BY <1>0, <3>1 DEF TicketChecks
    <3> QED  BY <1>0, <2>1, <3>1, <3>2, LeasedAndSold
  <2>3. Inventory!Reclaim(S)
    BY <1>3, <2>2, FreeIsAssign DEF ReapBatch, Inventory!Reclaim
  <2> QED  BY <2>3 DEF Inventory!InventoryNext
<1>4. CASE Tick
  BY <1>4 DEF Tick, Inventory!InventoryNext, Inventory!PassTime
<1>5. CASE UNCHANGED <<tickets, clock>>
  BY <1>5 DEF inventoryVars
<1> QED
  BY <1>1, <1>2, <1>3, <1>4, <1>5
  DEF HoldsNext, ClaimStep, CreateHold, AssertQuota, QuotaRejected, ClaimRejected, ClaimFails,
      ReapStep, ReapStart, ReapHolds, ReapFails

\* Every step of the saga is an extension, a sale, a return, or invisible.
LEMMA PurchaseStepMaps ==
    ASSUME SalesIInv, ClockBounded, NEW b \in Callers, PurchaseStep(b)
    PROVE  Inventory!InventoryNext \/ UNCHANGED inventoryVars
<1>0. /\ TypeIInv /\ HoldTypeOK /\ LeaseAgreement /\ clock \in Nat /\ clock' = clock
      /\ \A t \in Tickets : TicketChecks(tickets[t]) /\ tickets[t] \in TicketColumns
      /\ holds \in [HoldIds -> HoldColumns]
  BY PurchaseWrites DEF SalesIInv, TypeIInv, HoldTypeOK
<1>1. ASSUME buy[b].pc # "idle" PROVE buy[b].hold \in HoldIds /\ BookingOf(b) \in BookingIds
  BY <1>0, <1>1, BookingOfType
<1>2. CASE /\ PrepareLease(b) /\ NeedsExtension(b)
           /\ ExtendLease(buy[b].hold, buy[b].now + PaymentBudget)
  <2>1. buy[b].now \in Nat /\ buy[b].now <= clock
    BY <1>0, <1>2 DEF SalesIInv, BuyKnows, TypeIInv, Purchases, PrepareLease
  <2>2. PICK h \in HoldIds : h = buy[b].hold
    BY <1>1, <1>2 DEF PrepareLease
  <2>3. PICK S \in SUBSET Tickets, time \in 0 .. (MaxTime + HoldTTL + PaymentBudget) :
            S = HeldBy(h) /\ time = buy[b].now + PaymentBudget
    <3>1. buy[b].now + PaymentBudget \in 0 .. (MaxTime + HoldTTL + PaymentBudget)
      BY <1>0, <2>1, HoldsAssumption, BookingAssumption DEF ClockBounded
    <3>2. HeldBy(h) \in SUBSET Tickets
      BY DEF HeldBy
    <3> QED  BY <3>1, <3>2
  <2>4. \A t \in S : UntilOf(tickets[t]) <= time
    <3> SUFFICES ASSUME NEW t \in S PROVE UntilOf(tickets[t]) <= time
      OBVIOUS
    <3>1. t \in Tickets /\ UntilOf(tickets[t]) = holds[h].expires /\ holds[h].expires \in Nat
      BY <1>0, <2>3 DEF HeldBy, LeaseAgreement, UntilOf, HoldColumns
    <3>2. holds[h].expires - buy[b].now < PaymentBudget
      BY <1>2, <2>2 DEF NeedsExtension
    <3> QED  BY <2>1, <2>3, <3>1, <3>2, BookingAssumption
  <2>5. \A t \in S : OwnerOf(tickets'[t]) = h /\ UntilOf(tickets'[t]) = time
    BY <1>0, <1>2, <2>2, <2>3
    DEF ExtendLease, ExtendTickets, HeldBy, OwnerOf, UntilOf, TicketColumns
  <2>6. \A t \in Tickets \ S : tickets'[t] = tickets[t]
    BY <1>2, <2>2, <2>3 DEF ExtendLease, ExtendTickets
  <2>7. Inventory!Assign(S, h) /\ Inventory!Until(S, time)
    BY <1>0, <2>5, <2>6, WriteIsAssign
  <2>8. \A t \in Tickets : OwnerOf(tickets'[t]) = OwnerOf(tickets[t])
    BY <2>3, <2>5, <2>6 DEF HeldBy, OwnerOf
  <2>9. Inventory!Leased(h) = S
    BY <1>0, <2>3, LeasedAndSold
  <2>10. Inventory!Extend(h)
    <3>1. \A t \in S :
              (IF tickets[t].status = "HELD" THEN tickets[t].expires ELSE 0) <= time
      BY <2>4 DEF UntilOf
    <3>2. \A t \in S :
              [u \in Tickets |-> IF tickets[u].status = "HELD" THEN tickets[u].expires ELSE 0][t]
                  <= time
      BY <3>1
    <3>3. UNCHANGED [t \in Tickets |->
              IF tickets[t].status = "HELD" THEN tickets[t].hold ELSE tickets[t].booking]
      BY <2>8 DEF OwnerOf
    <3> QED  BY <1>0, <2>7, <2>9, <3>2, <3>3 DEF Inventory!Extend
  <2> QED  BY <2>10 DEF Inventory!InventoryNext
<1>3. CASE ConvertToSold(b)
  <2>1. PICK h \in HoldIds, id \in BookingIds : h = buy[b].hold /\ id = BookingOf(b)
    BY <1>1, <1>3 DEF ConvertToSold, ChargeReturned
  <2>2. HeldBy(h) = buy[b].seats /\ HeldBy(h) # {} /\ HeldBy(h) \in SUBSET Tickets
    BY <1>3, <2>1, SaleIsWhole
  <2>3. SoldTo(id) = {}
    BY <1>3, <2>1, SaleIsWhole DEF SalesIInv, SalesMatchBookings, SoldTo
  <2>4. \A t \in HeldBy(h) : OwnerOf(tickets'[t]) = id /\ UntilOf(tickets'[t]) = 0
    BY <1>3, <2>1, <2>2, SaleIsWhole DEF OwnerOf, UntilOf
  <2>5. \A t \in Tickets \ HeldBy(h) : tickets'[t] = tickets[t]
    BY <1>3, <2>2, SaleIsWhole
  <2>6. Inventory!Assign(HeldBy(h), id) /\ Inventory!Until(HeldBy(h), 0)
    BY <1>0, <2>2, <2>4, <2>5, WriteIsAssign
  <2>7. Inventory!Sell(h, id)
    BY <1>0, <2>2, <2>3, <2>6, LeasedAndSold DEF Inventory!Sell
  <2> QED  BY <2>7 DEF Inventory!InventoryNext
<1>4. CASE RecordDeclined(b)
  <2>1. PICK h \in HoldIds : h = buy[b].hold
    BY <1>1, <1>4 DEF RecordDeclined, ChargeReturned
  <2>2. HeldBy(h) \in SUBSET Tickets
    BY DEF HeldBy
  <2>3. Inventory!GiveBack(h)
    BY <1>0, <1>4, <2>1, <2>2, FreeIsAssign, LeasedAndSold DEF RecordDeclined, Inventory!GiveBack
  <2> QED  BY <2>3 DEF Inventory!InventoryNext
<1>5. CASE UNCHANGED <<tickets, clock>>
  BY <1>5 DEF inventoryVars
<1> QED  BY <1>0, <1>2, <1>3, <1>4, <1>5, PurchaseWrites

LEMMA BoundedClock == Spec => []ClockBounded
<1>1. Init => ClockBounded
  BY HoldsAssumption DEF Init, HoldsInit, ClockBounded
<1>2. TypeIInv /\ ClockBounded /\ [Next]_vars => ClockBounded'
  BY HoldsClock, PurchaseWrites DEF TypeIInv, Next, vars, ClockBounded, HoldTypeOK, holdVars
<1> QED  BY <1>1, <1>2, BookingTypes, PTL DEF Spec

\* The tables, with every request, sweep, payment and crash that works on them,
\* implement the inventory of owned tickets: each step of the program is one lease,
\* extension, return, reclaim or sale of it, or leaves it alone.
THEOREM TablesAreAnInventory == Spec => RefinesInventory
<1>1. Init => Inventory!InventoryInit
  BY DEF Init, HoldsInit, AvailableTicket, Inventory!InventoryInit
<1>2. SalesIInv /\ ClockBounded /\ [Next]_vars => [Inventory!InventoryNext]_inventoryVars
  <2> SUFFICES ASSUME SalesIInv, ClockBounded, Next
               PROVE  Inventory!InventoryNext \/ UNCHANGED inventoryVars
    BY DEF vars, holdVars, inventoryVars
  <2> QED  BY HoldsStepMaps, PurchaseStepMaps DEF Next, SalesIInv
<1>3. [][Inventory!InventoryNext]_inventoryVars /\ Inventory!InventoryInit => RefinesInventory
  BY DEF RefinesInventory, Inventory!InventorySpec, inventoryVars
<1> QED  BY <1>1, <1>2, <1>3, BookingSales, BoundedClock, PTL DEF Spec
=============================================================================
