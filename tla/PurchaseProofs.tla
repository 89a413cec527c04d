---------------------------- MODULE PurchaseProofs ----------------------------
(***************************************************************************)
(* What a purchase may rely on while its payment is under way (D9), and    *)
(* where the money is afterwards, for every number of users, keys, calls   *)
(* and sweeps.                                                             *)
(*                                                                         *)
(* The lease of a purchase that was given its budget ends early only by a  *)
(* release, a sale or a declined payment of the same hold.  Bookings       *)
(* account for the money whatever keys clients send; that it goes back at  *)
(* most once, and never from under a confirmed booking, needs that no two  *)
(* users send the same key, since a payment is named by its key alone.     *)
(***************************************************************************)
EXTENDS BookingProofs

\* Hold h has been ended by its owner.
Ended(h) == holds[h].status \in {"RELEASED", "CONVERTED"}

\* While the charge runs, the lease outlives the budget, unless the budget is used up
\* or the hold was ended.
BudgetKept(b) ==
    /\ buy[b].pc \in {"charge", "charging"} =>
           \/ clock >= buy[b].now + PaymentBudget
           \/ Ended(buy[b].hold)
           \/ /\ HeldBy(buy[b].hold) = buy[b].seats
              /\ holds[buy[b].hold].expires >= buy[b].now + PaymentBudget
    /\ buy[b].pc = "compensate" =>
           \/ clock >= buy[b].now + PaymentBudget
           \/ Ended(buy[b].hold)

BudgetIInv == \A b \in Callers : BudgetKept(b)

\* A hold that was ended stays ended, and only its owner's requests end one that has
\* time left; whoever lengthens it meanwhile lengthens it for all.
LEMMA HoldsStepLeaseRuns ==
    ASSUME SalesIInv, SalesIInv', [HoldsNext]_holdVars, NEW h \in HoldIds, NEW time \in Nat,
           HeldBy(h) # {}, holds[h].expires >= time, clock < time
    PROVE  Ended(h)' \/ (HeldBy(h)' = HeldBy(h) /\ holds'[h].expires >= time)
<1>0. /\ HoldTypeOK /\ LeaseAgreement /\ LeaseAgreement' /\ holds \in [HoldIds -> HoldColumns]
      /\ clock \in Nat
      /\ \A t \in Tickets : TicketChecks(tickets[t])
  BY DEF SalesIInv, TypeIInv, HoldTypeOK
<1>1. \A t \in HeldBy(h) : /\ t \in Tickets /\ tickets[t].status = "HELD" /\ tickets[t].hold = h
                           /\ tickets[t].expires = holds[h].expires
  BY <1>0 DEF HeldBy, LeaseAgreement
<1>2. CASE \E t \in HeldBy(h) : tickets'[t] # tickets[t]
  <2>1. PICK t \in HeldBy(h) : tickets'[t] # tickets[t]
    BY <1>2
  <2>2. tickets[t].expires > clock /\ HoldsNext
    BY <1>0, <1>1, <2>1 DEF HoldColumns, holdVars
  <2> QED  BY <1>0, <1>1, <2>1, <2>2, HoldsStepKeepsLeases DEF Ended
<1>3. CASE \A t \in HeldBy(h) : tickets'[t] = tickets[t]
  <2>1. HeldBy(h) \subseteq HeldBy(h)'
    BY <1>1, <1>3 DEF HeldBy
  <2>2. HeldBy(h)' \subseteq HeldBy(h)
    <3>1. holds[h].status # "NONE"
      BY <1>0, NoneHoldsNothing
    <3> QED  BY <1>0, <3>1, HoldsLiveOn
  <2>3. PICK t \in HeldBy(h) : TRUE
    OBVIOUS
  <2>4. holds'[h].expires = tickets'[t].expires
    BY <1>0, <1>1, <1>3, <2>3 DEF LeaseAgreement
  <2> QED  BY <1>1, <1>3, <2>1, <2>2, <2>3, <2>4
<1> QED  BY <1>2, <1>3

LEMMA PurchaseLeaseRuns ==
    ASSUME SalesIInv, NEW b \in Callers, PurchaseStep(b), NEW h \in HoldIds, NEW time \in Nat,
           holds[h].expires >= time
    PROVE  Ended(h)' \/ (HeldBy(h)' = HeldBy(h) /\ holds'[h].expires >= time)
<1>0. /\ TypeIInv /\ BuyKnows(b) /\ holds \in [HoldIds -> HoldColumns]
      /\ tickets \in [Tickets -> TicketColumns] /\ buy \in [Callers -> Purchases]
  BY DEF SalesIInv, TypeIInv, HoldTypeOK
<1>1. ASSUME buy[b].pc # "idle" PROVE buy[b].hold \in HoldIds
  BY <1>0, <1>1, BookingOfType
<1>2. CASE /\ PrepareLease(b) /\ NeedsExtension(b)
           /\ ExtendLease(buy[b].hold, buy[b].now + PaymentBudget)
  <2>1. HeldBy(h)' = HeldBy(h)
    BY <1>0, <1>2 DEF ExtendLease, ExtendTickets, HeldBy, TicketColumns
  <2>2. holds'[h].expires >= holds[h].expires
    BY <1>0, <1>2, BookingAssumption DEF ExtendLease, NeedsExtension, HoldColumns, Purchases
  <2>3. holds'[h].expires \in Nat /\ holds[h].expires \in Nat
    BY <1>0, <1>2, PurchaseHoldType DEF HoldTypeOK, HoldColumns
  <2> QED  BY <2>1, <2>2, <2>3
<1>3. CASE ConvertToSold(b)
  <2>1. CASE h = buy[b].hold
    BY <1>0, <1>3, <2>1 DEF ConvertToSold, Ended, HoldColumns
  <2>2. CASE h # buy[b].hold
    <3>1. holds'[h] = holds[h]
      BY <1>0, <1>3, <2>2 DEF ConvertToSold
    <3>2. HeldBy(h)' = HeldBy(h)
      BY <1>3, <2>2, SaleIsWhole DEF HeldBy
    <3> QED  BY <3>1, <3>2
  <2> QED  BY <2>1, <2>2
<1>4. CASE RecordDeclined(b)
  <2>1. CASE h = buy[b].hold
    BY <1>0, <1>4, <2>1 DEF RecordDeclined, Ended, HoldColumns
  <2>2. CASE h # buy[b].hold
    BY <1>0, <1>4, <2>2 DEF RecordDeclined, FreeTickets, AvailableTicket, HeldBy
  <2> QED  BY <2>1, <2>2
<1>5. CASE UNCHANGED <<tickets, holds>>
  BY <1>5 DEF HeldBy
<1> QED  BY <1>2, <1>3, <1>4, <1>5, PurchaseWrites

LEMMA EndedStays ==
    ASSUME SalesIInv, [Next]_vars, NEW h \in HoldIds, Ended(h)
    PROVE  Ended(h)'
<1>0. /\ TypeIInv /\ holds \in [HoldIds -> HoldColumns]
  BY DEF SalesIInv, TypeIInv, HoldTypeOK
<1>1. ASSUME NEW c \in Claimers, NEW g \in HoldIds, ClaimSeats(c, g) PROVE Ended(h)'
  BY <1>1 DEF ClaimSeats, Displaced, Ended
<1>2. ASSUME NEW u \in Users, NEW g \in HoldIds, ReleaseHold(u, g) PROVE Ended(h)'
  BY <1>0, <1>2 DEF ReleaseHold, Ended, HoldColumns
<1>3. ASSUME NEW r \in Reapers, ReapHolds(r) PROVE Ended(h)'
  BY <1>3 DEF ReapHolds, Ended
<1>4. ASSUME NEW b \in Callers, PurchaseStep(b) PROVE Ended(h)'
  <2>1. CASE ConvertToSold(b) \/ RecordDeclined(b)
    BY <1>0, <2>1 DEF ConvertToSold, RecordDeclined, Ended, HoldColumns
  <2>2. CASE ExtendLease(buy[b].hold, buy[b].now + PaymentBudget)
    BY <1>0, <2>2 DEF ExtendLease, Ended, HoldColumns
  <2> QED  BY <1>4, <2>1, <2>2, PurchaseWrites DEF Ended
<1>5. CASE UNCHANGED holds
  BY <1>5 DEF Ended
<1> QED
  BY <1>1, <1>2, <1>3, <1>4, <1>5
  DEF Next, vars, holdVars, HoldsNext, ClaimStep, CreateHold, AssertQuota, QuotaRejected,
      ClaimRejected, ClaimFails, ReapStep, ReapStart, ReapBatch, ReapFails, Tick

LEMMA NextClock ==
    ASSUME SalesIInv, [Next]_vars
    PROVE  clock \in Nat /\ clock' \in Nat /\ clock <= clock'
<1>1. CASE [HoldsNext]_holdVars
  BY <1>1, HoldsClock DEF SalesIInv, TypeIInv
<1>2. ASSUME NEW b \in Callers, PurchaseStep(b) PROVE clock' = clock /\ clock \in Nat
  BY <1>2, PurchaseWrites DEF SalesIInv, TypeIInv, HoldTypeOK
<1> QED  BY <1>1, <1>2 DEF Next, vars

\* A purchase that makes no step keeps its budget, whoever else steps.
LEMMA BudgetCarries ==
    ASSUME SalesIInv, SalesIInv', [Next]_vars, NEW b \in Callers,
           buy'[b] = buy[b], BudgetKept(b)
    PROVE  BudgetKept(b)'
<1>0. TypeIInv /\ BuyKnows(b) /\ clock \in Nat /\ clock' \in Nat /\ clock <= clock'
  BY NextClock DEF SalesIInv
<1>1. CASE buy[b].pc \notin {"charge", "charging", "compensate"}
  BY <1>1 DEF BudgetKept
<1>2. CASE buy[b].pc \in {"charge", "charging", "compensate"}
  <2>1. buy[b].hold \in HoldIds /\ buy[b].now + PaymentBudget \in Nat
    BY <1>0, <1>2, BookingOfType, BookingAssumption DEF TypeIInv, Purchases
  <2>2. PICK h \in HoldIds, time \in Nat : h = buy[b].hold /\ time = buy[b].now + PaymentBudget
    BY <2>1
  <2>3. Ended(h) => Ended(h)'
    BY EndedStays
  <2>4. Ended(buy[b].hold)' <=> Ended(h)'
    BY <2>2 DEF Ended
  <2>5. HeldBy(buy[b].hold)' = HeldBy(h)'
    BY <2>2 DEF HeldBy
  <2>6. CASE clock >= time
    BY <1>0, <2>2, <2>6 DEF BudgetKept
  <2>7. CASE Ended(h)
    BY <2>2, <2>3, <2>4, <2>7 DEF BudgetKept
  <2>8. CASE clock < time /\ ~Ended(h)
    <3>1. /\ buy[b].pc \in {"charge", "charging"}
          /\ HeldBy(h) = buy[b].seats /\ holds[h].expires >= time
      BY <1>0, <1>2, <2>2, <2>8 DEF BudgetKept
    <3>2. HeldBy(h) # {}
      BY <1>0, <3>1 DEF BuyKnows, HasPriced
    <3>3. Ended(h)' \/ (HeldBy(h)' = HeldBy(h) /\ holds'[h].expires >= time)
      BY <2>8, <3>1, <3>2, HoldsStepLeaseRuns, PurchaseLeaseRuns DEF Next, vars
    <3> QED  BY <2>2, <2>4, <2>5, <3>1, <3>3 DEF BudgetKept
  <2> QED  BY <1>0, <2>6, <2>7, <2>8
<1> QED  BY <1>1, <1>2

\* The purchase that makes the step: its lease is lengthened when it is too short, and
\* a sale that finds a seat gone finds its budget used up or its hold ended.
LEMMA BudgetSteps ==
    ASSUME SalesIInv, SalesIInv', NEW b \in Callers, PurchaseStep(b), BudgetKept(b)
    PROVE  BudgetKept(b)'
<1>0. /\ TypeIInv /\ buy \in [Callers -> Purchases] /\ holds \in [HoldIds -> HoldColumns]
      /\ clock' = clock
  BY PurchaseWrites DEF SalesIInv, TypeIInv, HoldTypeOK
<1>1. CASE PrepareLease(b)
  <2>1. /\ buy'[b].pc = "charge" /\ buy'[b].hold = buy[b].hold /\ buy'[b].now = buy[b].now
        /\ buy'[b].seats = HeldBy(buy[b].hold)
    BY <1>0, <1>1, BuyPriced
  <2>2. PICK h \in HoldIds : h = buy[b].hold
    BY <1>0, <1>1, BookingOfType DEF PrepareLease
  <2>3. HeldBy(buy[b].hold)' = HeldBy(h)'
    BY <2>1, <2>2 DEF HeldBy
  <2>4. buy[b].now \in Nat /\ holds[h].expires \in Nat
    BY <1>0 DEF Purchases, HoldColumns
  <2>5. HeldBy(h)' = HeldBy(h) /\ holds'[h].expires >= buy[b].now + PaymentBudget
    <3>1. CASE NeedsExtension(b)
      <4>1. ExtendLease(h, buy[b].now + PaymentBudget)
        BY <1>1, <2>2, <3>1 DEF PrepareLease
      <4>2. holds'[h].expires = buy[b].now + PaymentBudget
        BY <1>0, <4>1 DEF ExtendLease, HoldColumns
      <4>3. HeldBy(h)' = HeldBy(h)
        BY <1>0, <4>1 DEF ExtendLease, ExtendTickets, HeldBy, TypeIInv, HoldTypeOK, TicketColumns
      <4> QED  BY <2>4, <4>2, <4>3, BookingAssumption
    <3>2. CASE ~NeedsExtension(b)
      <4>1. UNCHANGED <<tickets, holds>>
        BY <1>1, <3>2 DEF PrepareLease
      <4>2. holds[h].expires >= buy[b].now + PaymentBudget
        BY <2>2, <2>4, <3>2, BookingAssumption DEF NeedsExtension
      <4> QED  BY <4>1, <4>2 DEF HeldBy
    <3> QED  BY <3>1, <3>2
  <2> QED  BY <2>1, <2>2, <2>3, <2>5 DEF BudgetKept
<1>2. CASE StartCharge(b)
  <2>1. /\ buy'[b].pc = "charging" /\ buy'[b].hold = buy[b].hold /\ buy'[b].now = buy[b].now
        /\ buy'[b].seats = buy[b].seats /\ buy[b].pc = "charge"
    BY <1>0, <1>2, BuyMoves DEF StartCharge
  <2>2. UNCHANGED <<tickets, holds, clock>>
    BY <1>2 DEF StartCharge, holdVars
  <2> QED  BY <2>1, <2>2 DEF BudgetKept, Ended, HeldBy
<1>3. CASE ConvertLost(b)
  <2>1. /\ buy'[b].pc = "compensate" /\ buy'[b].hold = buy[b].hold /\ buy'[b].now = buy[b].now
        /\ buy[b].pc = "charging"
    BY <1>0, <1>3, BuyMoves DEF ConvertLost, ChargeReturned
  <2>2. UNCHANGED <<tickets, holds, clock>> /\ HeldBy(buy[b].hold) # buy[b].seats
    BY <1>3 DEF ConvertLost, holdVars, SeatsStillOurs
  <2> QED  BY <2>1, <2>2 DEF BudgetKept, Ended
<1>4. CASE buy' = buy
  BY <1>4, BudgetCarries DEF Next
<1>5. CASE buy'[b].pc \notin {"charge", "charging", "compensate"}
  BY <1>5 DEF BudgetKept
<1>6. EndPurchase(b) => buy'[b].pc = "idle"
  BY <1>0, BuyEnds
<1>7. ASSUME NEW u \in Users, NEW h \in HoldIds, NEW tok \in HoldIds, NEW k \in KeysOf[u],
             Purchase(b, u, h, tok, k)
      PROVE  buy'[b].pc = "prepare"
  BY <1>0, <1>7 DEF Purchase
<1>8. Compensate(b) \/ StartRefund(b) => buy'[b].pc \in {"refund", "refunding"}
  BY <1>0, BuyMoves DEF Compensate, StartRefund
<1> QED
  BY <1>1, <1>2, <1>3, <1>4, <1>5, <1>6, <1>7, <1>8
  DEF PurchaseStep, PrepareRejected, ChargeError, ConvertToSold, RecordDeclined,
      ReplayBooking, RefundReturned, PurchaseFails, bookingVars

LEMMA BudgetStep == SalesIInv /\ BudgetIInv /\ [Next]_vars => BudgetIInv'
<1> SUFFICES ASSUME SalesIInv, BudgetIInv, [Next]_vars, NEW b \in Callers
             PROVE  BudgetKept(b)'
  BY DEF BudgetIInv
<1>1. SalesIInv' /\ BudgetKept(b)
  BY SalesStep DEF BudgetIInv
<1>2. CASE PurchaseStep(b)
  BY <1>1, <1>2, BudgetSteps
<1>3. ASSUME NEW c \in Callers \ {b}, PurchaseStep(c) PROVE BudgetKept(b)'
  <2>1. buy'[b] = buy[b]
    BY <1>3, PurchaseBuyType DEF SalesIInv
  <2> QED  BY <1>1, <2>1, BudgetCarries
<1>4. CASE UNCHANGED bookingVars
  BY <1>1, <1>4, BudgetCarries DEF bookingVars
<1> QED  BY <1>2, <1>3, <1>4 DEF Next, vars

\* D9: a purchase whose charge ends within the payment budget finds its seats, unless
\* its owner released the hold, bought it with another purchase, or had another
\* purchase of it declined.
THEOREM PaymentsHaveTheirBudget == Spec => []BudgetProtectsPayment
<1>1. Init => BudgetIInv
  BY DEF Init, BudgetIInv, BudgetKept, IdleBuy
<1>2. BudgetIInv => BudgetProtectsPayment
  BY DEF BudgetIInv, BudgetKept, Ended, BudgetProtectsPayment
<1> QED  BY <1>1, <1>2, BudgetStep, BookingSales, PTL DEF Spec

-----------------------------------------------------------------------------
(***************************************************************************)
(* Money.  payments names a payment by its key alone; the keys are the     *)
(* clients', so that each is one user's is their doing.                    *)
(***************************************************************************)
KeysAreUsersOwn == \A u, v \in Users : u # v => KeysOf[u] \cap KeysOf[v] = {}

\* The payment call of purchase b is the one it is waiting for.
PayLink(b) ==
    /\ buy[b].pc \notin {"charging", "refunding"} => pay[b].pc = "idle"
    /\ buy[b].pc = "charging" =>
           /\ pay[b].pc \in {"provider", "record", "replay", "returned"}
           /\ pay[b].key = buy[b].key /\ pay[b].amount = buy[b].total
    /\ buy[b].pc = "refunding" =>
           /\ pay[b].pc \in {"refund", "recordRefund", "returned"}
           /\ pay[b].key = buy[b].key

Refunder(b) == buy[b].pc \in {"refund", "refunding"}

\* Whoever recorded the obligation is alone to give the money back ...
OneRefunder ==
    \A b, c \in Callers : Refunder(b) /\ Refunder(c) /\ BookingOf(b) = BookingOf(c) => b = c

RefundAhead(b) == buy[b].pc = "refund" \/ (buy[b].pc = "refunding" /\ pay[b].pc = "refund")

\* ... and until it does, nobody has.
NotRefundedYet == \A b \in Callers : RefundAhead(b) => provider[buy[b].key].refunds = 0

\* Money that went back is recorded in a booking of a user with that key.
RefundRecorded ==
    \A k \in Keys : provider[k].refunds > 0 =>
        \E u \in Users : /\ k \in KeysOf[u]
                         /\ bookings[<<u, k>>].status \in {"COMPENSATING", "COMPENSATED"}

RefundedOnce == \A k \in Keys : provider[k].refunds <= 1

\* What a booking says of its payment.
BookingPaid(id) ==
    /\ bookings[id].status # "NONE" => id[2] \in KeysOf[id[1]]
    /\ bookings[id].status = "CONFIRMED" =>
           payments[id[2]].state = "COMPLETED" /\ payments[id[2]].amount = bookings[id].total
    /\ bookings[id].status = "COMPENSATED" => payments[id[2]].refunded

\* Whatever keys the clients use ...
PaidIInv ==
    /\ \A b \in Callers : PayLink(b)
    /\ OneRefunder
    /\ RefundRecorded
    /\ \A id \in BookingIds : BookingPaid(id)

\* ... and when each key is one user's.
MoneyIInv == NotRefundedYet /\ RefundedOnce

\* Where a payment call goes: forward, with its key and its amount.
LEMMA PayStepMoves ==
    ASSUME pay \in [Callers -> PayCalls], NEW b \in Callers, PayStep(b)
    PROVE  /\ pay'[b].key = pay[b].key /\ pay'[b].amount = pay[b].amount
           /\ \/ /\ pay[b].pc \in {"provider", "record", "replay"}
                 /\ pay'[b].pc \in {"record", "returned"}
              \/ /\ pay[b].pc \in {"refund", "recordRefund"}
                 /\ pay'[b].pc \in {"recordRefund", "returned"}
           /\ \A c \in Callers \ {b} : pay'[c] = pay[c]
<1>1. ASSUME NEW res \in Results, pay' = Returned(b, res)
      PROVE  /\ pay'[b].key = pay[b].key /\ pay'[b].amount = pay[b].amount
             /\ pay'[b].pc = "returned" /\ \A c \in Callers \ {b} : pay'[c] = pay[c]
  BY <1>1, CallMoves DEF Returned, Labels
<1>2. CASE ProviderCharge(b)
  <2>1. CASE pay' = Returned(b, "error")
    BY <1>1, <1>2, <2>1 DEF ProviderCharge, Results
  <2>2. ASSUME NEW res \in {"COMPLETED", "FAILED"},
               pay' = [pay EXCEPT ![b].pc = "record", ![b].result = res]
        PROVE  /\ pay'[b].key = pay[b].key /\ pay'[b].amount = pay[b].amount
               /\ pay'[b].pc = "record" /\ \A c \in Callers \ {b} : pay'[c] = pay[c]
    BY <2>2, CallMoves DEF Results, Labels
  <2> QED  BY <1>2, <2>1, <2>2 DEF ProviderCharge
<1>3. CASE RecordCharge(b)
  BY <1>3 DEF RecordCharge, PayCalls
<1>4. CASE Replay(b)
  <2>1. pay' = Returned(b, "error") \/ pay' = Returned(b, payments[pay[b].key].state)
    BY <1>4 DEF Replay
  <2> QED  BY <1>4, <2>1 DEF Replay, Returned, PayCalls
<1>5. CASE ProviderRefund(b)
  <2>1. CASE pay' = Returned(b, "error")
    BY <1>1, <1>5, <2>1 DEF ProviderRefund, Results
  <2>2. CASE pay' = [pay EXCEPT ![b].pc = "recordRefund"]
    BY <1>5, <2>2 DEF ProviderRefund, PayCalls
  <2> QED  BY <1>5, <2>1, <2>2 DEF ProviderRefund
<1>6. CASE RecordRefund(b)
  BY <1>1, <1>6 DEF RecordRefund, Results
<1> QED  BY <1>2, <1>3, <1>4, <1>5, <1>6 DEF PayStep

\* What the saga does to a payment that has its outcome, and to the money.
LEMMA PaymentsStay ==
    ASSUME TypeIInv, NEW b \in Callers, PurchaseStep(b), NEW k \in Keys
    PROVE  /\ payments[k].state = "COMPLETED" =>
                  payments'[k].state = "COMPLETED" /\ payments'[k].amount = payments[k].amount
           /\ payments[k].refunded => payments'[k].refunded
           /\ \/ provider'[k].refunds = provider[k].refunds
              \/ /\ pay[b].pc = "refund" /\ PayStep(b) /\ UNCHANGED bookings
                 /\ pay[b].key = k /\ provider'[k].refunds = provider[k].refunds + 1
<1>0. /\ PayIInv /\ payments \in [Keys -> PaymentColumns]
      /\ provider \in [Keys -> [calls : Nat, result : {"none", "approved", "declined"}, refunds : Nat]]
      /\ pay[b].pc # "idle" => pay[b].key \in Keys
  BY DEF TypeIInv, PayIInv, PayTypeOK
<1>1. CASE PayStep(b) /\ UNCHANGED <<holdVars, bookingVars>>
  <2>1. payments'[k].amount = payments[k].amount
    <3>1. CASE RecordCharge(b)
      BY <1>0, <3>1 DEF RecordCharge, PaymentColumns
    <3>2. CASE RecordRefund(b)
      BY <1>0, <3>2 DEF RecordRefund, PaymentColumns
    <3>3. CASE UNCHANGED payments
      BY <3>3
    <3> QED  BY <1>1, <3>1, <3>2, <3>3 DEF PayStep, ProviderCharge, Replay, ProviderRefund
  <2>2. \/ provider'[k].refunds = provider[k].refunds
        \/ pay[b].pc = "refund" /\ pay[b].key = k /\ provider'[k].refunds = provider[k].refunds + 1
    <3>1. CASE ProviderCharge(b)
      <4>1. PICK res : provider' = [provider EXCEPT ![pay[b].key].calls = @ + 1,
                                                    ![pay[b].key].result = res]
        BY <3>1 DEF ProviderCharge
      <4> QED  BY <1>0, <4>1
    <3>2. CASE ProviderRefund(b)
      BY <1>0, <3>2 DEF ProviderRefund
    <3> QED  BY <1>1, <3>1, <3>2 DEF PayStep, RecordCharge, Replay, RecordRefund
  <2>3. UNCHANGED bookings
    BY <1>1 DEF bookingVars
  <2> QED  BY <1>0, <1>1, <2>1, <2>2, <2>3, PayStepKeepsOutcomes
<1>2. CASE StartCharge(b)
  <2>1. payments[k].state = "NONE" \/ payments'[k] = payments[k]
    BY <1>0, <1>2 DEF StartCharge, Charge
  <2>2. payments[k].state = "NONE" => ~payments[k].refunded
    BY <1>0 DEF PayIInv, RefundsAreOfCharges
  <2>3. provider' = provider
    BY <1>2 DEF StartCharge, Charge
  <2> QED  BY <2>1, <2>2, <2>3
<1>3. CASE UNCHANGED <<payments, provider>>
  BY <1>3
<1> QED
  BY <1>1, <1>2, <1>3
  DEF PurchaseStep, Purchase, PrepareLease, PrepareRejected, ChargeError, ConvertToSold,
      ConvertLost, RecordDeclined, Compensate, ReplayBooking, StartRefund, Refund, RefundReturned,
      PurchaseFails, EndPurchase, payVars

\* The purchase and its payment call go on together.
LEMMA PurchaseLinks ==
    ASSUME TypeIInv, NEW b \in Callers, PurchaseStep(b), PayLink(b)
    PROVE  PayLink(b)'
<1>0. buy \in [Callers -> Purchases] /\ pay \in [Callers -> PayCalls]
  BY DEF TypeIInv, PayIInv, PayTypeOK
<1>1. CASE EndPurchase(b)
  BY <1>1, BuyEnds DEF PayLink
<1>2. CASE PayStep(b) /\ UNCHANGED bookingVars
  BY <1>0, <1>2, PayStepMoves DEF PayLink, bookingVars
<1>3. CASE StartCharge(b)
  <2>1. /\ buy'[b].pc = "charging" /\ buy'[b].key = buy[b].key /\ buy'[b].total = buy[b].total
    BY <1>0, <1>3, BuyMoves DEF StartCharge
  <2>2. /\ pay'[b].pc \in {"provider", "replay"} /\ pay'[b].key = buy[b].key
        /\ pay'[b].amount = buy[b].total
    BY <1>0, <1>3 DEF StartCharge, Charge, CallAt
  <2> QED  BY <2>1, <2>2 DEF PayLink
<1>4. CASE StartRefund(b)
  <2>1. buy'[b].pc = "refunding" /\ buy'[b].key = buy[b].key
    BY <1>0, <1>4, BuyMoves DEF StartRefund
  <2>2. pay'[b].pc \in {"refund", "returned"} /\ pay'[b].key = buy[b].key
    BY <1>0, <1>4 DEF StartRefund, Refund, CallAt
  <2> QED  BY <2>1, <2>2 DEF PayLink
<1>5. CASE ConvertLost(b)
  <2>1. buy'[b].pc = "compensate" /\ pay'[b].pc = "idle"
    BY <1>0, <1>5, BuyMoves DEF ConvertLost, IdleCall
  <2> QED  BY <2>1 DEF PayLink
<1>6. CASE PrepareLease(b)
  <2>1. buy'[b].pc = "charge" /\ pay'[b].pc = "idle"
    BY <1>0, <1>6, BuyPriced DEF PrepareLease, PayLink, payVars
  <2> QED  BY <2>1 DEF PayLink
<1>7. CASE Compensate(b)
  <2>1. buy'[b].pc = "refund" /\ pay'[b].pc = "idle"
    BY <1>0, <1>7, BuyMoves DEF Compensate, PayLink, payVars
  <2> QED  BY <2>1 DEF PayLink
<1>8. ASSUME NEW u \in Users, NEW h \in HoldIds, NEW tok \in HoldIds, NEW k \in KeysOf[u],
             Purchase(b, u, h, tok, k)
      PROVE  PayLink(b)'
  <2>1. buy'[b].pc = "prepare" /\ pay'[b].pc = "idle"
    BY <1>0, <1>8 DEF Purchase, PayLink, payVars
  <2> QED  BY <2>1 DEF PayLink
<1> QED
  BY <1>1, <1>2, <1>3, <1>4, <1>5, <1>6, <1>7, <1>8
  DEF PurchaseStep, PrepareRejected, ChargeError, ConvertToSold, RecordDeclined,
      ReplayBooking, RefundReturned, PurchaseFails

\* Two purchases under one key are two calls of one purchase.
LEMMA SameKeySameBooking ==
    ASSUME KeysAreUsersOwn, TypeIInv, NEW b \in Callers, NEW c \in Callers,
           buy[b].pc # "idle", buy[c].pc # "idle", buy[b].key = buy[c].key
    PROVE  BookingOf(b) = BookingOf(c)
BY DEF KeysAreUsersOwn, TypeIInv, BuyTyped, BookingOf

\* Who becomes a refunder has just inserted the booking.
LEMMA RefunderIsNew ==
    ASSUME TypeIInv, NEW b \in Callers, PurchaseStep(b), PayLink(b), Refunder(b)'
    PROVE  /\ BookingOf(b)' = BookingOf(b) /\ buy'[b].key = buy[b].key /\ buy[b].pc # "idle"
           /\ \/ Refunder(b) /\ (RefundAhead(b)' => RefundAhead(b) /\ UNCHANGED provider)
              \/ Compensate(b)
<1>0. /\ TypeIInv /\ buy \in [Callers -> Purchases] /\ pay \in [Callers -> PayCalls]
  BY DEF TypeIInv, PayIInv, PayTypeOK
<1>1. CASE Compensate(b)
  BY <1>0, <1>1, BuyMoves DEF Compensate, BookingOf
<1>2. CASE StartRefund(b)
  BY <1>0, <1>2, BuyMoves DEF StartRefund, Refund, BookingOf, Refunder, RefundAhead
<1>3. CASE PayStep(b) /\ UNCHANGED bookingVars
  <2>1. pay'[b].pc # "refund"
    BY <1>0, <1>3, PayStepMoves
  <2>2. buy' = buy /\ pay[b].pc # "idle"
    BY <1>0, <1>3, PayStepMoves DEF bookingVars
  <2>3. buy[b].pc = "refunding"
    BY <2>2 DEF PayLink, Refunder
  <2> QED  BY <2>1, <2>2, <2>3 DEF BookingOf, Refunder, RefundAhead
<1>4. EndPurchase(b) => buy'[b].pc = "idle"
  BY <1>0, BuyEnds
<1>5. PrepareLease(b) => buy'[b].pc = "charge"
  BY <1>0, BuyPriced
<1>6. StartCharge(b) \/ ConvertLost(b) => buy'[b].pc \in {"charging", "compensate"}
  BY <1>0, BuyMoves DEF StartCharge, ConvertLost
<1>7. ASSUME NEW u \in Users, NEW h \in HoldIds, NEW tok \in HoldIds, NEW k \in KeysOf[u],
             Purchase(b, u, h, tok, k)
      PROVE  buy'[b].pc = "prepare"
  BY <1>0, <1>7 DEF Purchase
<1> QED
  BY <1>1, <1>2, <1>3, <1>4, <1>5, <1>6, <1>7
  DEF PurchaseStep, PrepareRejected, ChargeError, ConvertToSold, RecordDeclined,
      ReplayBooking, RefundReturned, PurchaseFails, Refunder

\* One refunder per booking: the insert of the booking picks it.
LEMMA PurchaseOneRefunder ==
    ASSUME SalesIInv, PaidIInv, NEW b \in Callers, PurchaseStep(b)
    PROVE  OneRefunder'
<1>0. /\ TypeIInv /\ PayLink(b) /\ OneRefunder /\ bookings \in [BookingIds -> BookingColumns]
  BY DEF SalesIInv, TypeIInv, PaidIInv
<1>1. \A c \in Callers \ {b} : buy'[c] = buy[c] /\ BookingOf(c)' = BookingOf(c)
  BY <1>0, PurchaseBuyType DEF BookingOf
<1>2. ASSUME NEW c \in Callers \ {b}, Refunder(b)', Refunder(c)', BookingOf(b)' = BookingOf(c)'
      PROVE  FALSE
  <2>1. Refunder(c) /\ BookingOf(b) = BookingOf(c)
    BY <1>0, <1>1, <1>2, RefunderIsNew DEF Refunder
  <2>2. CASE Refunder(b)
    BY <1>0, <2>1, <2>2 DEF OneRefunder
  <2>3. CASE Compensate(b)
    BY <2>1, <2>3 DEF SalesIInv, BuyKnows, Refunder, Compensate, BookingExists
  <2>4. Refunder(b) \/ Compensate(b)
    BY <1>0, <1>2, RefunderIsNew
  <2> QED  BY <2>2, <2>3, <2>4
<1>3. ASSUME NEW c \in Callers \ {b}, NEW d \in Callers \ {b},
             Refunder(c)', Refunder(d)', BookingOf(c)' = BookingOf(d)'
      PROVE  c = d
  BY <1>0, <1>1, <1>3 DEF OneRefunder, Refunder
<1> QED  BY <1>2, <1>3 DEF OneRefunder

\* The refund that is ahead is the first of its key.
LEMMA PurchaseNotRefundedYet ==
    ASSUME KeysAreUsersOwn, SalesIInv, PaidIInv, MoneyIInv, NEW b \in Callers, PurchaseStep(b)
    PROVE  NotRefundedYet'
<1>0. /\ TypeIInv /\ PayLink(b) /\ OneRefunder /\ NotRefundedYet /\ RefundRecorded
      /\ provider \in [Keys -> [calls : Nat, result : {"none", "approved", "declined"}, refunds : Nat]]
  BY DEF SalesIInv, TypeIInv, PayIInv, PayTypeOK, PaidIInv, MoneyIInv
<1>1. ASSUME NEW c \in Callers \ {b}, RefundAhead(c)' PROVE provider'[buy'[c].key].refunds = 0
  <2>1. buy'[c] = buy[c] /\ pay'[c] = pay[c]
    BY <1>0, PurchaseBuyType, PurchasePayIInv
  <2>2. RefundAhead(c) /\ Refunder(c) /\ buy[c].pc # "idle"
    BY <1>1, <2>1 DEF RefundAhead, Refunder
  <2>3. buy[c].key \in Keys /\ provider[buy[c].key].refunds = 0
    BY <1>0, <2>2, BookingOfType DEF NotRefundedYet
  <2>4. ASSUME pay[b].pc = "refund", pay[b].key = buy[c].key PROVE FALSE
    <3>1. Refunder(b) /\ buy[b].pc # "idle" /\ buy[b].key = buy[c].key
      BY <1>0, <2>4 DEF PayLink, Refunder
    <3> QED  BY <1>0, <2>2, <3>1, SameKeySameBooking DEF OneRefunder
  <2>5. PICK k \in Keys : k = buy[c].key
    BY <2>3
  <2>6. provider'[k].refunds = provider[k].refunds
    BY <1>0, <2>4, <2>5, PaymentsStay
  <2> QED  BY <2>1, <2>3, <2>5, <2>6
<1>2. ASSUME RefundAhead(b)' PROVE provider'[buy'[b].key].refunds = 0
  <2>1. Refunder(b)'
    BY <1>2 DEF RefundAhead, Refunder
  <2>2. CASE RefundAhead(b) /\ UNCHANGED provider
    BY <1>0, <2>1, <2>2, RefunderIsNew DEF NotRefundedYet
  <2>3. CASE Compensate(b)
    <3>1. buy[b].key \in Keys /\ buy[b].user \in Users /\ buy[b].key \in KeysOf[buy[b].user]
      BY <1>0, <2>3, BookingOfType DEF TypeIInv, BuyTyped, Compensate
    <3>2. bookings[<<buy[b].user, buy[b].key>>].status = "NONE"
      BY <1>0, <2>3, BookingOfType
      DEF Compensate, BookingExists, BookingOf, TypeIInv, BookingColumns
    <3>3. provider[buy[b].key].refunds = 0
      <4> SUFFICES ASSUME provider[buy[b].key].refunds > 0 PROVE FALSE
        BY <1>0, <3>1
      <4>1. PICK u \in Users :
                /\ buy[b].key \in KeysOf[u]
                /\ bookings[<<u, buy[b].key>>].status \in {"COMPENSATING", "COMPENSATED"}
        BY <1>0, <3>1 DEF RefundRecorded
      <4>2. u = buy[b].user
        BY <3>1, <4>1 DEF KeysAreUsersOwn
      <4> QED  BY <3>2, <4>1, <4>2
    <3>4. provider' = provider
      BY <2>3 DEF Compensate, payVars
    <3> QED  BY <1>0, <2>1, <3>3, <3>4, RefunderIsNew
  <2> QED  BY <1>0, <1>2, <2>1, <2>2, <2>3, RefunderIsNew
<1> QED  BY <1>1, <1>2 DEF NotRefundedYet

\* So it is the only one.
LEMMA PurchaseRefundedOnce ==
    ASSUME SalesIInv, PaidIInv, MoneyIInv, NEW b \in Callers, PurchaseStep(b)
    PROVE  RefundedOnce'
<1> SUFFICES ASSUME NEW k \in Keys PROVE provider'[k].refunds <= 1
  BY DEF RefundedOnce
<1>0. TypeIInv /\ PayLink(b) /\ NotRefundedYet /\ provider[k].refunds <= 1
  BY DEF SalesIInv, PaidIInv, MoneyIInv, RefundedOnce
<1>1. CASE pay[b].pc = "refund" /\ pay[b].key = k /\ provider'[k].refunds = provider[k].refunds + 1
  <2>1. provider[k].refunds = 0
    BY <1>0, <1>1 DEF PayLink, NotRefundedYet, RefundAhead
  <2> QED  BY <1>1, <2>1
<1> QED  BY <1>0, <1>1, PaymentsStay

\* Money goes back under a booking that says so.
LEMMA PurchaseRefundRecorded ==
    ASSUME SalesIInv, PaidIInv, NEW b \in Callers, PurchaseStep(b)
    PROVE  RefundRecorded'
<1>0. TypeIInv /\ PayLink(b) /\ RefundRecorded
  BY DEF SalesIInv, PaidIInv
<1> SUFFICES ASSUME NEW k \in Keys, provider'[k].refunds > 0
             PROVE  \E u \in Users : /\ k \in KeysOf[u]
                           /\ bookings'[<<u, k>>].status \in {"COMPENSATING", "COMPENSATED"}
  BY DEF RefundRecorded
<1>1. CASE provider'[k].refunds = provider[k].refunds
  <2>1. PICK u \in Users : /\ k \in KeysOf[u]
                           /\ bookings[<<u, k>>].status \in {"COMPENSATING", "COMPENSATED"}
    BY <1>0, <1>1 DEF RefundRecorded
  <2>2. <<u, k>> \in BookingIds
    BY DEF BookingIds
  <2>3. bookings'[<<u, k>>].status \in {"COMPENSATING", "COMPENSATED"}
    BY <2>1, <2>2, BookingsStay
  <2> QED  BY <2>1, <2>3
<1>2. CASE /\ pay[b].pc = "refund" /\ UNCHANGED bookings /\ pay[b].key = k
  <2>1. buy[b].pc = "refunding" /\ buy[b].key = k
    BY <1>0, <1>2 DEF PayLink
  <2>2. buy[b].user \in Users /\ k \in KeysOf[buy[b].user]
    BY <1>0, <2>1 DEF TypeIInv, BuyTyped
  <2>3. bookings[<<buy[b].user, k>>].status \in {"COMPENSATING", "COMPENSATED"}
    BY <2>1 DEF SalesIInv, BuyKnows, BookingOf
  <2> QED  BY <1>2, <2>2, <2>3
<1> QED  BY <1>0, <1>1, <1>2, PaymentsStay

\* A booking keeps the payment it was written for.
LEMMA PurchaseBookingPaid ==
    ASSUME SalesIInv, PaidIInv, NEW b \in Callers, PurchaseStep(b), NEW id \in BookingIds
    PROVE  BookingPaid(id)'
<1>0. /\ TypeIInv /\ PayLink(b) /\ BookingPaid(id) /\ id[2] \in Keys
      /\ PayCallKnows(b)
  BY DEF SalesIInv, TypeIInv, PaidIInv, BookingIds, PayIInv
<1>1. CASE bookings'[id].status = "NONE"
  BY <1>1 DEF BookingPaid
<1>2. CASE bookings[id].status = "NONE" /\ bookings'[id].status # "NONE"
  <2>1. /\ buy[b].pc # "idle" /\ id = BookingOf(b) /\ bookings'[id].total = buy[b].total
        /\ bookings'[id].status \in {"CONFIRMED", "FAILED", "COMPENSATING"}
        /\ bookings'[id].status = "CONFIRMED" => ConvertToSold(b)
    BY <1>2, NewBooking
  <2>2. id[2] = buy[b].key /\ id[2] \in KeysOf[id[1]]
    BY <1>0, <2>1 DEF BookingOf, TypeIInv, BuyTyped
  <2>3. ASSUME ConvertToSold(b)
        PROVE  payments'[id[2]].state = "COMPLETED" /\ payments'[id[2]].amount = buy[b].total
    <3>1. /\ buy[b].pc = "charging" /\ pay[b].pc = "returned" /\ pay[b].result = "COMPLETED"
          /\ payments' = payments
      BY <2>3 DEF ConvertToSold, ChargeReturned, EndPurchase
    <3> QED  BY <1>0, <2>2, <3>1 DEF PayLink, PayCallKnows
  <2> QED  BY <2>1, <2>2, <2>3 DEF BookingPaid
<1>3. CASE bookings[id].status # "NONE"
  <2>1. /\ bookings'[id].total = bookings[id].total
        /\ \/ bookings'[id].status = bookings[id].status
           \/ bookings'[id].status = "COMPENSATED"
    BY <1>3, BookingsStay
  <2>2. CASE bookings'[id].status = bookings[id].status
    BY <1>0, <1>3, <2>1, <2>2, PaymentsStay DEF BookingPaid
  <2>3. CASE bookings'[id].status = "COMPENSATED" /\ bookings[id].status # "COMPENSATED"
    <3>1. /\ RefundReturned(b) /\ pay[b].result = "refunded"
          /\ bookings' = [bookings EXCEPT ![BookingOf(b)].status = "COMPENSATED"]
      <4>1. \A status \in {"FAILED", "COMPENSATING", "CONFIRMED"} :
                ~(InsertBooking(b, status) /\ ~BookingExists(b))
        BY <1>3, <2>3 DEF InsertBooking, BookingExists, SalesIInv, TypeIInv
      <4> QED
        BY <2>3, <4>1, PurchaseBooks DEF ConvertToSold, RecordDeclined, Compensate
    <3>2. id = BookingOf(b)
      BY <2>3, <3>1 DEF SalesIInv, TypeIInv
    <3>3. id[2] = buy[b].key /\ pay[b].key = buy[b].key /\ pay[b].pc = "returned"
      BY <1>0, <3>1, <3>2 DEF BookingOf, RefundReturned, PayLink
    <3>4. payments' = payments /\ payments[id[2]].refunded
      BY <1>0, <3>1, <3>3 DEF PayCallKnows, RefundReturned, EndPurchase
    <3> QED  BY <1>0, <1>3, <2>3, <3>4 DEF BookingPaid
  <2> QED  BY <2>1, <2>2, <2>3
<1> QED  BY <1>1, <1>2, <1>3

LEMMA PaidStep == SalesIInv /\ PaidIInv /\ [Next]_vars => PaidIInv'
<1> SUFFICES ASSUME SalesIInv, PaidIInv, [Next]_vars PROVE PaidIInv'
  OBVIOUS
<1>1. CASE UNCHANGED <<payVars, bookingVars>>
  BY <1>1
  DEF payVars, bookingVars, PaidIInv, PayLink, OneRefunder, Refunder, BookingOf, RefundRecorded,
      BookingPaid
<1>2. ASSUME NEW b \in Callers, PurchaseStep(b) PROVE PaidIInv'
  <2>1. \A c \in Callers : PayLink(c)'
    <3>1. PayLink(b)'
      BY <1>2, PurchaseLinks DEF SalesIInv, PaidIInv
    <3>2. \A c \in Callers \ {b} : buy'[c] = buy[c] /\ pay'[c] = pay[c]
      BY <1>2, PurchaseBuyType, PurchasePayIInv DEF SalesIInv
    <3> QED  BY <3>1, <3>2 DEF PaidIInv, PayLink
  <2> QED
    BY <1>2, <2>1, PurchaseOneRefunder, PurchaseRefundRecorded, PurchaseBookingPaid DEF PaidIInv
<1> QED  BY <1>1, <1>2 DEF Next, vars

LEMMA PaidInit == Init => PaidIInv
BY DEF Init, PayInit, PaidIInv, PayLink, IdleBuy, IdleCall, OneRefunder, Refunder,
       RefundRecorded, BookingPaid, NoBooking

LEMMA BookingsPaid == Spec => []PaidIInv
BY PaidInit, PaidStep, BookingSales, PTL DEF Spec

LEMMA BookingMoney ==
    ASSUME KeysAreUsersOwn
    PROVE  Spec => []MoneyIInv
<1>1. Init => MoneyIInv
  BY DEF Init, PayInit, MoneyIInv, NotRefundedYet, RefundAhead, RefundedOnce, IdleBuy
<1>2. SalesIInv /\ PaidIInv /\ MoneyIInv /\ [Next]_vars => MoneyIInv'
  <2> SUFFICES ASSUME SalesIInv, PaidIInv, MoneyIInv, [Next]_vars PROVE MoneyIInv'
    OBVIOUS
  <2>1. CASE UNCHANGED <<payVars, bookingVars>>
    BY <2>1 DEF payVars, bookingVars, MoneyIInv, NotRefundedYet, RefundAhead, RefundedOnce
  <2>2. ASSUME NEW b \in Callers, PurchaseStep(b) PROVE MoneyIInv'
    BY <2>2, PurchaseNotRefundedYet, PurchaseRefundedOnce DEF MoneyIInv
  <2> QED  BY <2>1, <2>2 DEF Next, vars
<1> QED  BY <1>1, <1>2, BookingSales, BookingsPaid, PTL DEF Spec

\* The saga never makes the payments service charge a key twice, record an outcome that
\* is not the provider's, or refund what was not charged.
THEOREM PurchasesUsePaymentsWell ==
    Spec => [](ChargedOncePerKey /\ OutcomeIsTheProviders /\ RefundsAreOfCharges)
<1>1. TypeIInv => ChargedOncePerKey /\ OutcomeIsTheProviders /\ RefundsAreOfCharges
  BY DEF TypeIInv, PayIInv
<1> QED  BY <1>1, BookingTypes, PTL

\* Whatever keys clients use, the bookings account for the money: a CONFIRMED one has a
\* payment that completed for its total, a COMPENSATED one a payment marked refunded,
\* and no money goes back under a key unless a booking of that key recorded it first.
THEOREM BookingsAccountForMoney ==
    Spec => [](/\ RefundRecorded
               /\ \A id \in BookingIds : BookingPaid(id))
<1>1. PaidIInv => RefundRecorded /\ \A id \in BookingIds : BookingPaid(id)
  BY DEF PaidIInv
<1> QED  BY <1>1, BookingsPaid, PTL

\* When no two users share a key, a confirmed booking is paid and stays paid: its
\* payment completed, for its total, and the money has not gone back.
THEOREM ConfirmedBookingsArePaid ==
    ASSUME KeysAreUsersOwn
    PROVE  Spec => []ConfirmedIsPaid
<1>1. SalesIInv /\ PaidIInv => ConfirmedIsPaid
  <2> SUFFICES ASSUME SalesIInv, PaidIInv, NEW id \in BookingIds,
                      bookings[id].status = "CONFIRMED"
               PROVE  /\ payments[id[2]].state = "COMPLETED"
                      /\ payments[id[2]].amount = bookings[id].total
                      /\ provider[id[2]].refunds = 0
    BY DEF ConfirmedIsPaid
  <2>1. /\ BookingPaid(id) /\ RefundRecorded /\ id[1] \in Users /\ id[2] \in Keys
        /\ id = <<id[1], id[2]>>
    BY DEF PaidIInv, BookingIds
  <2>2. provider[id[2]].refunds \in Nat
    BY <2>1 DEF SalesIInv, TypeIInv, PayIInv, PayTypeOK
  <2>3. ~(provider[id[2]].refunds > 0)
    BY <2>1 DEF BookingPaid, RefundRecorded, KeysAreUsersOwn
  <2> QED  BY <2>1, <2>2, <2>3 DEF BookingPaid
<1> QED  BY <1>1, BookingSales, BookingsPaid, PTL

\* Then money goes back at most once, for a booking that recorded the obligation first,
\* and a booking is COMPENSATED only once it did.
THEOREM RefundsAreOwed ==
    ASSUME KeysAreUsersOwn
    PROVE  Spec => []RefundIsOwed
<1>1. SalesIInv /\ PaidIInv /\ MoneyIInv => RefundIsOwed
  <2> SUFFICES ASSUME SalesIInv, PaidIInv, MoneyIInv PROVE RefundIsOwed
    OBVIOUS
  <2>1. \A k \in Keys : provider[k].refunds \in Nat
    BY DEF SalesIInv, TypeIInv, PayIInv, PayTypeOK
  <2> QED
    BY <2>1 DEF PaidIInv, MoneyIInv, RefundRecorded, RefundedOnce, BookingPaid, RefundIsOwed
<1> QED  BY <1>1, BookingSales, BookingsPaid, BookingMoney, PTL
=============================================================================
