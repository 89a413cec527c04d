---------------------------- MODULE SupportProofs ----------------------------
(***************************************************************************)
(* The integrity audit beside the booking service, the order in which      *)
(* TruncateAll empties the tables, and keyset pagination.                  *)
(*                                                                         *)
(* The audit's queries see different moments, so AuditOneSided compares    *)
(* what it counted with the tables as they are now.  It rests on the sales *)
(* invariant of the booking service (SalesIInv), on what ties a ticket to  *)
(* the audited event by way of its booking's hold (OneEventPerHold), and   *)
(* on no sold row ever changing again.                                     *)
(*                                                                         *)
(* The truncation and the search share no state with them; their proofs    *)
(* stand here, each with its invariant, after the audit's.                 *)
(***************************************************************************)
EXTENDS Audit, BookingProofs, TableOrder, SearchPages, FiniteSetTheorems, SequenceTheorems

\* Only a SOLD row carries a booking.
BookedIsSold == \A t \in Tickets : tickets[t].booking # Null => tickets[t].status = "SOLD"

\* A hold is granted seats of one event.
OneEventPerHold ==
    \A h \in HoldIds : \A s, t \in holds[h].seats : EventOf[s] = EventOf[t]

Audits ==
    [pc          : {"tickets", "bookings", "compensations", "report"},
     sold        : Nat,
     orphans     : BOOLEAN,
     balanced    : BOOLEAN,
     inConfirmed : Nat,
     consistent  : BOOLEAN]

AuditIInv ==
    /\ SalesIInv
    /\ BookedIsSold
    /\ OneEventPerHold
    /\ audit \in Audits
    /\ AuditOneSided

\* No write of the service leaves a booking on a row that is not SOLD.
LEMMA HoldsKeepBooked ==
    ASSUME [HoldsNext]_holdVars, BookedIsSold
    PROVE  BookedIsSold'
<1>1. ASSUME NEW c \in Claimers, NEW h \in HoldIds, ClaimSeats(c, h) PROVE BookedIsSold'
  BY <1>1 DEF ClaimSeats, BookedIsSold
<1>2. ASSUME NEW S, tickets' = FreeTickets(S) PROVE BookedIsSold'
  BY <1>2 DEF FreeTickets, AvailableTicket, BookedIsSold
<1>3. CASE UNCHANGED tickets
  BY <1>3 DEF BookedIsSold
<1> QED
  BY <1>1, <1>2, <1>3
  DEF HoldsNext, holdVars, ClaimStep, CreateHold, AssertQuota, QuotaRejected, ClaimRejected,
      ClaimFails, ReleaseHold, ReapStep, ReapStart, ReapBatch, ReapHolds, ReapFails, Tick

LEMMA PurchaseKeepsBooked ==
    ASSUME TypeIInv, NEW b \in Callers, PurchaseStep(b), BookedIsSold
    PROVE  BookedIsSold'
<1>1. CASE PrepareLease(b)
  <2>1. \A t \in Tickets :
            tickets'[t].booking = tickets[t].booking /\ tickets'[t].status = tickets[t].status
    BY <1>1 DEF PrepareLease, ExtendLease, ExtendTickets, TypeIInv, HoldTypeOK, TicketColumns
  <2> QED  BY <2>1 DEF BookedIsSold
<1>2. CASE ConvertToSold(b)
  BY <1>2 DEF ConvertToSold, BookedIsSold
<1>3. CASE RecordDeclined(b)
  BY <1>3 DEF RecordDeclined, FreeTickets, AvailableTicket, BookedIsSold
<1>4. CASE UNCHANGED <<tickets, holds>>
  BY <1>4 DEF BookedIsSold
<1> QED  BY <1>1, <1>2, <1>3, <1>4, PurchaseWrites

\* A hold's seats are fixed when it is granted, to seats of the event it asked for.
LEMMA HoldsKeepEvents ==
    ASSUME HoldTypeOK, [HoldsNext]_holdVars, OneEventPerHold
    PROVE  OneEventPerHold'
<1>0. holds \in [HoldIds -> HoldColumns]
  BY DEF HoldTypeOK
<1>1. ASSUME NEW c \in Claimers, NEW h \in HoldIds, ClaimSeats(c, h) PROVE OneEventPerHold'
  <2>1. \A g \in HoldIds \ {h} : holds'[g].seats = holds[g].seats
    BY <1>0, <1>1 DEF ClaimSeats, HoldColumns
  <2>2. \A t \in holds'[h].seats : EventOf[t] = claim[c].event
    BY <1>1 DEF ClaimSeats, SeatsClaimable
  <2> QED  BY <2>1, <2>2 DEF OneEventPerHold
<1>2. ASSUME \A g \in HoldIds : holds'[g].seats = holds[g].seats PROVE OneEventPerHold'
  BY <1>2 DEF OneEventPerHold
<1>3. ASSUME NEW u \in Users, NEW h \in HoldIds, ReleaseHold(u, h) PROVE OneEventPerHold'
  <2>1. \A g \in HoldIds : holds'[g].seats = holds[g].seats
    BY <1>0, <1>3 DEF ReleaseHold, HoldColumns
  <2> QED  BY <1>2, <2>1
<1>4. ASSUME NEW r \in Reapers, ReapHolds(r) PROVE OneEventPerHold'
  <2>1. \A g \in HoldIds : holds'[g].seats = holds[g].seats
    BY <1>0, <1>4 DEF ReapHolds, HoldColumns
  <2> QED  BY <1>2, <2>1
<1>5. CASE UNCHANGED holds
  BY <1>2, <1>5
<1> QED
  BY <1>1, <1>3, <1>4, <1>5
  DEF HoldsNext, holdVars, ClaimStep, CreateHold, AssertQuota, QuotaRejected, ClaimRejected,
      ClaimFails, ReapStep, ReapStart, ReapBatch, ReapFails, Tick

LEMMA PurchaseKeepsEvents ==
    ASSUME TypeIInv, NEW b \in Callers, PurchaseStep(b), OneEventPerHold
    PROVE  OneEventPerHold'
<1>0. holds \in [HoldIds -> HoldColumns]
  BY DEF TypeIInv, HoldTypeOK
<1>1. \A g \in HoldIds : holds'[g].seats = holds[g].seats
  <2>1. CASE PrepareLease(b)
    BY <1>0, <2>1 DEF PrepareLease, ExtendLease, HoldColumns
  <2>2. CASE ConvertToSold(b)
    BY <1>0, <2>2 DEF ConvertToSold, HoldColumns
  <2>3. CASE RecordDeclined(b)
    BY <1>0, <2>3 DEF RecordDeclined, HoldColumns
  <2>4. CASE UNCHANGED <<tickets, holds>>
    BY <2>4
  <2> QED  BY <2>1, <2>2, <2>3, <2>4, PurchaseWrites
<1> QED  BY <1>1 DEF OneEventPerHold

\* Every step of the service keeps what the audit relies on, and no sold seat is lost.
LEMMA ServiceStep ==
    ASSUME SalesIInv, BookedIsSold, OneEventPerHold, [Next]_vars
    PROVE  /\ SalesIInv' /\ BookedIsSold' /\ OneEventPerHold'
           /\ EventTickets("SOLD") \subseteq EventTickets("SOLD")'
<1>1. SalesIInv'
  BY SalesStep
<1>2. TypeIInv /\ HoldTypeOK
  BY DEF SalesIInv, TypeIInv
<1>3. BookedIsSold' /\ OneEventPerHold'
  <2>1. CASE [HoldsNext]_holdVars
    BY <1>2, <2>1, HoldsKeepBooked, HoldsKeepEvents
  <2>2. ASSUME NEW b \in Callers, PurchaseStep(b) PROVE BookedIsSold' /\ OneEventPerHold'
    BY <1>2, <2>2, PurchaseKeepsBooked, PurchaseKeepsEvents
  <2> QED  BY <2>1, <2>2 DEF Next, vars
<1>4. \A t \in Tickets : tickets[t].status = "SOLD" => tickets'[t] = tickets[t]
  BY HoldsStepSparesSold, PurchaseStepSparesSold DEF Next, vars, holdVars
<1> QED  BY <1>1, <1>3, <1>4 DEF EventTickets

-----------------------------------------------------------------------------
LEMMA EventTicketsFinite ==
    ASSUME NEW status
    PROVE  /\ IsFiniteSet(EventTickets(status))
           /\ Cardinality(EventTickets(status)) \in Nat
<1>1. EventTickets(status) \in SUBSET Tickets /\ IsFiniteSet(Tickets)
  BY SchemaAssumption DEF EventTickets
<1> QED  BY <1>1, FS_Subset, FS_CardinalityType

\* The tickets in confirmed bookings of the event are its sold tickets, at any moment.
LEMMA ConfirmedAreSold ==
    ASSUME SalesIInv, BookedIsSold, OneEventPerHold
    PROVE  InConfirmedBookings = Cardinality(EventTickets("SOLD"))
<1>0. tickets \in [Tickets -> TicketColumns] /\ \A t \in Tickets : TicketChecks(tickets[t])
  BY DEF SalesIInv, TypeIInv, HoldTypeOK
<1>1. ASSUME NEW t \in EventTickets("SOLD") PROVE tickets[t].booking \in EventBookings("CONFIRMED")
  <2>1. t \in Tickets /\ tickets[t].status = "SOLD" /\ EventOf[t] = AuditedEvent
    BY DEF EventTickets
  <2>2. PICK id \in BookingIds : id = tickets[t].booking
    BY <1>0, <2>1 DEF TicketChecks
  <2>3. bookings[id].status = "CONFIRMED" /\ t \in holds[bookings[id].hold].seats
    BY <2>1, <2>2 DEF SalesIInv, SalesMatchBookings, SoldTo
  <2> QED  BY <2>1, <2>2, <2>3 DEF EventBookings
<1>2. ASSUME NEW t \in Tickets, tickets[t].booking \in EventBookings("CONFIRMED")
      PROVE  t \in EventTickets("SOLD")
  <2>1. PICK id \in BookingIds : id = tickets[t].booking
    BY <1>2 DEF EventBookings
  <2>2. /\ bookings[id].status = "CONFIRMED"
        /\ \E s \in holds[bookings[id].hold].seats : EventOf[s] = AuditedEvent
    BY <1>2, <2>1 DEF EventBookings
  <2>3. id # Null
    BY SchemaAssumption DEF BookingIds
  <2>4. tickets[t].status = "SOLD"
    BY <2>1, <2>3 DEF BookedIsSold
  <2>5. t \in holds[bookings[id].hold].seats /\ bookings[id].hold \in HoldIds
    BY <2>1, <2>2, <2>4 DEF SalesIInv, SalesMatchBookings, SoldTo, BookingKnows
  <2>6. EventOf[t] = AuditedEvent
    BY <2>2, <2>5 DEF OneEventPerHold
  <2> QED  BY <2>4, <2>6 DEF EventTickets
<1>3. {t \in Tickets : tickets[t].booking \in EventBookings("CONFIRMED")} = EventTickets("SOLD")
  BY <1>1, <1>2 DEF EventTickets
<1> QED  BY <1>3 DEF InConfirmedBookings

LEMMA DisjointUnion ==
    ASSUME NEW S, IsFiniteSet(S), NEW T, IsFiniteSet(T), S \cap T = {}
    PROVE  /\ IsFiniteSet(S \cup T)
           /\ Cardinality(S \cup T) = Cardinality(S) + Cardinality(T)
<1>1. IsFiniteSet(S \cup T)
  BY FS_Union
<1>2. Cardinality(S \cup T) = Cardinality(S) + Cardinality(T) - Cardinality(S \cap T)
  BY FS_Union
<1>3. Cardinality(S \cap T) = 0
  BY FS_EmptySet
<1>4. Cardinality(S) \in Nat /\ Cardinality(T) \in Nat
  BY FS_CardinalityType
<1> QED  BY <1>1, <1>2, <1>3, <1>4

\* The three counts by status add up to all of the event's tickets.
LEMMA CountsBalance ==
    ASSUME HoldTypeOK
    PROVE  Cardinality({t \in Tickets : EventOf[t] = AuditedEvent}) =
               Cardinality(EventTickets("AVAILABLE")) + Cardinality(EventTickets("HELD"))
                   + Cardinality(EventTickets("SOLD"))
<1> DEFINE A == EventTickets("AVAILABLE")
           H == EventTickets("HELD")
           S == EventTickets("SOLD")
<1>1. \A t \in Tickets : tickets[t].status \in {"AVAILABLE", "HELD", "SOLD"}
  BY DEF HoldTypeOK, TicketColumns
<1>2. {t \in Tickets : EventOf[t] = AuditedEvent} = (A \cup H) \cup S
  BY <1>1 DEF EventTickets
<1>3. A \cap H = {} /\ (A \cup H) \cap S = {}
  BY DEF EventTickets
<1>4. IsFiniteSet(A) /\ IsFiniteSet(H) /\ IsFiniteSet(S)
  BY EventTicketsFinite
<1> HIDE DEF A, H, S
<1>5. IsFiniteSet(A \cup H) /\ Cardinality(A \cup H) = Cardinality(A) + Cardinality(H)
  BY <1>3, <1>4, DisjointUnion
<1>6. Cardinality((A \cup H) \cup S) = Cardinality(A \cup H) + Cardinality(S)
  BY <1>3, <1>4, <1>5, DisjointUnion
<1> QED  BY <1>2, <1>5, <1>6 DEF A, H, S

\* Counts of what never shrinks stay below it.
LEMMA AuditKeptByService ==
    ASSUME AuditIInv, [Next]_vars, UNCHANGED audit
    PROVE  AuditIInv'
<1>1. /\ SalesIInv' /\ BookedIsSold' /\ OneEventPerHold'
      /\ EventTickets("SOLD") \subseteq EventTickets("SOLD")'
  BY ServiceStep DEF AuditIInv
<1> DEFINE before == Cardinality(EventTickets("SOLD"))
           after == Cardinality(EventTickets("SOLD")')
<1>2. IsFiniteSet(EventTickets("SOLD")')
  <2>1. EventTickets("SOLD")' \in SUBSET Tickets /\ IsFiniteSet(Tickets)
    BY SchemaAssumption DEF EventTickets
  <2> QED  BY <2>1, FS_Subset
<1>3. before <= after /\ after \in Nat /\ before \in Nat
  BY <1>1, <1>2, FS_Subset, FS_CardinalityType, EventTicketsFinite
<1>4. audit' = audit /\ audit.sold \in Nat /\ audit.inConfirmed \in Nat
  BY DEF AuditIInv, Audits
<1> HIDE DEF before, after
<1>5. /\ audit.pc \in {"bookings", "compensations", "report"} => audit.sold <= before
      /\ audit.pc \in {"compensations", "report"} => audit.inConfirmed <= before
  BY DEF AuditIInv, AuditOneSided, before
<1>6. /\ audit.pc \in {"bookings", "compensations", "report"} => audit.sold <= after
      /\ audit.pc \in {"compensations", "report"} => audit.inConfirmed <= after
  BY <1>3, <1>4, <1>5
<1>7. AuditOneSided'
  BY <1>4, <1>6 DEF AuditIInv, AuditOneSided, after
<1> QED  BY <1>1, <1>4, <1>7 DEF AuditIInv

LEMMA AuditKeptByAudit ==
    ASSUME AuditIInv, AuditStep, UNCHANGED vars
    PROVE  AuditIInv'
<1>1. /\ HoldTypeOK /\ audit \in Audits /\ \A t \in Tickets : TicketChecks(tickets[t])
      /\ SalesIInv /\ BookedIsSold /\ OneEventPerHold /\ AuditOneSided
  BY DEF AuditIInv, SalesIInv, TypeIInv, HoldTypeOK
<1>2. SalesIInv' /\ BookedIsSold' /\ OneEventPerHold'
  BY ServiceStep, <1>1
<1>3. EventTickets("SOLD")' = EventTickets("SOLD") /\ Cardinality(EventTickets("SOLD")) \in Nat
  BY EventTicketsFinite DEF EventTickets, vars, holdVars
<1> DEFINE sold == Cardinality(EventTickets("SOLD"))
<1>4. CASE CountTickets
  <2> DEFINE orphans == \/ \E t \in EventTickets("SOLD") : tickets[t].booking = Null
                        \/ \E t \in EventTickets("HELD") : tickets[t].hold = Null
             balanced == Cardinality({t \in Tickets : EventOf[t] = AuditedEvent}) =
                 Cardinality(EventTickets("AVAILABLE")) + Cardinality(EventTickets("HELD")) + sold
  <2>1. audit' = [audit EXCEPT !.pc = "bookings", !.sold = sold, !.orphans = orphans,
                               !.balanced = balanced]
    BY <1>4 DEF CountTickets
  <2>2. orphans = FALSE
    BY <1>1, SchemaAssumption DEF TicketChecks, EventTickets, BookingIds
  <2>3. balanced = TRUE
    BY <1>1, CountsBalance
  <2> HIDE DEF orphans, balanced
  <2>4. /\ audit' \in Audits /\ audit'.pc = "bookings" /\ audit'.sold = sold
        /\ ~audit'.orphans /\ audit'.balanced
    BY <1>1, <1>3, <2>1, <2>2, <2>3 DEF Audits
  <2> QED  BY <1>2, <1>3, <2>4 DEF AuditIInv, AuditOneSided
<1>5. CASE CountConfirmed
  <2>1. audit' = [audit EXCEPT !.pc = "compensations", !.inConfirmed = sold]
    BY <1>1, <1>5, ConfirmedAreSold DEF CountConfirmed
  <2>2. /\ audit' \in Audits /\ audit'.pc = "compensations" /\ audit'.inConfirmed = sold
        /\ audit'.sold = audit.sold
        /\ audit'.orphans = audit.orphans /\ audit'.balanced = audit.balanced
    BY <1>1, <1>3, <2>1 DEF Audits
  <2>3. audit.sold <= sold
    BY <1>1, <1>5 DEF CountConfirmed, AuditOneSided
  <2> QED  BY <1>1, <1>2, <1>3, <2>2, <2>3 DEF AuditIInv, AuditOneSided
<1>6. CASE CountCompensating
  <2> DEFINE ok == /\ ~audit.orphans /\ audit.balanced
                   /\ EventBookings("COMPENSATING") = {}
                   /\ audit.sold = audit.inConfirmed
  <2>1. audit' = [audit EXCEPT !.pc = "report", !.consistent = ok] /\ ok \in BOOLEAN
    BY <1>6 DEF CountCompensating
  <2> HIDE DEF ok
  <2>2. /\ audit' \in Audits /\ audit'.pc = "report" /\ audit'.sold = audit.sold
        /\ audit'.inConfirmed = audit.inConfirmed
        /\ audit'.orphans = audit.orphans /\ audit'.balanced = audit.balanced
    BY <1>1, <2>1 DEF Audits
  <2>3. audit.pc = "compensations"
    BY <1>6 DEF CountCompensating
  <2> QED  BY <1>1, <1>2, <1>3, <2>2, <2>3 DEF AuditIInv, AuditOneSided
<1>7. CASE AuditReturns
  BY <1>2, <1>7 DEF AuditReturns, NoAudit, Audits, AuditIInv, AuditOneSided
<1> QED  BY <1>4, <1>5, <1>6, <1>7 DEF AuditStep

LEMMA AuditInvariant == AuditSpec => []AuditIInv
<1>1. AuditInit => AuditIInv
  <2> SUFFICES ASSUME AuditInit PROVE AuditIInv
    OBVIOUS
  <2>1. SalesIInv
    BY SalesInit DEF AuditInit
  <2>2. BookedIsSold /\ OneEventPerHold
    BY DEF AuditInit, Init, HoldsInit, BookedIsSold, OneEventPerHold, AvailableTicket, NoHold
  <2>3. audit \in Audits /\ AuditOneSided
    BY DEF AuditInit, NoAudit, Audits, AuditOneSided
  <2> QED  BY <2>1, <2>2, <2>3 DEF AuditIInv
<1>2. AuditIInv /\ [AuditNext]_auditVars => AuditIInv'
  BY AuditKeptByService, AuditKeptByAudit DEF AuditNext, auditVars
<1> QED  BY <1>1, <1>2, PTL DEF AuditSpec

\* The audit of a live database errs on one side only: sales that commit between its
\* queries may show as confirmed seats above the sold ones, never the other way, and it
\* never sees a seat without its owner or its status.  So a report with more sold than
\* confirmed is an oversell or a lost record, for any number of requests beside it.
THEOREM AuditsErrOnOneSide == AuditSpec => []AuditOneSided
<1>1. AuditIInv => AuditOneSided
  BY DEF AuditIInv
<1> QED  BY <1>1, AuditInvariant, PTL

-----------------------------------------------------------------------------
Visits == [phase : {"order", "rest", "delete", "failed"}, at : Nat \ {0}, progressed : BOOLEAN]

TableTypeOK ==
    /\ references \in SUBSET (AppTables \X AppTables)
    /\ filled \in SUBSET AppTables
    /\ order \in Seq(AppTables)
    /\ IsInjective(order)
    /\ visit \in Visits

\* Unless there is a cycle, a table comes after those that reference it.
ChildrenFirst ==
    \A i \in DOMAIN order : \A c \in childrenOf(order[i]) : \E j \in 1 .. i - 1 : order[j] = c

Passed == {TableNames[j] : j \in 1 .. visit.at - 1} \cap AppTables

\* What each loop knows at its next table.
LoopKnows ==
    /\ visit.phase = "order" /\ ~visit.progressed =>
           /\ OrderDone # AppTables
           /\ \A n \in Passed : n \in OrderDone \/ Blocked(n)
    /\ visit.phase = "rest" => Cyclic /\ Passed \subseteq OrderDone
    /\ visit.phase \in {"delete", "failed"} =>
           OrderDone = AppTables /\ Len(order) = Len(TableNames)
    /\ visit.phase = "delete" =>
           \A j \in DOMAIN order : j < visit.at => order[j] \notin filled
    /\ visit.phase = "failed" => Cyclic

TableIInv == TableTypeOK /\ (Cyclic \/ ChildrenFirst) /\ LoopKnows

LEMMA NamesType ==
    /\ TableNames \in Seq(AppTables)
    /\ Len(TableNames) \in Nat \ {0} /\ DOMAIN TableNames = 1 .. Len(TableNames)
    /\ \A i \in 1 .. Len(TableNames) : TableNames[i] \in AppTables
    /\ \A n \in AppTables : \E i \in 1 .. Len(TableNames) : TableNames[i] = n
<1>1. /\ Len(TableNames) \in Nat /\ DOMAIN TableNames = 1 .. Len(TableNames)
      /\ TableNames \in [1 .. Len(TableNames) -> STRING]
  BY TableAssumption, LenProperties
<1>2. TableNames \in [1 .. Len(TableNames) -> AppTables]
  BY <1>1 DEF AppTables, Range
<1>3. TableNames \in Seq(AppTables)
  BY <1>1, <1>2, SeqDef
<1> QED  BY <1>1, <1>2, <1>3, TableAssumption DEF AppTables, Range

\* A sequence without repetitions is as long as its range is large.
LEMMA LengthIsCardinality ==
    ASSUME NEW S, NEW s \in Seq(S), IsInjective(s)
    PROVE  IsFiniteSet(Range(s)) /\ Cardinality(Range(s)) = Len(s)
<1>1. Len(s) \in Nat /\ DOMAIN s = 1 .. Len(s) /\ s \in [1 .. Len(s) -> S]
  BY LenProperties
<1>2. s \in [1 .. Len(s) -> Range(s)]
  BY <1>1 DEF Range
<1>3. s \in Surjection(1 .. Len(s), Range(s)) /\ s \in Injection(1 .. Len(s), Range(s))
  BY <1>1, <1>2 DEF Surjection, Injection, Range, IsInjective
<1>4. IsFiniteSet(1 .. Len(s)) /\ Cardinality(1 .. Len(s)) = Len(s)
  BY <1>1, FS_Interval
<1>5. IsFiniteSet(Range(s)) /\ Cardinality(Range(s)) = Cardinality(1 .. Len(s))
  BY <1>3, <1>4, FS_Surjection
<1> QED  BY <1>4, <1>5

\* The outer loop's test by length is a test by contents.
LEMMA AllOrdered ==
    ASSUME TableTypeOK
    PROVE  OrderDone = AppTables <=> Len(order) = Len(TableNames)
<1>1. IsFiniteSet(AppTables) /\ Cardinality(AppTables) = Len(TableNames)
  BY NamesType, TableAssumption, LengthIsCardinality DEF AppTables
<1>2. Cardinality(OrderDone) = Len(order)
  BY LengthIsCardinality DEF TableTypeOK, OrderDone
<1>3. OrderDone \in SUBSET AppTables
  <2>1. DOMAIN order = 1 .. Len(order) /\ order \in [1 .. Len(order) -> AppTables]
    BY LenProperties DEF TableTypeOK
  <2> QED  BY <2>1 DEF OrderDone, Range
<1> QED  BY <1>1, <1>2, <1>3, FS_Subset

\* One more table in the order.
LEMMA OrderGrows ==
    ASSUME TableTypeOK, NEW n \in AppTables, n \notin OrderDone, order' = Append(order, n)
    PROVE  /\ order' \in Seq(AppTables) /\ IsInjective(order')
           /\ DOMAIN order = 1 .. Len(order) /\ Len(order) \in Nat
           /\ DOMAIN order' = 1 .. Len(order) + 1
           /\ \A i \in 1 .. Len(order) : order'[i] = order[i]
           /\ order'[Len(order) + 1] = n
           /\ OrderDone' = OrderDone \cup {n}
<1>1. /\ Len(order) \in Nat /\ DOMAIN order = 1 .. Len(order)
      /\ order \in [1 .. Len(order) -> AppTables]
  BY LenProperties DEF TableTypeOK
<1>2. /\ order' \in Seq(AppTables) /\ Len(order') = Len(order) + 1
      /\ \A i \in 1 .. Len(order) : order'[i] = order[i]
      /\ order'[Len(order) + 1] = n
  BY AppendProperties DEF TableTypeOK
<1>3. DOMAIN order' = 1 .. Len(order) + 1
  BY <1>2, LenProperties
<1>4. \A i \in 1 .. Len(order) : order[i] # n
  BY <1>1 DEF OrderDone, Range
<1>5. \A i \in 1 .. Len(order) + 1 : i \in 1 .. Len(order) \/ i = Len(order) + 1
  BY <1>1
<1>6. IsInjective(order')
  BY <1>1, <1>2, <1>3, <1>4, <1>5 DEF IsInjective, TableTypeOK
<1>7. OrderDone' = OrderDone \cup {n}
  <2>1. OrderDone' \subseteq OrderDone \cup {n}
    BY <1>1, <1>2, <1>3, <1>5 DEF OrderDone, Range
  <2>2. OrderDone \cup {n} \subseteq OrderDone'
    BY <1>1, <1>2, <1>3, <1>5 DEF OrderDone, Range
  <2> QED  BY <2>1, <2>2
<1> QED  BY <1>1, <1>2, <1>3, <1>6, <1>7

LEMMA TableInitIInv == TableInit => TableIInv
<1> SUFFICES ASSUME TableInit PROVE TableIInv
  OBVIOUS
<1>1. order = <<>> /\ visit = StartPass /\ filled = AppTables
  BY DEF TableInit
<1>2. DOMAIN order = {} /\ order \in Seq(AppTables)
  BY <1>1, EmptySeq, LenProperties
<1>3. TableTypeOK
  BY <1>1, <1>2 DEF TableInit, TableTypeOK, IsInjective, StartPass, Visits
<1>4. ChildrenFirst
  BY <1>2 DEF ChildrenFirst
<1>5. OrderDone # AppTables
  BY <1>2, NamesType DEF OrderDone, Range
<1>6. Passed = {}
  BY <1>1 DEF Passed, StartPass
<1>7. LoopKnows
  BY <1>1, <1>5, <1>6 DEF LoopKnows, StartPass
<1> QED  BY <1>3, <1>4, <1>7 DEF TableIInv

\* The table after those a loop has passed.
LEMMA PassedGrows ==
    ASSUME TableTypeOK, visit.at <= Len(TableNames), visit'.at = visit.at + 1
    PROVE  Passed' = Passed \cup {TableNames[visit.at]}
<1>1. visit.at \in Nat \ {0} /\ visit.at \in 1 .. Len(TableNames)
  BY NamesType DEF TableTypeOK, Visits
<1>2. \A j \in 1 .. visit.at : j \in 1 .. visit.at - 1 \/ j = visit.at
  BY <1>1
<1>3. TableNames[visit.at] \in AppTables /\ 1 .. visit'.at - 1 = 1 .. visit.at
  BY <1>1, NamesType
<1>4. Passed' \subseteq Passed \cup {TableNames[visit.at]}
  BY <1>2, <1>3 DEF Passed
<1>5. Passed \cup {TableNames[visit.at]} \subseteq Passed'
  BY <1>1, <1>3 DEF Passed
<1> QED  BY <1>4, <1>5

LEMMA VisitTableIInv ==
    ASSUME TableIInv, VisitTable
    PROVE  TableIInv'
<1> DEFINE n == TableNames[visit.at]
<1>1. /\ TableTypeOK /\ visit.phase = "order" /\ visit.at <= Len(TableNames)
      /\ visit.at \in Nat \ {0} /\ UNCHANGED <<references, filled>>
  BY DEF TableIInv, TableTypeOK, Visits, VisitTable
<1>2. n \in AppTables
  BY <1>1, NamesType
<1>3. Cyclic' = Cyclic /\ \A m : childrenOf(m)' = childrenOf(m)
  BY <1>1 DEF Cyclic, childrenOf
<1>4. CASE n \in OrderDone \/ Blocked(n)
  <2>1. visit' = [visit EXCEPT !.at = visit.at + 1] /\ order' = order
    BY <1>4 DEF VisitTable
  <2>2. /\ visit' \in Visits /\ visit'.phase = "order" /\ visit'.at = visit.at + 1
        /\ visit'.progressed = visit.progressed
    BY <1>1, <2>1 DEF TableTypeOK, Visits
  <2>3. TableTypeOK' /\ OrderDone' = OrderDone
    BY <1>1, <2>1, <2>2 DEF TableTypeOK, OrderDone
  <2>4. Cyclic' \/ ChildrenFirst'
    BY <1>3, <2>1 DEF TableIInv, ChildrenFirst
  <2>5. Passed' = Passed \cup {n}
    BY <1>1, <2>2, PassedGrows
  <2>6. LoopKnows'
    BY <1>1, <1>3, <1>4, <2>2, <2>3, <2>5 DEF TableIInv, LoopKnows, Blocked
  <2> QED  BY <2>3, <2>4, <2>6 DEF TableIInv
<1>5. CASE n \notin OrderDone /\ ~Blocked(n)
  <2>1. /\ visit' = [visit EXCEPT !.at = visit.at + 1, !.progressed = TRUE]
        /\ order' = Append(order, n)
    BY <1>5 DEF VisitTable
  <2>2. /\ visit' \in Visits /\ visit'.phase = "order" /\ visit'.progressed
    <3> DEFINE next == [visit EXCEPT !.at = visit.at + 1]
    <3>1. next \in Visits /\ next.phase = "order"
      BY <1>1 DEF TableTypeOK, Visits
    <3>2. visit' = [next EXCEPT !.progressed = TRUE]
      BY <2>1
    <3> HIDE DEF next
    <3> QED  BY <3>1, <3>2 DEF Visits
  <2> HIDE DEF n
  <2>3. /\ order' \in Seq(AppTables) /\ IsInjective(order')
        /\ DOMAIN order = 1 .. Len(order) /\ Len(order) \in Nat
        /\ DOMAIN order' = 1 .. Len(order) + 1
        /\ \A i \in 1 .. Len(order) : order'[i] = order[i]
        /\ order'[Len(order) + 1] = n
        /\ OrderDone' = OrderDone \cup {n}
    BY <1>1, <1>2, <1>5, <2>1, OrderGrows
  <2>4. TableTypeOK'
    BY <1>1, <2>2, <2>3 DEF TableTypeOK
  <2>5. ASSUME ChildrenFirst PROVE ChildrenFirst'
    <3> SUFFICES ASSUME NEW i \in 1 .. Len(order) + 1, NEW c \in childrenOf(order'[i])
                 PROVE  \E j \in 1 .. i - 1 : order'[j] = c
      BY <1>3, <2>3 DEF ChildrenFirst
    <3>1. CASE i \in 1 .. Len(order)
      <4>1. PICK j \in 1 .. i - 1 : order[j] = c
        BY <2>3, <2>5, <3>1 DEF ChildrenFirst
      <4>2. j \in 1 .. Len(order)
        BY <2>3, <3>1
      <4> QED  BY <2>3, <4>1, <4>2
    <3>2. CASE i = Len(order) + 1
      <4>1. c \in OrderDone
        BY <1>5, <2>3, <3>2 DEF Blocked, n
      <4>2. PICK j \in 1 .. Len(order) : order[j] = c
        BY <2>3, <4>1 DEF OrderDone, Range
      <4>3. 1 .. i - 1 = 1 .. Len(order)
        BY <2>3, <3>2
      <4> QED  BY <2>3, <4>2, <4>3
    <3> QED  BY <2>3, <3>1, <3>2
  <2>6. LoopKnows'
    BY <2>2 DEF LoopKnows
  <2> QED  BY <1>3, <2>4, <2>5, <2>6 DEF TableIInv
<1> QED  BY <1>4, <1>5

\* A loop that has passed all the tables has passed every one.
LEMMA AllPassed ==
    ASSUME TableTypeOK, visit.at > Len(TableNames)
    PROVE  Passed = AppTables
<1>1. visit.at \in Nat /\ Len(TableNames) \in Nat
  BY NamesType DEF TableTypeOK, Visits
<1>2. \A j \in 1 .. Len(TableNames) : j \in 1 .. visit.at - 1
  BY <1>1
<1> QED  BY <1>2, NamesType DEF Passed

LEMMA EndPassIInv ==
    ASSUME TableIInv, EndPass
    PROVE  TableIInv'
<1>1. /\ TableTypeOK /\ visit.phase \in {"order", "rest"} /\ visit.at > Len(TableNames)
      /\ UNCHANGED <<references, filled, order>>
  BY DEF TableIInv, EndPass
<1>2. Passed = AppTables
  BY <1>1, AllPassed
<1>3. /\ Cyclic' = Cyclic /\ OrderDone' = OrderDone /\ Len(order)' = Len(order)
      /\ (Cyclic \/ ChildrenFirst)'
  BY <1>1 DEF TableIInv, Cyclic, childrenOf, OrderDone, ChildrenFirst
<1>4. visit' \in Visits /\ visit'.at = 1 => TableTypeOK' /\ Passed' = {}
  BY <1>1 DEF TableTypeOK, Passed
<1>5. CASE visit.phase = "order" /\ ~visit.progressed
  <2>1. visit' = [phase |-> "rest", at |-> 1, progressed |-> FALSE]
    BY <1>5 DEF EndPass
  <2>2. visit' \in Visits /\ visit'.at = 1 /\ visit'.phase = "rest"
    BY <2>1 DEF Visits
  <2>3. OrderDone # AppTables /\ \A n \in AppTables : n \in OrderDone \/ Blocked(n)
    BY <1>2, <1>5 DEF TableIInv, LoopKnows
  <2>4. OrderDone \subseteq AppTables
    BY LenProperties, <1>1 DEF OrderDone, Range, TableTypeOK
  <2>5. Cyclic
    <3> DEFINE S == AppTables \ OrderDone
    <3>1. S \in SUBSET AppTables /\ S # {}
      BY <2>3, <2>4
    <3>2. \A n \in S : \E c \in S : c # n /\ <<c, n>> \in references
      BY <2>3 DEF Blocked, childrenOf
    <3> QED  BY <3>1, <3>2 DEF Cyclic
  <2>6. LoopKnows'
    BY <1>3, <1>4, <2>2, <2>5 DEF LoopKnows
  <2> QED  BY <1>3, <1>4, <2>2, <2>6 DEF TableIInv
<1>6. CASE ~(visit.phase = "order" /\ ~visit.progressed) /\ Len(order) = Len(TableNames)
  <2>1. visit' = [phase |-> "delete", at |-> 1, progressed |-> FALSE]
    BY <1>6 DEF EndPass, NextPass
  <2>2. visit' \in Visits /\ visit'.at = 1 /\ visit'.phase = "delete"
    BY <2>1 DEF Visits
  <2>3. OrderDone = AppTables
    BY <1>1, <1>6, AllOrdered
  <2>4. \A j \in DOMAIN order : ~(j < 1)
    BY <1>1, LenProperties DEF TableTypeOK
  <2>5. LoopKnows'
    BY <1>1, <1>3, <1>6, <2>2, <2>3, <2>4 DEF LoopKnows
  <2> QED  BY <1>3, <1>4, <2>2, <2>5 DEF TableIInv
<1>7. CASE ~(visit.phase = "order" /\ ~visit.progressed) /\ Len(order) # Len(TableNames)
  <2>1. visit' = StartPass
    BY <1>7 DEF EndPass, NextPass
  <2>2. visit' \in Visits /\ visit'.at = 1 /\ visit'.phase = "order"
    BY <2>1 DEF StartPass, Visits
  <2>3. OrderDone # AppTables
    BY <1>1, <1>7, AllOrdered
  <2>4. LoopKnows'
    BY <1>3, <1>4, <2>2, <2>3 DEF LoopKnows
  <2> QED  BY <1>3, <1>4, <2>2, <2>4 DEF TableIInv
<1> QED  BY <1>5, <1>6, <1>7

LEMMA AppendRestIInv ==
    ASSUME TableIInv, AppendRest
    PROVE  TableIInv'
<1> DEFINE n == TableNames[visit.at]
<1>1. /\ TableTypeOK /\ visit.phase = "rest" /\ visit.at <= Len(TableNames)
      /\ visit.at \in Nat \ {0} /\ UNCHANGED <<references, filled>>
      /\ Cyclic /\ Passed \subseteq OrderDone
  BY DEF TableIInv, TableTypeOK, Visits, AppendRest, LoopKnows
<1>2. n \in AppTables
  BY <1>1, NamesType
<1>3. Cyclic'
  BY <1>1 DEF Cyclic
<1>4. visit' = [visit EXCEPT !.at = visit.at + 1]
  BY DEF AppendRest
<1>5. visit' \in Visits /\ visit'.phase = "rest" /\ visit'.at = visit.at + 1
  BY <1>1, <1>4 DEF TableTypeOK, Visits
<1>6. Passed' = Passed \cup {n}
  BY <1>1, <1>5, PassedGrows
<1>7. /\ order' \in Seq(AppTables) /\ IsInjective(order')
      /\ OrderDone' = OrderDone \cup {n}
  <2>1. CASE n \in OrderDone
    BY <1>1, <2>1 DEF AppendRest, TableTypeOK, OrderDone
  <2>2. CASE n \notin OrderDone
    <3>1. order' = Append(order, n)
      BY <2>2 DEF AppendRest
    <3> QED  BY <1>1, <1>2, <2>2, <3>1, OrderGrows
  <2> QED  BY <2>1, <2>2
<1> HIDE DEF n
<1>8. TableTypeOK'
  BY <1>1, <1>5, <1>7 DEF TableTypeOK
<1>9. LoopKnows'
  BY <1>1, <1>3, <1>5, <1>6, <1>7 DEF LoopKnows
<1> QED  BY <1>3, <1>8, <1>9 DEF TableIInv

LEMMA DeleteRowsIInv ==
    ASSUME TableIInv, DeleteRows
    PROVE  TableIInv'
<1> DEFINE n == order[visit.at]
<1>1. /\ TableTypeOK /\ visit.phase = "delete" /\ visit.at <= Len(order)
      /\ visit.at \in Nat \ {0} /\ UNCHANGED <<references, order>>
      /\ OrderDone = AppTables /\ Len(order) = Len(TableNames)
      /\ \A j \in DOMAIN order : j < visit.at => order[j] \notin filled
  BY DEF TableIInv, TableTypeOK, Visits, DeleteRows, LoopKnows
<1>2. Len(order) \in Nat /\ DOMAIN order = 1 .. Len(order) /\ visit.at \in DOMAIN order
  BY <1>1, LenProperties DEF TableTypeOK
<1>3. /\ Cyclic' = Cyclic /\ OrderDone' = OrderDone
      /\ (Cyclic \/ ChildrenFirst)'
  BY <1>1 DEF TableIInv, Cyclic, childrenOf, OrderDone, ChildrenFirst
<1>4. CASE \E c \in filled : c # n /\ <<c, n>> \in references
  <2>1. visit' = [visit EXCEPT !.phase = "failed"] /\ filled' = filled
    BY <1>4 DEF DeleteRows
  <2>2. visit' \in Visits /\ visit'.phase = "failed"
    BY <1>1, <2>1 DEF TableTypeOK, Visits
  <2>3. Cyclic
    <3> SUFFICES ASSUME ChildrenFirst PROVE FALSE
      BY DEF TableIInv
    <3>1. PICK c \in filled : c # n /\ <<c, n>> \in references
      BY <1>4
    <3>2. c \in childrenOf(n)
      BY <1>1, <3>1 DEF childrenOf, TableTypeOK
    <3>3. PICK j \in 1 .. visit.at - 1 : order[j] = c
      BY <1>2, <3>2 DEF ChildrenFirst
    <3>4. j \in DOMAIN order /\ j < visit.at
      BY <1>1, <1>2
    <3> QED  BY <1>1, <3>1, <3>3, <3>4
  <2>4. TableTypeOK' /\ LoopKnows'
    BY <1>1, <1>3, <2>1, <2>2, <2>3 DEF TableTypeOK, LoopKnows
  <2> QED  BY <1>3, <2>4 DEF TableIInv
<1>5. CASE ~\E c \in filled : c # n /\ <<c, n>> \in references
  <2>1. visit' = [visit EXCEPT !.at = visit.at + 1] /\ filled' = filled \ {n}
    BY <1>5 DEF DeleteRows
  <2>2. visit' \in Visits /\ visit'.phase = "delete" /\ visit'.at = visit.at + 1
    BY <1>1, <2>1 DEF TableTypeOK, Visits
  <2>3. \A j \in DOMAIN order : j < visit.at + 1 => j < visit.at \/ j = visit.at
    BY <1>1, <1>2
  <2>4. TableTypeOK'
    BY <1>1, <2>1, <2>2 DEF TableTypeOK
  <2>5. LoopKnows'
    BY <1>1, <1>3, <2>1, <2>2, <2>3 DEF LoopKnows
  <2> QED  BY <1>3, <2>4, <2>5 DEF TableIInv
<1> QED  BY <1>4, <1>5

LEMMA TableStepIInv == TableIInv /\ [TableNext]_tableVars => TableIInv'
<1> SUFFICES ASSUME TableIInv, [TableNext]_tableVars PROVE TableIInv'
  OBVIOUS
<1>1. CASE TruncateAgain
  <2>1. TableInit'
    BY <1>1 DEF TruncateAgain, TableInit, TableIInv, TableTypeOK
  <2> QED  BY <2>1, TableInitIInv, PTL
<1>2. CASE UNCHANGED tableVars
  BY <1>2 DEF tableVars, TableIInv, TableTypeOK, Cyclic, ChildrenFirst, childrenOf, LoopKnows,
     OrderDone, Passed, Blocked
<1> QED
  BY <1>1, <1>2, VisitTableIInv, EndPassIInv, AppendRestIInv, DeleteRowsIInv DEF TableNext

\* "Deleting in this order never violates a foreign key" (store.go:140), for any tables
\* and any foreign keys between them: an order that is computed has every table once; a
\* deletion is refused only when the keys form a cycle; and what ran through to the end
\* has emptied every table.
THEOREM TruncationsAreWhole == TableSpec => []TruncationWhole
<1>1. TableIInv => TruncationWhole
  <2> SUFFICES ASSUME TableIInv PROVE TruncationWhole
    OBVIOUS
  <2>1. visit.phase = "failed" => Cyclic
    BY DEF TableIInv, LoopKnows
  <2>2. visit.phase \in {"delete", "failed"} =>
            Range(order) = AppTables /\ Len(order) = Len(TableNames)
    BY DEF TableIInv, LoopKnows, OrderDone
  <2>3. ASSUME visit.phase = "delete", visit.at > Len(order) PROVE filled = {}
    <3>1. Len(order) \in Nat /\ DOMAIN order = 1 .. Len(order) /\ visit.at \in Nat
      BY LenProperties DEF TableIInv, TableTypeOK, Visits
    <3>2. \A j \in DOMAIN order : order[j] \notin filled
      BY <2>3, <3>1 DEF TableIInv, LoopKnows
    <3> QED  BY <2>2, <2>3, <3>2 DEF Range, TableIInv, TableTypeOK
  <2> QED  BY <2>1, <2>2, <2>3 DEF TruncationWhole
<1> QED  BY <1>1, TableInitIInv, TableStepIInv, PTL DEF TableSpec

-----------------------------------------------------------------------------
(***************************************************************************)
(* Keyset pagination.  Between two pages the cursor is the sort key of the *)
(* last row shown, and an event that has matched all along is on a page    *)
(* already or comes after that row.                                        *)
(***************************************************************************)
Walks ==
    [pc     : {"new", "more", "done"},
     cursor : [s : Nat \X Nat, e : Nat],
     shown  : Seq(SearchEvents),
     steady : SUBSET SearchEvents]

Ascending(rows) ==
    \A i, j \in DOMAIN rows : i < j => KeyBefore(SortKey(rows[i]), SortKey(rows[j]))

SearchIInv ==
    /\ matching \subseteq SearchEvents
    /\ walk \in Walks
    /\ walk.steady \subseteq matching
    /\ Ascending(walk.shown)
    /\ walk.pc = "new" => walk.shown = <<>> /\ walk.cursor = NoCursor
    /\ walk.pc = "more" =>
          /\ walk.shown # <<>>
          /\ walk.cursor = Encode(Last(walk.shown))
          /\ \A e \in walk.steady :
                \/ e \in Range(walk.shown)
                \/ KeyBefore(SortKey(Last(walk.shown)), SortKey(e))
    /\ walk.pc = "done" => walk.steady \subseteq Range(walk.shown)

\* The row comparison, column by column.
LEMMA KeyBeforeByColumn ==
    ASSUME NEW d \in SearchEvents, NEW e \in SearchEvents
    PROVE  /\ StartsAt[d] \in Nat \X Nat /\ StartsAt[e] \in Nat \X Nat /\ d \in Nat /\ e \in Nat
           /\ KeyBefore(SortKey(d), SortKey(e)) <=>
                 \/ StartsAt[d][1] < StartsAt[e][1]
                 \/ StartsAt[d][1] = StartsAt[e][1] /\ StartsAt[d][2] < StartsAt[e][2]
                 \/ StartsAt[d] = StartsAt[e] /\ d < e
<1>1. /\ StartsAt[d] \in Nat \X Nat /\ StartsAt[e] \in Nat \X Nat
      /\ d \in Nat /\ e \in Nat
  BY SearchAssumption
<1>2. StartsAt[d] = StartsAt[e] <=>
         StartsAt[d][1] = StartsAt[e][1] /\ StartsAt[d][2] = StartsAt[e][2]
  BY <1>1
<1> DEFINE a == SortKey(d)
           b == SortKey(e)
<1>3. /\ a[1] = StartsAt[d][1] /\ a[2] = StartsAt[d][2] /\ a[3] = d
      /\ b[1] = StartsAt[e][1] /\ b[2] = StartsAt[e][2] /\ b[3] = e
  BY DEF SortKey
<1>4. KeyBefore(a, b) <=>
         \/ a[1] < b[1]
         \/ a[1] = b[1] /\ a[2] < b[2]
         \/ a[1] = b[1] /\ a[2] = b[2] /\ a[3] < b[3]
  <2>1. 1 .. 3 = {1, 2, 3} /\ 1 .. 1 - 1 = {} /\ 1 .. 2 - 1 = {1} /\ 1 .. 3 - 1 = {1, 2}
    OBVIOUS
  <2> HIDE DEF a, b
  <2>2. QED
    BY <2>1 DEF KeyBefore
<1> HIDE DEF a, b
<1>5. QED
  BY <1>1, <1>2, <1>3, <1>4 DEF a, b

LEMMA KeyBeforeTransitive ==
    ASSUME NEW c \in SearchEvents, NEW d \in SearchEvents, NEW e \in SearchEvents,
           KeyBefore(SortKey(c), SortKey(d)), KeyBefore(SortKey(d), SortKey(e))
    PROVE  KeyBefore(SortKey(c), SortKey(e))
<1> DEFINE s(x) == StartsAt[x][1]
           f(x) == StartsAt[x][2]
<1>1. \A x, y \in SearchEvents :
         /\ s(x) \in Nat /\ f(x) \in Nat /\ x \in Nat
         /\ StartsAt[x] = StartsAt[y] <=> s(x) = s(y) /\ f(x) = f(y)
         /\ KeyBefore(SortKey(x), SortKey(y)) <=>
               \/ s(x) < s(y)
               \/ s(x) = s(y) /\ f(x) < f(y)
               \/ StartsAt[x] = StartsAt[y] /\ x < y
  BY KeyBeforeByColumn
<1> HIDE DEF s, f
<1>2. QED
  BY <1>1

\* A cursor names the sort key of its row, and is never taken for none.
LEMMA CursorsRoundTrip ==
    ASSUME NEW d \in SearchEvents, NEW e \in SearchEvents
    PROVE  /\ Encode(d) # NoCursor /\ Encode(d) \in [s : Nat \X Nat, e : Nat]
           /\ AfterCursor(Encode(d), e) <=> KeyBefore(SortKey(d), SortKey(e))
<1>1. StartsAt[d] \in Nat \X Nat /\ d \in Nat /\ d # 0
  BY SearchAssumption
<1>2. Encode(d).s = StartsAt[d] /\ Encode(d).e = d
  BY DEF Encode
<1>3. Encode(d) # NoCursor
  BY <1>1, <1>2 DEF NoCursor
<1>4. Decode(Encode(d)) = SortKey(d)
  BY <1>2 DEF Decode, SortKey
<1>5. QED
  BY <1>1, <1>3, <1>4 DEF Encode, AfterCursor

\* A page is the beginning of the rows, its probe row left out.
LEMMA PagesArePrefixes ==
    ASSUME NEW S, NEW rows \in Seq(S), NEW limit \in Nat
    PROVE  /\ Page(rows, limit) \in Seq(S)
           /\ Len(Page(rows, limit)) = IF Len(rows) > limit THEN limit ELSE Len(rows)
           /\ \A i \in 1 .. Len(Page(rows, limit)) : Page(rows, limit)[i] = rows[i]
<1>1. CASE Len(rows) > limit
  BY <1>1, SubSeqProperties DEF Page
<1>2. CASE ~(Len(rows) > limit)
  BY <1>2 DEF Page
<1>3. QED
  BY <1>1, <1>2

\* What the statement returns: at most n rows, ascending, nothing before them left out.
LEMMA FirstRowsAscend ==
    ASSUME NEW S, NEW n \in Nat, NEW rows \in FirstRows(S, n)
    PROVE  /\ rows \in Seq(S) /\ Len(rows) <= n /\ Ascending(rows)
           /\ \A e \in S \ Range(rows) :
                 Len(rows) = n /\ KeyBefore(SortKey(rows[n]), SortKey(e))
<1>1. PICK m \in 0 .. n : rows \in [1 .. m -> S]
  BY DEF FirstRows, SeqOf
<1>2. m \in Nat /\ m <= n
  OBVIOUS
<1>3. rows \in Seq(S) /\ Len(rows) = m
  BY <1>1, <1>2, IsASeq
<1>4. QED
  BY <1>2, <1>3 DEF FirstRows, Ascending

\* A search lands one page, after every row shown before it.
LEMMA PagesFollow ==
    ASSUME NEW raw \in RawLimits, Search(raw), SearchIInv
    PROVE  SearchIInv'
<1> DEFINE limit == parseLimit(raw)
           S == Following(walk.cursor)
           steady == IF walk.pc = "new" THEN matching ELSE walk.steady
<1>1. limit \in Nat /\ limit >= 1
  BY SearchAssumption DEF parseLimit
<1>2. PICK rows \in FirstRows(S, limit + 1) :
         walk' = [pc     |-> IF Len(rows) > limit THEN "more" ELSE "done",
                  cursor |-> IF Len(rows) > limit
                             THEN Encode(Last(Page(rows, limit))) ELSE NoCursor,
                  shown  |-> walk.shown \o Page(rows, limit),
                  steady |-> steady]
  BY DEF Search
<1> DEFINE page == Page(rows, limit)
           shown == walk.shown \o page
<1>3. matching' = matching /\ matching \subseteq SearchEvents /\ walk \in Walks
  BY DEF Search, SearchIInv
<1>4. walk.pc \in {"new", "more"} /\ walk.shown \in Seq(SearchEvents)
  BY <1>3 DEF Search, Walks
<1>5. steady \subseteq matching /\ S \subseteq SearchEvents
  BY <1>3 DEF SearchIInv, Following
<1> HIDE DEF limit
<1>6. /\ rows \in Seq(S) /\ Len(rows) <= limit + 1 /\ Ascending(rows)
      /\ \A e \in S \ Range(rows) :
            Len(rows) = limit + 1 /\ KeyBefore(SortKey(rows[limit + 1]), SortKey(e))
  <2>1. limit + 1 \in Nat
    BY <1>1
  <2> HIDE DEF S
  <2>2. QED
    BY <2>1, FirstRowsAscend
<1> DEFINE more == Len(rows) > limit
<1>7. /\ page \in Seq(S)
      /\ Len(page) = IF more THEN limit ELSE Len(rows)
      /\ \A i \in 1 .. Len(page) : page[i] = rows[i]
  <2> HIDE DEF S
  <2>1. QED
    BY <1>1, <1>6, PagesArePrefixes
<1>8. /\ rows \in Seq(SearchEvents) /\ page \in Seq(SearchEvents) /\ shown \in Seq(SearchEvents)
      /\ Len(rows) \in Nat /\ Len(page) \in Nat /\ Len(walk.shown) \in Nat
  <2>1. Seq(S) \subseteq Seq(SearchEvents)
    BY <1>5, SeqMonotonic
  <2>2. rows \in Seq(SearchEvents) /\ page \in Seq(SearchEvents)
    BY <2>1, <1>6, <1>7
  <2> HIDE DEF page
  <2>3. QED
    BY <2>2, <1>4, ConcatProperties, LenProperties
<1>9. /\ Len(shown) = Len(walk.shown) + Len(page)
      /\ \A i \in 1 .. Len(walk.shown) : shown[i] = walk.shown[i]
      /\ \A i \in 1 .. Len(page) : shown[Len(walk.shown) + i] = page[i]
      /\ DOMAIN shown = 1 .. Len(shown)
  <2> HIDE DEF page
  <2>1. QED
    BY <1>4, <1>8, ConcatProperties, LenProperties
<1>10. Ascending(walk.shown)
  BY DEF SearchIInv
\* What has matched all along is on a page already or follows the cursor.
<1>11. \A e \in steady : e \in Range(walk.shown) \/ e \in S
  <2>1. CASE walk.pc = "new"
    BY <2>1 DEF SearchIInv, Following, AfterCursor
  <2>2. CASE walk.pc = "more"
    <3>1. Last(walk.shown) \in SearchEvents
      BY <2>2, <1>4, LenProperties DEF SearchIInv, Last
    <3>2. QED
      BY <2>2, <3>1, <1>3, <1>5, CursorsRoundTrip DEF SearchIInv, Following
  <2>3. QED
    BY <1>4, <2>1, <2>2
\* What follows the cursor is after every row shown.
<1>12. \A i \in 1 .. Len(walk.shown) : \A e \in S : KeyBefore(SortKey(walk.shown[i]), SortKey(e))
  <2>1. CASE walk.pc = "new"
    BY <2>1 DEF SearchIInv
  <2>2. CASE walk.pc = "more"
    <3> SUFFICES ASSUME NEW i \in 1 .. Len(walk.shown), NEW e \in S
                 PROVE  KeyBefore(SortKey(walk.shown[i]), SortKey(e))
      OBVIOUS
    <3> DEFINE last == walk.shown[Len(walk.shown)]
    <3>1. /\ walk.shown[i] \in SearchEvents /\ last \in SearchEvents /\ e \in SearchEvents
          /\ Len(walk.shown) \in Nat /\ DOMAIN walk.shown = 1 .. Len(walk.shown)
          /\ Len(walk.shown) \in 1 .. Len(walk.shown) /\ i <= Len(walk.shown)
      BY <1>4, <1>5, LenProperties, ElementOfSeq
    <3>2. AfterCursor(Encode(last), e)
      BY <2>2 DEF SearchIInv, Following, Last
    <3>3. KeyBefore(SortKey(last), SortKey(e))
      BY <3>1, <3>2, CursorsRoundTrip
    <3>4. i = Len(walk.shown) \/ KeyBefore(SortKey(walk.shown[i]), SortKey(last))
      BY <3>1, <1>10 DEF Ascending
    <3>5. QED
      BY <3>1, <3>3, <3>4, KeyBeforeTransitive
  <2>3. QED
    BY <1>4, <2>1, <2>2
<1>13. Ascending(shown)
  <2> SUFFICES ASSUME NEW i \in 1 .. Len(shown), NEW j \in 1 .. Len(shown), i < j
               PROVE  KeyBefore(SortKey(shown[i]), SortKey(shown[j]))
    BY <1>9 DEF Ascending
  <2> DEFINE k == Len(walk.shown)
  <2>1. CASE j <= k
    <3>1. i \in 1 .. k /\ j \in 1 .. k
      BY <2>1, <1>8
    <3>2. QED
      BY <3>1, <1>4, <1>9, <1>10, LenProperties DEF Ascending
  <2>2. CASE i <= k /\ j > k
    <3>1. i \in 1 .. k /\ j - k \in 1 .. Len(page)
      BY <2>2, <1>8, <1>9
    <3>2. shown[i] = walk.shown[i] /\ shown[j] = page[j - k]
      <4>1. k + (j - k) = j
        BY <1>8
      <4> HIDE DEF shown
      <4>2. shown[i] = walk.shown[i] /\ shown[k + (j - k)] = page[j - k]
        BY <3>1, <1>9
      <4>3. QED
        BY <4>1, <4>2
    <3>3. page[j - k] \in S
      BY <3>1, <1>7, ElementOfSeq
    <3>4. QED
      BY <3>1, <3>2, <3>3, <1>12
  <2>3. CASE i > k
    <3>1. i - k \in 1 .. Len(page) /\ j - k \in 1 .. Len(page) /\ i - k < j - k
      BY <2>3, <1>8, <1>9
    <3>2. shown[i] = page[i - k] /\ shown[j] = page[j - k]
      <4>1. k + (i - k) = i /\ k + (j - k) = j
        BY <1>8
      <4> HIDE DEF shown
      <4>2. shown[k + (i - k)] = page[i - k] /\ shown[k + (j - k)] = page[j - k]
        BY <3>1, <1>9
      <4>3. QED
        BY <4>1, <4>2
    <3>3. page[i - k] = rows[i - k] /\ page[j - k] = rows[j - k]
      BY <3>1, <1>7
    <3>4. i - k \in DOMAIN rows /\ j - k \in DOMAIN rows
      BY <3>1, <1>1, <1>7, <1>8, LenProperties
    <3>5. QED
      BY <3>1, <3>2, <3>3, <3>4, <1>6 DEF Ascending
  <2>4. QED
    BY <2>1, <2>2, <2>3, <1>8
<1>14. Range(walk.shown) \subseteq Range(shown) /\ \A i \in 1 .. Len(page) : page[i] \in Range(shown)
  <2>1. DOMAIN walk.shown = 1 .. Len(walk.shown)
    BY <1>4, LenProperties
  <2>2. \A i \in 1 .. Len(walk.shown) : i \in DOMAIN shown
    BY <1>8, <1>9
  <2>3. \A i \in 1 .. Len(page) : Len(walk.shown) + i \in DOMAIN shown
    BY <1>8, <1>9
  <2>4. QED
    BY <2>1, <2>2, <2>3, <1>9 DEF Range
<1>15. DOMAIN rows = 1 .. Len(rows) /\ \A i \in 1 .. Len(rows) : rows[i] \in SearchEvents
  BY <1>8, LenProperties, ElementOfSeq
<1>16. CASE more
  <2>1. Len(rows) = limit + 1 /\ Len(page) = limit
    BY <1>16, <1>1, <1>6, <1>7, <1>8
  <2>2. limit \in 1 .. Len(rows) /\ limit + 1 \in 1 .. Len(rows) /\ limit \in 1 .. Len(page)
    BY <2>1, <1>1
  <2>3. shown # <<>> /\ Last(shown) = rows[limit] /\ Last(page) = rows[limit]
    <3>1. Len(shown) = Len(walk.shown) + limit /\ Len(shown) # 0
      BY <2>1, <1>1, <1>8, <1>9
    <3>2. shown # <<>>
      BY <3>1, <1>8
    <3>3. page[limit] = rows[limit] /\ shown[Len(walk.shown) + limit] = page[limit]
      BY <2>2, <1>7, <1>9
    <3> HIDE DEF shown, page
    <3>4. QED
      BY <3>1, <3>2, <3>3, <2>1 DEF Last
  <2>4. \A e \in steady : e \in Range(shown) \/ KeyBefore(SortKey(rows[limit]), SortKey(e))
    <3> SUFFICES ASSUME NEW e \in steady
                 PROVE  e \in Range(shown) \/ KeyBefore(SortKey(rows[limit]), SortKey(e))
      OBVIOUS
    <3>1. KeyBefore(SortKey(rows[limit]), SortKey(rows[limit + 1]))
      <4>1. limit < limit + 1 /\ limit \in DOMAIN rows /\ limit + 1 \in DOMAIN rows
        BY <2>2, <1>1, <1>15
      <4>2. QED
        BY <4>1, <1>6 DEF Ascending
    <3>2. CASE e \in Range(walk.shown)
      BY <3>2, <1>14
    <3>3. CASE e \in Range(rows)
      <4>1. PICK i \in 1 .. Len(rows) : e = rows[i]
        BY <3>3, <1>15 DEF Range
      <4>2. i \in 1 .. Len(page) \/ i = limit + 1
        BY <2>1, <1>1
      <4>3. QED
        BY <4>1, <4>2, <3>1, <1>7, <1>14
    <3>4. CASE e \in S \ Range(rows)
      <4>1. e \in SearchEvents /\ KeyBefore(SortKey(rows[limit + 1]), SortKey(e))
        BY <3>4, <1>5, <1>6
      <4>2. rows[limit] \in SearchEvents /\ rows[limit + 1] \in SearchEvents
        BY <2>2, <1>15
      <4>3. QED
        BY <4>1, <4>2, <3>1, KeyBeforeTransitive
    <3>5. QED
      BY <3>2, <3>3, <3>4, <1>11
  <2>5. walk' = [pc |-> "more", cursor |-> Encode(rows[limit]), shown |-> shown, steady |-> steady]
    BY <1>16, <1>2, <2>3
  <2>6. rows[limit] \in SearchEvents /\ Encode(rows[limit]) \in [s : Nat \X Nat, e : Nat]
    BY <2>2, <1>15, CursorsRoundTrip
  <2> HIDE DEF shown, steady
  <2>7. QED
    BY <2>3, <2>4, <2>5, <2>6, <1>3, <1>5, <1>8, <1>13 DEF SearchIInv, Walks
<1>17. CASE ~more
  <2>1. S \subseteq Range(rows)
    BY <1>17, <1>1, <1>6, <1>8
  <2>2. Len(page) = Len(rows)
    BY <1>17, <1>7
  <2>3. Range(rows) \subseteq Range(shown)
    BY <2>2, <1>7, <1>14, <1>15 DEF Range
  <2>4. steady \subseteq Range(shown)
    BY <2>1, <2>3, <1>11, <1>14
  <2>5. walk' = [pc |-> "done", cursor |-> NoCursor, shown |-> shown, steady |-> steady]
    BY <1>17, <1>2
  <2>6. NoCursor \in [s : Nat \X Nat, e : Nat]
    BY DEF NoCursor, ZeroTime
  <2> HIDE DEF shown, steady
  <2>7. QED
    BY <2>4, <2>5, <2>6, <1>3, <1>5, <1>8, <1>13 DEF SearchIInv, Walks
<1>18. QED
  BY <1>16, <1>17

LEMMA WalksStart == SearchInit => SearchIInv
<1> SUFFICES ASSUME SearchInit PROVE SearchIInv
  OBVIOUS
<1>1. NoCursor \in [s : Nat \X Nat, e : Nat]
  BY DEF NoCursor, ZeroTime
<1>2. Ascending(<<>>)
  BY DEF Ascending
<1>3. QED
  BY <1>1, <1>2, EmptySeq DEF SearchInit, NewWalk, SearchIInv, Walks

LEMMA SearchesKeepOrder == SearchIInv /\ [SearchNext]_searchVars => SearchIInv'
<1> SUFFICES ASSUME SearchIInv, [SearchNext]_searchVars PROVE SearchIInv'
  OBVIOUS
<1>1. ASSUME NEW raw \in RawLimits, Search(raw) PROVE SearchIInv'
  BY <1>1, PagesFollow
<1>2. ASSUME NEW e \in SearchEvents, StartMatching(e) PROVE SearchIInv'
  BY <1>2 DEF StartMatching, SearchIInv
<1>3. ASSUME NEW e \in SearchEvents, StopMatching(e) PROVE SearchIInv'
  <2>1. walk' = [pc |-> walk.pc, cursor |-> walk.cursor, shown |-> walk.shown,
                 steady |-> walk.steady \ {e}]
    BY <1>3 DEF StopMatching, SearchIInv, Walks
  <2>2. QED
    BY <2>1, <1>3 DEF StopMatching, SearchIInv, Walks
<1>4. CASE SearchAgain
  <2>1. NoCursor \in [s : Nat \X Nat, e : Nat] /\ Ascending(<<>>)
    BY DEF NoCursor, ZeroTime, Ascending
  <2>2. QED
    BY <2>1, <1>4, EmptySeq DEF SearchAgain, NewWalk, SearchIInv, Walks
<1>5. CASE UNCHANGED searchVars
  BY <1>5 DEF searchVars, SearchIInv
<1>6. QED
  BY <1>1, <1>2, <1>3, <1>4, <1>5 DEF SearchNext

\* However the pages are cut and whatever is published or edited between them, no
\* event is shown twice or out of order, and a walk that has reached the last page
\* has shown every event that matched all along.
THEOREM PagesAreExact == SearchSpec => []PagesExact
<1>1. SearchIInv => PagesExact
  <2> SUFFICES ASSUME SearchIInv PROVE PagesExact
    OBVIOUS
  <2>1. QED
    BY DEF SearchIInv, Ascending, PagesExact
<1>2. QED
  BY <1>1, WalksStart, SearchesKeepOrder, PTL DEF SearchSpec
=============================================================================
