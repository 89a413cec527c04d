-------------------------------- MODULE Audit --------------------------------
(***************************************************************************)
(* CheckIntegrity (booking/integrity.go): the audit of one event's         *)
(* inventory runs beside the booking service.  Its queries are outside any *)
(* transaction, so each sees what has been committed when it runs.  The    *)
(* query for duplicate seats is left out: Tickets has one row per seat, as *)
(* UNIQUE (event_id, seat_id) demands, and its answer is always 0.         *)
(***************************************************************************)
EXTENDS Booking

CONSTANT AuditedEvent

ASSUME AuditAssumption == AuditedEvent \in Events

VARIABLE audit      \* the audit under way, or its last report

auditVars == <<vars, audit>>

NoAudit ==
    [pc |-> "tickets", sold |-> 0, orphans |-> FALSE, balanced |-> TRUE, inConfirmed |-> 0,
     consistent |-> TRUE]

EventTickets(status) ==
    {t \in Tickets : EventOf[t] = AuditedEvent /\ tickets[t].status = status}

\* Bookings of the event, by way of the hold they were made for.
EventBookings(status) ==
    {id \in BookingIds :
        /\ bookings[id].status = status
        /\ \E t \in holds[bookings[id].hold].seats : EventOf[t] = AuditedEvent}

InConfirmedBookings ==
    Cardinality({t \in Tickets : tickets[t].booking \in EventBookings("CONFIRMED")})

\* The counts by status, and the rows without an owner, from one statement.
CountTickets ==
    /\ audit.pc = "tickets"
    /\ audit' = [audit EXCEPT
           !.pc = "bookings",
           !.sold = Cardinality(EventTickets("SOLD")),
           !.orphans = \/ \E t \in EventTickets("SOLD") : tickets[t].booking = Null
                       \/ \E t \in EventTickets("HELD") : tickets[t].hold = Null,
           !.balanced = Cardinality({t \in Tickets : EventOf[t] = AuditedEvent}) =
               Cardinality(EventTickets("AVAILABLE")) + Cardinality(EventTickets("HELD"))
                   + Cardinality(EventTickets("SOLD"))]

\* Mutation: the bookings are counted before the tickets.
CountConfirmedFirst ==
    /\ audit.pc \in {"bookings", "tickets"}
    /\ IF audit.pc = "tickets"
       THEN audit' = [audit EXCEPT !.inConfirmed = InConfirmedBookings]
       ELSE audit' = [audit EXCEPT !.pc = "compensations"]

CountConfirmed ==
    /\ audit.pc = "bookings"
    /\ audit' = [audit EXCEPT !.pc = "compensations", !.inConfirmed = InConfirmedBookings]

CountCompensating ==
    /\ audit.pc = "compensations"
    /\ audit' = [audit EXCEPT
           !.pc = "report",
           !.consistent =
               /\ ~audit.orphans /\ audit.balanced
               /\ EventBookings("COMPENSATING") = {}
               /\ audit.sold = audit.inConfirmed]

AuditReturns ==
    /\ audit.pc = "report"
    /\ audit' = NoAudit

AuditStep == CountTickets \/ CountConfirmed \/ CountCompensating \/ AuditReturns

AuditInit == Init /\ audit = NoAudit

AuditNext == (Next /\ UNCHANGED audit) \/ (AuditStep /\ UNCHANGED vars)

AuditSpec == AuditInit /\ [][AuditNext]_auditVars
-----------------------------------------------------------------------------
\* The report errs on one side only (integrity.go:44, "must agree with Sold"): it may
\* count more seats in confirmed bookings than sold ones, when a sale commits between
\* its queries, and never fewer, so `sold' above `in confirmed bookings' is an oversell
\* or a lost record; and no seat is without its owner or its status at any time.
AuditOneSided ==
    /\ ~audit.orphans /\ audit.balanced
    /\ audit.pc \in {"bookings", "compensations", "report"} =>
           audit.sold <= Cardinality(EventTickets("SOLD"))
    /\ audit.pc \in {"compensations", "report"} =>
           /\ audit.sold <= audit.inConfirmed
           /\ audit.inConfirmed <= Cardinality(EventTickets("SOLD"))
=============================================================================
