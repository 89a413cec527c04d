-------------------------------- MODULE Holds --------------------------------
(***************************************************************************)
(* The lease half of the booking service: createHold, releaseHold and the  *)
(* expiry reaper (booking/holds.go, booking/reaper.go).                    *)
(*                                                                         *)
(* One step is one database transaction, or the local work between two of  *)
(* them.  A transaction whose row locks are held from its first write to   *)
(* its commit is atomic here; what a request read or computed before the   *)
(* transaction (its timestamp, the quota count) is kept in its local state *)
(* and may be stale when it is used.  A request can die at any point       *)
(* (process crash, cancelled context, database error, deadlock victim): an *)
(* uncommitted transaction then leaves no trace.                           *)
(***************************************************************************)
EXTENDS Schema

CONSTANTS
    Claimers,               \* goroutines serving createHold
    Reapers,                \* concurrent runs of the expiry sweep
    HoldTTL,
    MaxTicketsPerHold,
    MaxActiveHoldsPerUser,
    reapBatchSize,
    maxReapBatches,
    LastCall,               \* bound: no request arrives after this time
    MaxTime                 \* bound: the clock stops here

ASSUME HoldsAssumption ==
    /\ HoldTTL \in Nat \ {0}
    /\ MaxTicketsPerHold \in Nat \ {0}
    /\ MaxActiveHoldsPerUser \in Nat \ {0}
    /\ reapBatchSize \in Nat \ {0}
    /\ maxReapBatches \in Nat \ {0}
    /\ LastCall \in Nat /\ MaxTime \in Nat

VARIABLES
    tickets,    \* table tickets
    holds,      \* table holds
    clock,      \* what clock.Now() returns
    claim,      \* claim[c]: local state of the createHold call c serves
    sweep       \* sweep[r]: local state of the reaper run r

holdVars == <<tickets, holds, clock, claim, sweep>>

-----------------------------------------------------------------------------
\* Tickets whose row carries hold h and is still HELD: the fence every
\* conditional write of the service uses.
HeldBy(h) == {t \in Tickets : tickets[t].status = "HELD" /\ tickets[t].hold = h}

\* Mutation: a lease counts as lapsed one tick before it is.
LapsedEarly(t, at) == tickets[t].status = "HELD" /\ tickets[t].expires <= at + 1

Lapsed(t, at) == tickets[t].status = "HELD" /\ tickets[t].expires <= at

\* Mutation: the claim forgets to look at the expiry.
ClaimableUnlessSold(t, at) == tickets[t].status # "SOLD"

Claimable(t, at) == tickets[t].status = "AVAILABLE" \/ Lapsed(t, at)

\* Mutation: the sweep goes by the hold, and frees seats of ACTIVE holds only.
ReapableIfActive(t, at) == Lapsed(t, at) /\ holds[tickets[t].hold].status = "ACTIVE"

\* Mutation: the sweep is a tick early.
ReapableEarly(t, at) == tickets[t].status = "HELD" /\ tickets[t].expires <= at + 1

\* The WHERE clause of the sweep.
Reapable(t, at) == tickets[t].status = "HELD" /\ tickets[t].expires <= at

ActiveHolds(u, at) ==
    {h \in HoldIds : /\ holds[h].status = "ACTIVE"
                     /\ holds[h].user = u
                     /\ holds[h].expires > at}

\* Mutation: the index covers ACTIVE holds only.
HoldKeyActive(u, k) ==
    k # Null /\ \E h \in HoldIds :
        holds[h].user = u /\ holds[h].key = k /\ holds[h].status = "ACTIVE"

\* The partial unique index on (user_id, idempotency_key).
HoldKeyTaken(u, k) ==
    k # Null /\ \E h \in HoldIds : holds[h].user = u /\ holds[h].key = k

\* Mutation: the seat becomes AVAILABLE and keeps its hold_id.
FreeTicketsResidue(S) ==
    [t \in Tickets |-> IF t \in S THEN [tickets[t] EXCEPT !.status = "AVAILABLE"] ELSE tickets[t]]

\* UPDATE tickets SET status = 'AVAILABLE', hold_id = NULL, hold_expires_at = NULL
FreeTickets(S) ==
    [t \in Tickets |-> IF t \in S THEN AvailableTicket ELSE tickets[t]]

IdleClaim ==
    [pc |-> "idle", user |-> Null, event |-> Null, seats |-> {}, key |-> Null, now |-> 0]

IdleSweep == [pc |-> "idle", now |-> 0, i |-> 0]

-----------------------------------------------------------------------------
(***************************************************************************)
(* createHold.  A request whose key already names a hold returns that hold *)
(* and changes nothing, so it never leaves "idle".                         *)
(***************************************************************************)
ValidTicketIDs(S) == S # {} /\ Cardinality(S) <= MaxTicketsPerHold

CreateHold(c, u, e, S, k) ==
    /\ claim[c].pc = "idle"
    /\ clock <= LastCall
    /\ ValidTicketIDs(S)
    /\ ~HoldKeyTaken(u, k)
    /\ claim' = [claim EXCEPT ![c] =
           [pc |-> "begin", user |-> u, event |-> e, seats |-> S, key |-> k, now |-> clock]]
    /\ UNCHANGED <<tickets, holds, clock, sweep>>

\* assertOnSale and assertHoldQuota read in the transaction but lock nothing.
OnSale(c) == OnsaleAt[claim[c].event] <= claim[c].now

WithinQuota(c) ==
    Cardinality(ActiveHolds(claim[c].user, claim[c].now)) < MaxActiveHoldsPerUser

AssertQuota(c) ==
    /\ claim[c].pc = "begin"
    /\ OnSale(c)
    /\ WithinQuota(c)
    /\ claim' = [claim EXCEPT ![c].pc = "claim"]
    /\ UNCHANGED <<tickets, holds, clock, sweep>>

QuotaRejected(c) ==
    /\ claim[c].pc = "begin"
    /\ ~(OnSale(c) /\ WithinQuota(c))
    /\ claim' = [claim EXCEPT ![c] = IdleClaim]
    /\ UNCHANGED <<tickets, holds, clock, sweep>>

\* Every requested row exists for the event and is claimable under its lock.
SeatsClaimable(c) ==
    \A t \in claim[c].seats :
        EventOf[t] = claim[c].event /\ Claimable(t, claim[c].now)

\* Lapsed leases this claim takes seats from; only ACTIVE ones are updated.
Displaced(c) ==
    {h \in HoldIds : holds[h].status = "ACTIVE" /\ HeldBy(h) \cap claim[c].seats # {}}

\* Lock the rows, expire the displaced holds, insert the hold, claim every row.
ClaimSeats(c, h) ==
    LET q == claim[c] IN
    /\ q.pc = "claim"
    /\ SeatsClaimable(c)
    /\ holds[h].status = "NONE"
    /\ ~HoldKeyTaken(q.user, q.key)
    /\ holds' = [g \in HoldIds |->
           IF g = h
           THEN [status |-> "ACTIVE", user |-> q.user, expires |-> q.now + HoldTTL,
                 key |-> q.key, seats |-> q.seats]
           ELSE IF g \in Displaced(c) THEN [holds[g] EXCEPT !.status = "EXPIRED"]
           ELSE holds[g]]
    /\ tickets' = [t \in Tickets |->
           IF t \in q.seats
           THEN [status |-> "HELD", hold |-> h, expires |-> q.now + HoldTTL, booking |-> Null]
           ELSE tickets[t]]
    /\ claim' = [claim EXCEPT ![c] = IdleClaim]
    /\ UNCHANGED <<clock, sweep>>

\* A seat is lost or unknown, or the unique index rejects the insert: rollback.
ClaimRejected(c) ==
    /\ claim[c].pc = "claim"
    /\ ~SeatsClaimable(c) \/ HoldKeyTaken(claim[c].user, claim[c].key)
    /\ claim' = [claim EXCEPT ![c] = IdleClaim]
    /\ UNCHANGED <<tickets, holds, clock, sweep>>

ClaimFails(c) ==
    /\ claim[c].pc # "idle"
    /\ claim' = [claim EXCEPT ![c] = IdleClaim]
    /\ UNCHANGED <<tickets, holds, clock, sweep>>

-----------------------------------------------------------------------------
\* Mutation: the hold ends but its seats stay HELD.
ReleaseHoldOnly(u, h) ==
    /\ holds[h].user = u
    /\ holds[h].status = "ACTIVE"
    /\ holds' = [holds EXCEPT ![h].status = "RELEASED"]
    /\ UNCHANGED <<tickets, clock, claim, sweep>>

(* releaseHold: one transaction, and no timestamp: a lapsed lease that      *)
(* still reads ACTIVE can be released too.                                  *)
ReleaseHold(u, h) ==
    /\ holds[h].user = u
    /\ holds[h].status = "ACTIVE"
    /\ tickets' = FreeTickets(HeldBy(h))
    /\ holds' = [holds EXCEPT ![h].status = "RELEASED"]
    /\ UNCHANGED <<clock, claim, sweep>>

-----------------------------------------------------------------------------
(***************************************************************************)
(* The reaper.  One timestamp for the whole sweep; each batch commits on   *)
(* its own, and SKIP LOCKED lets it pass over any row that a transaction   *)
(* in flight has locked, so a batch frees some of the lapsed tickets, at   *)
(* most reapBatchSize.  A short batch ends the loop.                       *)
(***************************************************************************)
ReapStart(r) ==
    /\ sweep[r].pc = "idle"
    /\ sweep' = [sweep EXCEPT ![r] = [pc |-> "batch", now |-> clock, i |-> 0]]
    /\ UNCHANGED <<tickets, holds, clock, claim>>

LoopEnds(r, S) == Cardinality(S) < reapBatchSize \/ sweep[r].i = maxReapBatches - 1

ReapBatch(r, S) ==
    /\ sweep[r].pc = "batch"
    /\ \A t \in S : Reapable(t, sweep[r].now)
    /\ Cardinality(S) <= reapBatchSize
    /\ tickets' = FreeTickets(S)
    /\ sweep' = IF LoopEnds(r, S) THEN [sweep EXCEPT ![r].pc = "expire"]
                                  ELSE [sweep EXCEPT ![r].i = @ + 1]
    /\ UNCHANGED <<holds, clock, claim>>

ReapHolds(r) ==
    /\ sweep[r].pc = "expire"
    /\ holds' = [h \in HoldIds |->
           IF holds[h].status = "ACTIVE" /\ holds[h].expires <= sweep[r].now
           THEN [holds[h] EXCEPT !.status = "EXPIRED"]
           ELSE holds[h]]
    /\ sweep' = [sweep EXCEPT ![r] = IdleSweep]
    /\ UNCHANGED <<tickets, clock, claim>>

ReapFails(r) ==
    /\ sweep[r].pc # "idle"
    /\ sweep' = [sweep EXCEPT ![r] = IdleSweep]
    /\ UNCHANGED <<tickets, holds, clock, claim>>

Tick ==
    /\ clock < MaxTime
    /\ clock' = clock + 1
    /\ UNCHANGED <<tickets, holds, claim, sweep>>

-----------------------------------------------------------------------------
HoldsInit ==
    /\ tickets = [t \in Tickets |-> AvailableTicket]
    /\ holds = [h \in HoldIds |-> NoHold]
    /\ clock = 0
    /\ claim = [c \in Claimers |-> IdleClaim]
    /\ sweep = [r \in Reapers |-> IdleSweep]

ClaimStep(c) ==
    \/ \E u \in Users, e \in Events, S \in SUBSET Tickets, k \in HoldKeys \cup {Null} :
           CreateHold(c, u, e, S, k)
    \/ AssertQuota(c)
    \/ QuotaRejected(c)
    \/ \E h \in HoldIds : ClaimSeats(c, h)
    \/ ClaimRejected(c)
    \/ ClaimFails(c)

ReapStep(r) ==
    \/ ReapStart(r)
    \/ \E S \in SUBSET Tickets : ReapBatch(r, S)
    \/ ReapHolds(r)
    \/ ReapFails(r)

HoldsNext ==
    \/ \E c \in Claimers : ClaimStep(c)
    \/ \E u \in Users, h \in HoldIds : ReleaseHold(u, h)
    \/ \E r \in Reapers : ReapStep(r)
    \/ Tick

HoldsSpec == HoldsInit /\ [][HoldsNext]_holdVars
-----------------------------------------------------------------------------
ClaimCalls ==
    [pc    : {"idle", "begin", "claim"},
     user  : Users \cup {Null},
     event : Events \cup {Null},
     seats : SUBSET Tickets,
     key   : HoldKeys \cup {Null},
     now   : Nat]

Sweeps == [pc : {"idle", "batch", "expire"}, now : Nat, i : Nat]

\* Every row is a row of the schema and meets its CHECK constraints, and every
\* timestamp a request or a sweep has captured lies in the past.
HoldTypeOK ==
    /\ tickets \in [Tickets -> TicketColumns]
    /\ \A t \in Tickets : TicketChecks(tickets[t])
    /\ holds \in [HoldIds -> HoldColumns]
    /\ clock \in Nat
    /\ claim \in [Claimers -> ClaimCalls]
    /\ \A c \in Claimers : claim[c].now <= clock
    /\ sweep \in [Reapers -> Sweeps]
    /\ \A r \in Reapers : sweep[r].now <= clock

\* A HELD seat always answers to a hold that was granted that seat, with the same
\* expiry in both tables, and that is ACTIVE, or EXPIRED with the lease lapsed.
\* So a released, converted or missing hold locks no inventory
\* (holds.go:158-165, reaper.go:68-71, purchase.go:229-247).
LeaseAgreement ==
    \A t \in Tickets : tickets[t].status = "HELD" =>
        LET h == tickets[t].hold IN
        /\ t \in holds[h].seats
        /\ holds[h].expires = tickets[t].expires
        /\ \/ holds[h].status = "ACTIVE"
           \/ holds[h].status = "EXPIRED" /\ tickets[t].expires <= clock

\* A hold that is ACTIVE and not lapsed still owns every seat it was granted: no
\* claim, sweep or release of anybody else takes a single seat out of it
\* (holds.go:153-155, "would still read ACTIVE while owning no seats").
LiveHoldIsWhole ==
    \A h \in HoldIds :
        holds[h].status = "ACTIVE" /\ holds[h].expires > clock => HeldBy(h) = holds[h].seats

\* A retried hold request never yields a second hold (holds.go:61-70, 174-179).
OneHoldPerKey ==
    \A g, h \in HoldIds :
        holds[g].key # Null /\ holds[g].key = holds[h].key /\ holds[g].user = holds[h].user
            => g = h

\* While a lease runs, its seats leave it only together with an end of the hold that
\* its owner asked for: a release (or a declined payment), or the sale.
LiveLeaseKept ==
    [][\A t \in Tickets :
          tickets[t].status = "HELD" /\ tickets[t].expires > clock
              /\ tickets'[t].hold # tickets[t].hold
          => holds'[tickets[t].hold].status \in {"RELEASED", "CONVERTED"}]_holdVars

\* "MaxActiveHoldsPerUser is the anti-hoarding quota" (booking.go:39-41):
\* no user has more live holds than that.
QuotaRespected ==
    \A u \in Users : Cardinality(ActiveHolds(u, clock)) <= MaxActiveHoldsPerUser

-----------------------------------------------------------------------------
(***************************************************************************)
(* Fairness: time passes; the cron job starts a sweep every minute and a   *)
(* sweep that is not killed goes on; a transaction locks a row only for    *)
(* its own short duration, so a row that sweep after sweep could take is   *)
(* not skipped for ever.                                                   *)
(***************************************************************************)
ReaperFairness ==
    /\ WF_holdVars(Tick)
    /\ \A r \in Reapers :
           /\ WF_holdVars(ReapStart(r))
           /\ WF_holdVars(\E S \in SUBSET Tickets : ReapBatch(r, S))
           /\ WF_holdVars(ReapHolds(r))
    /\ \A t \in Tickets :
           SF_holdVars(\E r \in Reapers, S \in SUBSET Tickets : t \in S /\ ReapBatch(r, S))

FairHoldsSpec == HoldsSpec /\ ReaperFairness

\* No seat stays locked by an abandoned checkout: whoever holds it, the lease ends
\* and the seat is freed, taken over or sold (reaper.go:29-37).
SeatComesBack ==
    \A t \in Tickets, h \in HoldIds :
        (tickets[t].hold = h) ~> (tickets[t].hold # h)
=============================================================================
