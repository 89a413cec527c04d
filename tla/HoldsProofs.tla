----------------------------- MODULE HoldsProofs -----------------------------
(***************************************************************************)
(* Holds, proved for every number of users, tickets, holds, goroutines and *)
(* sweeps: the schema's constraints, the agreement of the two tables on    *)
(* every lease, and that nobody takes a seat out of a lease that runs.     *)
(*                                                                         *)
(* LeaseAgreement is what makes the rest inductive: it ties the expiry     *)
(* that claims and sweeps test, on the ticket, to the one the hold shows.  *)
(***************************************************************************)
EXTENDS Holds, TLAPS

LEMMA FreeTicketsType ==
    ASSUME tickets \in [Tickets -> TicketColumns],
           \A t \in Tickets : TicketChecks(tickets[t]),
           NEW S
    PROVE  /\ FreeTickets(S) \in [Tickets -> TicketColumns]
           /\ \A t \in Tickets : TicketChecks(FreeTickets(S)[t])
<1>1. AvailableTicket \in TicketColumns /\ TicketChecks(AvailableTicket)
  BY DEF AvailableTicket, TicketColumns, TicketChecks
<1> QED  BY <1>1 DEF FreeTickets

-----------------------------------------------------------------------------
\* The initial tables are rows of the schema.
LEMMA HoldsInitType == HoldsInit => HoldTypeOK
<1> SUFFICES ASSUME HoldsInit PROVE HoldTypeOK
  OBVIOUS
<1>1. AvailableTicket \in TicketColumns /\ TicketChecks(AvailableTicket)
  BY DEF AvailableTicket, TicketColumns, TicketChecks
<1>2. NoHold \in HoldColumns
  BY DEF NoHold, HoldColumns
<1>3. IdleClaim \in ClaimCalls /\ IdleClaim.now = 0
  BY DEF IdleClaim, ClaimCalls
<1>4. IdleSweep \in Sweeps /\ IdleSweep.now = 0
  BY DEF IdleSweep, Sweeps
<1> QED  BY <1>1, <1>2, <1>3, <1>4 DEF HoldsInit, HoldTypeOK

\* Every step of the lease half writes rows of the schema.
LEMMA HoldsStepType == HoldTypeOK /\ [HoldsNext]_holdVars => HoldTypeOK'
<1> SUFFICES ASSUME HoldTypeOK, [HoldsNext]_holdVars PROVE HoldTypeOK'
  OBVIOUS
<1> USE DEF HoldTypeOK
<1>1. IdleClaim \in ClaimCalls /\ IdleClaim.now \in Nat /\ IdleClaim.now <= clock
  BY DEF IdleClaim, ClaimCalls
<1>2. IdleSweep \in Sweeps /\ IdleSweep.now \in Nat /\ IdleSweep.now <= clock
  BY DEF IdleSweep, Sweeps
<1>3. ASSUME NEW c \in Claimers, ClaimStep(c) PROVE HoldTypeOK'
  <2>1. ASSUME NEW u \in Users, NEW e \in Events, NEW S \in SUBSET Tickets,
               NEW k \in HoldKeys \cup {Null}, CreateHold(c, u, e, S, k)
        PROVE  HoldTypeOK'
    BY <2>1 DEF CreateHold, ClaimCalls
  <2>2. CASE AssertQuota(c)
    BY <2>2 DEF AssertQuota, ClaimCalls
  <2>3. CASE QuotaRejected(c)
    BY <2>3, <1>1 DEF QuotaRejected
  <2>4. ASSUME NEW h \in HoldIds, ClaimSeats(c, h) PROVE HoldTypeOK'
    <3> DEFINE q == claim[c]
               row == [status |-> "HELD", hold |-> h, expires |-> q.now + HoldTTL,
                       booking |-> Null]
               new == [status |-> "ACTIVE", user |-> q.user, expires |-> q.now + HoldTTL,
                       key |-> q.key, seats |-> q.seats]
    <3>1. q \in ClaimCalls /\ q.now + HoldTTL \in Nat
      BY HoldsAssumption DEF ClaimCalls
    <3>2. row \in TicketColumns /\ TicketChecks(row)
      BY <3>1, SchemaAssumption DEF TicketColumns, TicketChecks
    <3>3. new \in HoldColumns
      BY <3>1 DEF HoldColumns, ClaimCalls
    <3>4. \A g \in HoldIds : [holds[g] EXCEPT !.status = "EXPIRED"] \in HoldColumns
      BY DEF HoldColumns
    <3>5. tickets' \in [Tickets -> TicketColumns] /\ \A t \in Tickets : TicketChecks(tickets'[t])
      BY <2>4, <3>2 DEF ClaimSeats
    <3>6. holds' \in [HoldIds -> HoldColumns]
      BY <2>4, <3>3, <3>4 DEF ClaimSeats
    <3> QED  BY <2>4, <3>5, <3>6, <1>1 DEF ClaimSeats
  <2>5. CASE ClaimRejected(c)
    BY <2>5, <1>1 DEF ClaimRejected
  <2>6. CASE ClaimFails(c)
    BY <2>6, <1>1 DEF ClaimFails
  <2> QED  BY <1>3, <2>1, <2>2, <2>3, <2>4, <2>5, <2>6 DEF ClaimStep
<1>4. ASSUME NEW u \in Users, NEW h \in HoldIds, ReleaseHold(u, h) PROVE HoldTypeOK'
  <2>1. [holds[h] EXCEPT !.status = "RELEASED"] \in HoldColumns
    BY DEF HoldColumns
  <2> QED  BY <1>4, <2>1, FreeTicketsType DEF ReleaseHold
<1>5. ASSUME NEW r \in Reapers, ReapStep(r) PROVE HoldTypeOK'
  <2>1. CASE ReapStart(r)
    BY <2>1 DEF ReapStart, Sweeps
  <2>2. ASSUME NEW S \in SUBSET Tickets, ReapBatch(r, S) PROVE HoldTypeOK'
    <3>1. sweep' \in [Reapers -> Sweeps]
      <4>1. CASE LoopEnds(r, S)
        BY <2>2, <4>1 DEF ReapBatch, Sweeps
      <4>2. CASE ~LoopEnds(r, S)
        BY <2>2, <4>2 DEF ReapBatch, Sweeps
      <4> QED  BY <4>1, <4>2
    <3>2. \A s \in Reapers : sweep'[s].now = sweep[s].now
      BY <2>2 DEF ReapBatch, Sweeps
    <3> QED  BY <2>2, <3>1, <3>2, FreeTicketsType DEF ReapBatch
  <2>3. CASE ReapHolds(r)
    <3>1. \A h \in HoldIds : [holds[h] EXCEPT !.status = "EXPIRED"] \in HoldColumns
      BY DEF HoldColumns
    <3> QED  BY <2>3, <3>1, <1>2 DEF ReapHolds
  <2>4. CASE ReapFails(r)
    BY <2>4, <1>2 DEF ReapFails
  <2> QED  BY <1>5, <2>1, <2>2, <2>3, <2>4 DEF ReapStep
<1>6. CASE Tick
  BY <1>6 DEF Tick, ClaimCalls, Sweeps
<1>7. CASE UNCHANGED holdVars
  BY <1>7 DEF holdVars
<1> QED  BY <1>3, <1>4, <1>5, <1>6, <1>7 DEF HoldsNext

\* Type correctness of the lease half: the CHECK constraints of the schema hold and
\* no captured timestamp is ahead of the clock.
THEOREM HoldsTypeCorrect == HoldsSpec => []HoldTypeOK
<1>1. HoldsInit => HoldTypeOK
  BY HoldsInitType
<1>2. HoldTypeOK /\ [HoldsNext]_holdVars => HoldTypeOK'
  BY HoldsStepType
<1> QED  BY <1>1, <1>2, PTL DEF HoldsSpec

-----------------------------------------------------------------------------
\* Every step keeps the two tables in agreement on every lease.
LEMMA HoldsStepAgreement ==
    HoldTypeOK /\ LeaseAgreement /\ [HoldsNext]_holdVars => LeaseAgreement'
<1> SUFFICES ASSUME HoldTypeOK, LeaseAgreement, [HoldsNext]_holdVars
             PROVE  LeaseAgreement'
  OBVIOUS
<1>0. /\ tickets \in [Tickets -> TicketColumns] /\ holds \in [HoldIds -> HoldColumns]
      /\ clock \in Nat
      /\ \A t \in Tickets : tickets[t].status = "HELD" =>
             tickets[t].hold \in HoldIds /\ tickets[t].expires \in Nat
  BY DEF HoldTypeOK, TicketChecks
<1>1. ASSUME NEW c \in Claimers, ClaimStep(c) PROVE LeaseAgreement'
  <2>1. CASE UNCHANGED <<tickets, holds, clock>>
    BY <2>1 DEF LeaseAgreement
  <2>2. ASSUME NEW h \in HoldIds, ClaimSeats(c, h) PROVE LeaseAgreement'
    <3> SUFFICES ASSUME NEW t \in Tickets, tickets'[t].status = "HELD"
                 PROVE  LET g == tickets'[t].hold IN
                        /\ t \in holds'[g].seats
                        /\ holds'[g].expires = tickets'[t].expires
                        /\ \/ holds'[g].status = "ACTIVE"
                           \/ holds'[g].status = "EXPIRED" /\ tickets'[t].expires <= clock'
      BY DEF LeaseAgreement
    <3>1. claim[c] \in ClaimCalls /\ claim[c].now <= clock /\ claim[c].now \in Nat
      BY DEF HoldTypeOK, ClaimCalls
    <3>2. CASE t \in claim[c].seats
      <4>1. tickets'[t] = [status |-> "HELD", hold |-> h, expires |-> claim[c].now + HoldTTL,
                           booking |-> Null]
        BY <2>2, <3>2 DEF ClaimSeats
      <4>2. holds'[h] = [status |-> "ACTIVE", user |-> claim[c].user,
                         expires |-> claim[c].now + HoldTTL, key |-> claim[c].key,
                         seats |-> claim[c].seats]
        BY <2>2 DEF ClaimSeats
      <4> QED  BY <4>1, <4>2, <3>2
    <3>3. CASE t \notin claim[c].seats
      <4> DEFINE g == tickets[t].hold
      <4>1. tickets'[t] = tickets[t] /\ tickets[t].status = "HELD" /\ g \in HoldIds
        BY <2>2, <3>3, <1>0 DEF ClaimSeats
      <4>2. /\ t \in holds[g].seats
            /\ holds[g].expires = tickets[t].expires
            /\ \/ holds[g].status = "ACTIVE"
               \/ holds[g].status = "EXPIRED" /\ tickets[t].expires <= clock
        BY <4>1 DEF LeaseAgreement
      <4>3. g # h
        BY <2>2, <4>2 DEF ClaimSeats
      <4>4. clock' = clock
        BY <2>2 DEF ClaimSeats
      <4>5. CASE g \notin Displaced(c)
        <5>1. holds'[g] = holds[g]
          BY <2>2, <4>1, <4>3, <4>5 DEF ClaimSeats
        <5> QED  BY <4>1, <4>2, <4>4, <5>1
      <4>6. CASE g \in Displaced(c)
        <5>1. holds'[g] = [holds[g] EXCEPT !.status = "EXPIRED"]
          BY <2>2, <4>1, <4>3, <4>6 DEF ClaimSeats
        <5>2. holds'[g].status = "EXPIRED" /\ holds'[g].seats = holds[g].seats
                 /\ holds'[g].expires = holds[g].expires
          BY <5>1, <1>0, <4>1 DEF HoldColumns
        <5>3. PICK s \in Tickets : /\ tickets[s].status = "HELD" /\ tickets[s].hold = g
                                   /\ s \in claim[c].seats
          BY <4>6, <3>1 DEF Displaced, HeldBy, ClaimCalls
        <5>4. tickets[s].expires <= claim[c].now
          BY <2>2, <5>3 DEF ClaimSeats, SeatsClaimable, Claimable, Lapsed
        <5>5. tickets[s].expires = holds[g].expires /\ tickets[s].expires \in Nat
          BY <5>3, <1>0 DEF LeaseAgreement
        <5>6. tickets[t].expires <= clock
          BY <5>4, <5>5, <4>2, <3>1, <1>0
        <5> QED  BY <4>1, <4>2, <4>4, <5>2, <5>6
      <4> QED  BY <4>5, <4>6
    <3> QED  BY <3>2, <3>3
  <2> QED
    BY <1>1, <2>1, <2>2
    DEF ClaimStep, CreateHold, AssertQuota, QuotaRejected, ClaimRejected, ClaimFails
<1>2. ASSUME NEW u \in Users, NEW h \in HoldIds, ReleaseHold(u, h) PROVE LeaseAgreement'
  <2> SUFFICES ASSUME NEW t \in Tickets, tickets'[t].status = "HELD"
               PROVE  /\ tickets'[t] = tickets[t] /\ clock' = clock
                      /\ holds'[tickets[t].hold] = holds[tickets[t].hold]
    BY <1>0 DEF LeaseAgreement
  <2>1. tickets'[t] = tickets[t] /\ t \notin HeldBy(h)
    BY <1>2 DEF ReleaseHold, FreeTickets, AvailableTicket
  <2>2. tickets[t].hold # h /\ tickets[t].hold \in HoldIds
    BY <2>1, <1>0 DEF HeldBy
  <2> QED  BY <1>2, <2>1, <2>2, <1>0 DEF ReleaseHold
<1>3. ASSUME NEW r \in Reapers, ReapStep(r) PROVE LeaseAgreement'
  <2>1. CASE UNCHANGED <<tickets, holds, clock>>
    BY <2>1 DEF LeaseAgreement
  <2>2. ASSUME NEW S \in SUBSET Tickets, ReapBatch(r, S) PROVE LeaseAgreement'
    <3>1. \A t \in Tickets : tickets'[t].status = "HELD" => tickets'[t] = tickets[t]
      BY <2>2 DEF ReapBatch, FreeTickets, AvailableTicket
    <3>2. UNCHANGED <<holds, clock>>
      BY <2>2 DEF ReapBatch
    <3> QED  BY <3>1, <3>2 DEF LeaseAgreement
  <2>3. CASE ReapHolds(r)
    <3> SUFFICES ASSUME NEW t \in Tickets, tickets[t].status = "HELD"
                 PROVE  LET g == tickets[t].hold IN
                        /\ t \in holds'[g].seats
                        /\ holds'[g].expires = tickets[t].expires
                        /\ \/ holds'[g].status = "ACTIVE"
                           \/ holds'[g].status = "EXPIRED" /\ tickets[t].expires <= clock
      BY <2>3 DEF LeaseAgreement, ReapHolds
    <3> DEFINE g == tickets[t].hold
    <3>1. g \in HoldIds /\ tickets[t].expires \in Nat
      BY <1>0
    <3>2. sweep[r].now \in Nat /\ sweep[r].now <= clock
      BY DEF HoldTypeOK, Sweeps
    <3>3. /\ t \in holds[g].seats
          /\ holds[g].expires = tickets[t].expires
          /\ \/ holds[g].status = "ACTIVE"
             \/ holds[g].status = "EXPIRED" /\ tickets[t].expires <= clock
      BY DEF LeaseAgreement
    <3>4. CASE holds[g].status = "ACTIVE" /\ holds[g].expires <= sweep[r].now
      <4>1. holds'[g] = [holds[g] EXCEPT !.status = "EXPIRED"]
        BY <2>3, <3>1, <3>4 DEF ReapHolds
      <4>2. holds'[g].status = "EXPIRED" /\ holds'[g].seats = holds[g].seats
               /\ holds'[g].expires = holds[g].expires
        BY <4>1, <1>0, <3>1 DEF HoldColumns
      <4> QED  BY <4>2, <3>1, <3>2, <3>3, <3>4, <1>0
    <3>5. CASE ~(holds[g].status = "ACTIVE" /\ holds[g].expires <= sweep[r].now)
      <4>1. holds'[g] = holds[g]
        BY <2>3, <3>1, <3>5 DEF ReapHolds
      <4> QED  BY <4>1, <3>3
    <3> QED  BY <3>4, <3>5
  <2> QED  BY <1>3, <2>1, <2>2, <2>3 DEF ReapStep, ReapStart, ReapFails
<1>4. CASE Tick
  BY <1>4, <1>0 DEF Tick, LeaseAgreement
<1>5. CASE UNCHANGED holdVars
  BY <1>5 DEF holdVars, LeaseAgreement
<1> QED  BY <1>1, <1>2, <1>3, <1>4, <1>5 DEF HoldsNext

\* The two tables agree on every lease, whatever the requests and sweeps do.
THEOREM LeasesAgree == HoldsSpec => []LeaseAgreement
<1>1. HoldsInit => LeaseAgreement
  BY DEF HoldsInit, LeaseAgreement, AvailableTicket
<1> QED  BY <1>1, HoldsStepAgreement, HoldsTypeCorrect, PTL DEF HoldsSpec

-----------------------------------------------------------------------------
\* A step of the lease half frees or reassigns a seat of a running lease only by
\* ending its hold as RELEASED.
LEMMA HoldsStepKeepsLeases ==
    ASSUME HoldTypeOK, LeaseAgreement, HoldsNext,
           NEW t \in Tickets, tickets[t].status = "HELD", tickets[t].expires > clock,
           tickets'[t] # tickets[t]
    PROVE  holds'[tickets[t].hold].status = "RELEASED"
<1>0. /\ holds \in [HoldIds -> HoldColumns] /\ clock \in Nat
      /\ tickets[t].hold \in HoldIds /\ tickets[t].expires \in Nat
  BY DEF HoldTypeOK, TicketChecks
<1>1. ASSUME NEW c \in Claimers, ClaimStep(c) PROVE FALSE
  <2>1. PICK h \in HoldIds : ClaimSeats(c, h)
    BY <1>1 DEF ClaimStep, CreateHold, AssertQuota, QuotaRejected, ClaimRejected, ClaimFails
  <2>2. t \in claim[c].seats
    BY <2>1 DEF ClaimSeats
  <2>3. tickets[t].expires <= claim[c].now
    BY <2>1, <2>2 DEF ClaimSeats, SeatsClaimable, Claimable, Lapsed
  <2>4. claim[c].now <= clock /\ claim[c].now \in Nat
    BY DEF HoldTypeOK, ClaimCalls
  <2> QED  BY <2>3, <2>4, <1>0
<1>2. ASSUME NEW u \in Users, NEW h \in HoldIds, ReleaseHold(u, h)
      PROVE  holds'[tickets[t].hold].status = "RELEASED"
  <2>1. t \in HeldBy(h)
    BY <1>2 DEF ReleaseHold, FreeTickets
  <2> QED  BY <1>2, <2>1, <1>0 DEF ReleaseHold, HeldBy, HoldColumns
<1>3. ASSUME NEW r \in Reapers, ReapStep(r) PROVE FALSE
  <2>1. PICK S \in SUBSET Tickets : ReapBatch(r, S)
    BY <1>3 DEF ReapStep, ReapStart, ReapHolds, ReapFails
  <2>2. t \in S
    BY <2>1 DEF ReapBatch, FreeTickets
  <2>3. tickets[t].expires <= sweep[r].now
    BY <2>1, <2>2 DEF ReapBatch, Reapable
  <2>4. sweep[r].now <= clock /\ sweep[r].now \in Nat
    BY DEF HoldTypeOK, Sweeps
  <2> QED  BY <2>3, <2>4, <1>0
<1>4. ASSUME Tick PROVE FALSE
  BY <1>4 DEF Tick
<1> QED  BY <1>1, <1>2, <1>3, <1>4 DEF HoldsNext

\* Nobody but its owner takes a seat out of a lease that runs.
THEOREM LiveLeasesKept == HoldsSpec => LiveLeaseKept
<1>1. ASSUME HoldTypeOK, LeaseAgreement, HoldsNext
      PROVE  \A t \in Tickets :
                 tickets[t].status = "HELD" /\ tickets[t].expires > clock
                     /\ tickets'[t].hold # tickets[t].hold
                 => holds'[tickets[t].hold].status \in {"RELEASED", "CONVERTED"}
  BY <1>1, HoldsStepKeepsLeases
<1>2. HoldTypeOK /\ LeaseAgreement /\ [HoldsNext]_holdVars
        => [\A t \in Tickets :
               tickets[t].status = "HELD" /\ tickets[t].expires > clock
                   /\ tickets'[t].hold # tickets[t].hold
               => holds'[tickets[t].hold].status \in {"RELEASED", "CONVERTED"}]_holdVars
  BY <1>1
<1> QED  BY <1>2, HoldsTypeCorrect, LeasesAgree, PTL DEF HoldsSpec, LiveLeaseKept

-----------------------------------------------------------------------------
\* A retried request never yields a second hold, in any number of concurrent calls.
THEOREM RetriesShareAHold == HoldsSpec => []OneHoldPerKey
<1>1. HoldsInit => OneHoldPerKey
  BY DEF HoldsInit, OneHoldPerKey, NoHold
<1>2. HoldTypeOK /\ OneHoldPerKey /\ [HoldsNext]_holdVars => OneHoldPerKey'
  <2> SUFFICES ASSUME HoldTypeOK, OneHoldPerKey, [HoldsNext]_holdVars,
                      NEW i \in HoldIds, NEW j \in HoldIds,
                      holds'[i].key # Null, holds'[i].key = holds'[j].key,
                      holds'[i].user = holds'[j].user
               PROVE  i = j
    BY DEF OneHoldPerKey
  <2>0. holds \in [HoldIds -> HoldColumns]
    BY DEF HoldTypeOK
  <2>1. CASE \A g \in HoldIds : holds'[g].key = holds[g].key /\ holds'[g].user = holds[g].user
    BY <2>1 DEF OneHoldPerKey
  <2>2. ASSUME NEW c \in Claimers, NEW h \in HoldIds, ClaimSeats(c, h) PROVE i = j
    <3>1. holds'[h].key = claim[c].key /\ holds'[h].user = claim[c].user
      BY <2>2 DEF ClaimSeats
    <3>2. \A g \in HoldIds \ {h} :
              holds'[g] \in {holds[g], [holds[g] EXCEPT !.status = "EXPIRED"]}
      BY <2>2 DEF ClaimSeats
    <3>3. \A g \in HoldIds \ {h} : holds'[g].key = holds[g].key /\ holds'[g].user = holds[g].user
      BY <3>2, <2>0 DEF HoldColumns
    <3>4. ~HoldKeyTaken(claim[c].user, claim[c].key)
      BY <2>2 DEF ClaimSeats
    <3>5. CASE i = h /\ j # h
      BY <3>1, <3>3, <3>4, <3>5 DEF HoldKeyTaken
    <3>6. CASE i # h /\ j = h
      BY <3>1, <3>3, <3>4, <3>6 DEF HoldKeyTaken
    <3>7. CASE i # h /\ j # h
      BY <3>3, <3>7 DEF OneHoldPerKey
    <3> QED  BY <3>5, <3>6, <3>7
  <2>3. ASSUME NEW u \in Users, NEW h \in HoldIds, ReleaseHold(u, h) PROVE i = j
    <3>1. \A g \in HoldIds : holds'[g].key = holds[g].key /\ holds'[g].user = holds[g].user
      BY <2>3, <2>0 DEF ReleaseHold, HoldColumns
    <3> QED  BY <3>1, <2>1
  <2>4. ASSUME NEW r \in Reapers, ReapHolds(r) PROVE i = j
    <3>1. \A g \in HoldIds :
              holds'[g] \in {holds[g], [holds[g] EXCEPT !.status = "EXPIRED"]}
      BY <2>4 DEF ReapHolds
    <3>2. \A g \in HoldIds : holds'[g].key = holds[g].key /\ holds'[g].user = holds[g].user
      BY <3>1, <2>0 DEF HoldColumns
    <3> QED  BY <3>2, <2>1
  <2>5. CASE UNCHANGED holds
    BY <2>5, <2>1
  <2> QED
    BY <2>2, <2>3, <2>4, <2>5
    DEF HoldsNext, ClaimStep, CreateHold, AssertQuota, QuotaRejected, ClaimRejected, ClaimFails,
        ReapStep, ReapStart, ReapBatch, ReapFails, Tick, holdVars
<1> QED  BY <1>1, <1>2, HoldsTypeCorrect, PTL DEF HoldsSpec

-----------------------------------------------------------------------------
\* A live hold keeps every seat it was granted.
LEMMA HoldsStepWhole ==
    HoldTypeOK /\ LeaseAgreement /\ LiveHoldIsWhole /\ [HoldsNext]_holdVars => LiveHoldIsWhole'
<1> SUFFICES ASSUME HoldTypeOK, LeaseAgreement, LiveHoldIsWhole, [HoldsNext]_holdVars,
                    NEW g \in HoldIds, holds'[g].status = "ACTIVE", holds'[g].expires > clock'
             PROVE  HeldBy(g)' = holds'[g].seats
  BY DEF LiveHoldIsWhole
<1>0. /\ tickets \in [Tickets -> TicketColumns] /\ holds \in [HoldIds -> HoldColumns]
      /\ clock \in Nat
      /\ \A t \in Tickets : tickets[t].status = "HELD" =>
             tickets[t].hold \in HoldIds /\ tickets[t].expires \in Nat
  BY DEF HoldTypeOK, TicketChecks
\* A hold that was already live, kept its row, and lost no running lease.
<1>1. ASSUME holds'[g] = holds[g], clock' >= clock, clock' \in Nat,
             \A t \in Tickets : (tickets[t].status = "HELD" /\ tickets[t].hold = g)
                                <=> (tickets'[t].status = "HELD" /\ tickets'[t].hold = g)
      PROVE  HeldBy(g)' = holds'[g].seats
  <2>1. holds[g].expires \in Nat /\ holds[g].expires > clock
    BY <1>0, <1>1 DEF HoldColumns
  <2>2. HeldBy(g) = holds[g].seats
    BY <1>1, <2>1 DEF LiveHoldIsWhole
  <2>3. HeldBy(g)' = HeldBy(g)
    BY <1>1 DEF HeldBy
  <2> QED  BY <1>1, <2>2, <2>3
<1>2. ASSUME NEW c \in Claimers, NEW h \in HoldIds, ClaimSeats(c, h)
      PROVE  HeldBy(g)' = holds'[g].seats
  <2>1. \A t \in Tickets : tickets[t].status = "HELD" => tickets[t].hold # h
    BY <1>2 DEF ClaimSeats, LeaseAgreement
  <2>2. claim[c].seats \subseteq Tickets
    BY DEF HoldTypeOK, ClaimCalls
  <2>3. CASE g = h
    <3>1. holds'[g].seats = claim[c].seats
      BY <1>2, <2>3 DEF ClaimSeats
    <3>2. \A t \in Tickets :
              (tickets'[t].status = "HELD" /\ tickets'[t].hold = h) <=> t \in claim[c].seats
      BY <1>2, <2>1 DEF ClaimSeats
    <3> QED  BY <2>2, <2>3, <3>1, <3>2 DEF HeldBy
  <2>4. CASE g # h
    <3>1. g \notin Displaced(c)
      <4> SUFFICES ASSUME g \in Displaced(c) PROVE FALSE
        OBVIOUS
      <4>1. holds'[g] = [holds[g] EXCEPT !.status = "EXPIRED"]
        BY <1>2, <2>4 DEF ClaimSeats
      <4> QED  BY <4>1, <1>0 DEF HoldColumns
    <3>2. holds'[g] = holds[g]
      BY <1>2, <2>4, <3>1 DEF ClaimSeats
    <3>3. HeldBy(g) \cap claim[c].seats = {}
      BY <3>1, <3>2 DEF Displaced
    <3>4. \A t \in Tickets : (tickets[t].status = "HELD" /\ tickets[t].hold = g)
                             <=> (tickets'[t].status = "HELD" /\ tickets'[t].hold = g)
      BY <1>2, <2>4, <3>3 DEF ClaimSeats, HeldBy
    <3>5. clock' = clock
      BY <1>2 DEF ClaimSeats
    <3> QED  BY <1>0, <1>1, <3>2, <3>4, <3>5
  <2> QED  BY <2>3, <2>4
<1>3. ASSUME NEW u \in Users, NEW h \in HoldIds, ReleaseHold(u, h)
      PROVE  HeldBy(g)' = holds'[g].seats
  <2>1. g # h
    BY <1>3, <1>0 DEF ReleaseHold, HoldColumns
  <2>2. holds'[g] = holds[g] /\ clock' = clock
    BY <1>3, <2>1 DEF ReleaseHold
  <2>3. \A t \in Tickets : (tickets[t].status = "HELD" /\ tickets[t].hold = g)
                           <=> (tickets'[t].status = "HELD" /\ tickets'[t].hold = g)
    BY <1>3, <2>1 DEF ReleaseHold, FreeTickets, AvailableTicket, HeldBy
  <2> QED  BY <1>0, <1>1, <2>2, <2>3
<1>4. ASSUME NEW r \in Reapers, NEW S \in SUBSET Tickets, ReapBatch(r, S)
      PROVE  HeldBy(g)' = holds'[g].seats
  <2>1. holds'[g] = holds[g] /\ clock' = clock
    BY <1>4 DEF ReapBatch
  <2>2. sweep[r].now \in Nat /\ sweep[r].now <= clock
    BY DEF HoldTypeOK, Sweeps
  <2>3. ASSUME NEW t \in Tickets, tickets[t].status = "HELD", tickets[t].hold = g
        PROVE  t \notin S
    <3>1. tickets[t].expires = holds[g].expires /\ tickets[t].expires \in Nat
      BY <2>3, <1>0 DEF LeaseAgreement
    <3>2. tickets[t].expires > sweep[r].now
      BY <3>1, <2>1, <2>2, <1>0
    <3> QED  BY <1>4, <2>2, <3>1, <3>2 DEF ReapBatch, Reapable
  <2>4. \A t \in Tickets : (tickets[t].status = "HELD" /\ tickets[t].hold = g)
                           <=> (tickets'[t].status = "HELD" /\ tickets'[t].hold = g)
    BY <1>4, <2>3 DEF ReapBatch, FreeTickets, AvailableTicket
  <2> QED  BY <1>0, <1>1, <2>1, <2>4
<1>5. ASSUME NEW r \in Reapers, ReapHolds(r) PROVE HeldBy(g)' = holds'[g].seats
  <2>1. holds'[g] = holds[g]
    BY <1>5, <1>0 DEF ReapHolds, HoldColumns
  <2> QED  BY <1>0, <1>1, <1>5, <2>1 DEF ReapHolds
<1>6. CASE Tick
  BY <1>0, <1>1, <1>6 DEF Tick
<1>7. CASE UNCHANGED <<tickets, holds, clock>>
  BY <1>0, <1>1, <1>7
<1> QED
  BY <1>2, <1>3, <1>4, <1>5, <1>6, <1>7
  DEF HoldsNext, ClaimStep, CreateHold, AssertQuota, QuotaRejected, ClaimRejected, ClaimFails,
      ReapStep, ReapStart, ReapFails, holdVars

\* Without purchases a live hold always owns all the seats it was granted.
THEOREM LiveHoldsAreWhole == HoldsSpec => []LiveHoldIsWhole
<1>1. HoldsInit => LiveHoldIsWhole
  BY DEF HoldsInit, LiveHoldIsWhole, NoHold
<1> QED  BY <1>1, HoldsStepWhole, HoldsTypeCorrect, LeasesAgree, PTL DEF HoldsSpec
-----------------------------------------------------------------------------
\* A hold that was granted keeps its row and its set of seats, and gets no seat back.
LEMMA HoldsLiveOn ==
    ASSUME HoldTypeOK, [HoldsNext]_holdVars,
           NEW h \in HoldIds, holds[h].status # "NONE"
    PROVE  /\ holds'[h].status # "NONE" /\ holds'[h].seats = holds[h].seats
           /\ HeldBy(h)' \subseteq HeldBy(h)
           /\ clock' \in Nat /\ clock <= clock'
<1>0. /\ holds \in [HoldIds -> HoldColumns] /\ clock \in Nat
      /\ tickets \in [Tickets -> TicketColumns]
  BY DEF HoldTypeOK
<1>1. ASSUME NEW c \in Claimers, NEW g \in HoldIds, ClaimSeats(c, g)
      PROVE  /\ holds'[h].status # "NONE" /\ holds'[h].seats = holds[h].seats
             /\ HeldBy(h)' \subseteq HeldBy(h) /\ clock' = clock
  <2>1. h # g
    BY <1>1 DEF ClaimSeats
  <2>2. holds'[h] \in {holds[h], [holds[h] EXCEPT !.status = "EXPIRED"]}
    BY <1>1, <2>1 DEF ClaimSeats
  <2>3. HeldBy(h)' \subseteq HeldBy(h)
    BY <1>1, <2>1 DEF ClaimSeats, HeldBy
  <2> QED  BY <1>0, <1>1, <2>2, <2>3 DEF ClaimSeats, HoldColumns
<1>2. ASSUME NEW u \in Users, NEW g \in HoldIds, ReleaseHold(u, g)
      PROVE  /\ holds'[h].status # "NONE" /\ holds'[h].seats = holds[h].seats
             /\ HeldBy(h)' \subseteq HeldBy(h) /\ clock' = clock
  BY <1>0, <1>2 DEF ReleaseHold, FreeTickets, AvailableTicket, HeldBy, HoldColumns
<1>3. ASSUME NEW r \in Reapers, NEW S \in SUBSET Tickets, ReapBatch(r, S)
      PROVE  UNCHANGED <<holds, clock>> /\ HeldBy(h)' \subseteq HeldBy(h)
  BY <1>3 DEF ReapBatch, FreeTickets, AvailableTicket, HeldBy
<1>4. ASSUME NEW r \in Reapers, ReapHolds(r)
      PROVE  /\ holds'[h].status # "NONE" /\ holds'[h].seats = holds[h].seats
             /\ UNCHANGED <<tickets, clock>>
  BY <1>0, <1>4 DEF ReapHolds, HoldColumns
<1>5. CASE Tick
  BY <1>0, <1>5 DEF Tick, HeldBy
<1>6. CASE UNCHANGED <<tickets, holds, clock>>
  BY <1>0, <1>6 DEF HeldBy
<1> QED
  BY <1>0, <1>1, <1>2, <1>3, <1>4, <1>5, <1>6
  DEF HoldsNext, ClaimStep, CreateHold, AssertQuota, QuotaRejected, ClaimRejected, ClaimFails,
      ReapStep, ReapStart, ReapFails, holdVars, HeldBy

\* The clock never runs back, and stops at its bound.
LEMMA HoldsClock ==
    ASSUME HoldTypeOK, [HoldsNext]_holdVars
    PROVE  /\ clock \in Nat /\ clock' \in Nat /\ clock <= clock'
           /\ clock <= MaxTime => clock' <= MaxTime
<1>1. clock \in Nat /\ MaxTime \in Nat
  BY HoldsAssumption DEF HoldTypeOK
<1>2. CASE clock' = clock
  BY <1>1, <1>2
<1>3. CASE Tick
  BY <1>1, <1>3 DEF Tick
<1> QED
  BY <1>2, <1>3
  DEF HoldsNext, holdVars, ClaimStep, CreateHold, AssertQuota, QuotaRejected, ClaimSeats,
      ClaimRejected, ClaimFails, ReleaseHold, ReapStep, ReapStart, ReapBatch, ReapHolds, ReapFails

\* No claim, release or sweep makes a ticket SOLD.
LEMMA HoldsStepSellsNothing ==
    ASSUME [HoldsNext]_holdVars, NEW t \in Tickets, tickets'[t].status = "SOLD"
    PROVE  tickets[t].status = "SOLD"
<1>1. ASSUME NEW c \in Claimers, NEW h \in HoldIds, ClaimSeats(c, h)
      PROVE  tickets[t].status = "SOLD"
  BY <1>1 DEF ClaimSeats
<1>2. ASSUME NEW S, tickets' = FreeTickets(S)
      PROVE  tickets[t].status = "SOLD"
  BY <1>2 DEF FreeTickets, AvailableTicket
<1> QED
  BY <1>1, <1>2
  DEF HoldsNext, holdVars, ClaimStep, CreateHold, AssertQuota, QuotaRejected, ClaimRejected,
      ClaimFails, ReleaseHold, ReapStep, ReapStart, ReapBatch, ReapHolds, ReapFails, Tick
=============================================================================
