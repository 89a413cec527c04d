------------------------------- MODULE RowLocks -------------------------------
(***************************************************************************)
(* The row locks that the booking service's transactions wait for: which   *)
(* rows a statement locks, in which mode, in which order.                  *)
(*                                                                         *)
(*   claim    createHold: the tickets FOR UPDATE ORDER BY ticket_id, then  *)
(*            the ACTIVE holds they lapsed under                           *)
(*   owner    releaseHold, prepareLease: the hold FOR UPDATE, then its     *)
(*            tickets                                                      *)
(*   settle   convertToSold, recordDeclined: a bookings row, whose foreign *)
(*            key share-locks the hold, then the tickets, then the hold    *)
(*   batch    reapBatch: tickets nobody has locked (SKIP LOCKED)           *)
(*   expire   reap: the lapsed holds                                       *)
(*                                                                         *)
(* Statuses and times are left out: a lease may lapse at any moment, a     *)
(* claim may find a seat taken, and a seat without a lease may be free or  *)
(* sold.  An UPDATE without an ORDER BY takes its rows in any order, with  *)
(* one exception, which is an assumption on the database: the claim's      *)
(* UPDATE of the holds it displaces looks its ids up in the primary key,   *)
(* and takes them in the order of the ids.                                 *)
(*                                                                         *)
(* An INSERT that waits for another one with its idempotency key is left   *)
(* out.  It closes no cycle: a claim that has inserted its hold has all    *)
(* the row locks it needs, and a purchase inserts its booking before it    *)
(* has any.                                                                *)
(***************************************************************************)
EXTENDS Naturals

CONSTANTS
    TicketRows,     \* number of tickets; ticket t is row t
    HoldRows,       \* number of holds; hold h is row TicketRows + h
    Transactions

ASSUME LockAssumption == TicketRows \in Nat /\ HoldRows \in Nat

VARIABLES
    leaseOf,    \* tickets.hold_id, as a row; NoRow if none
    granted,    \* granted[x][r]: the mode in which x has locked row r
    work        \* work[x]: transaction x, between two locks

lockVars == <<leaseOf, granted, work>>

NoRow == 0
TicketsTable == 1 .. TicketRows
HoldsTable == TicketRows + 1 .. TicketRows + HoldRows
Rows == TicketsTable \cup HoldsTable

\* FOR KEY SHARE, UPDATE of other columns than a key, FOR UPDATE.
Modes == {"none", "share", "update", "exclusive"}

Conflicts(m, n) ==
    /\ m # "none" /\ n # "none"
    /\ m = "share" => n = "exclusive"
    /\ n = "share" => m = "exclusive"

Unlocked == [r \in Rows |-> "none"]

\* statement: what is being executed; left: the rows it has still to lock; at: the
\* row it waits for; seats, hold: the request.
NoWork ==
    [kind |-> "none", statement |-> "none", left |-> {}, at |-> NoRow, seats |-> {}, hold |-> NoRow]

Statements ==
    {"none", "claimTickets", "displaceHolds", "lockHold", "leaseTickets", "insertBooking",
     "settleHold", "skipLocked", "expireHolds"}

LockMode(x) ==
    CASE work[x].statement \in {"claimTickets", "lockHold", "skipLocked"} -> "exclusive"
      [] work[x].statement = "insertBooking" -> "share"
      [] OTHER -> "update"

Ordered(x) == work[x].kind = "claim"

\* Mutation: the ORDER BY is gone.
AnyRow(x) == work[x].left

\* The rows the statement may come to next.
NextRows(x) ==
    IF Ordered(x) THEN {r \in work[x].left : \A q \in work[x].left : r <= q} ELSE work[x].left

Blocks(y, x, r) == y # x /\ Conflicts(granted[y][r], LockMode(x))

LeasedBy(h) == {t \in TicketsTable : leaseOf[t] = h}

-----------------------------------------------------------------------------
Begin(x, kind, statement, rows, seats, hold) ==
    /\ work[x].kind = "none"
    /\ work' = [work EXCEPT ![x] =
           [kind |-> kind, statement |-> statement, left |-> rows, at |-> NoRow,
            seats |-> seats, hold |-> hold]]
    /\ UNCHANGED <<leaseOf, granted>>

BeginClaim(x, S) == Begin(x, "claim", "claimTickets", S, S, NoRow)

BeginOwner(x, h) == Begin(x, "owner", "lockHold", {h}, {}, h)

BeginSettle(x, h) == Begin(x, "settle", "insertBooking", {h}, LeasedBy(h), h)

BeginExpire(x, H) == Begin(x, "expire", "expireHolds", H, {}, NoRow)

\* SKIP LOCKED: all the rows at once, and none that another transaction has locked.
BeginBatch(x, S) ==
    /\ work[x].kind = "none"
    /\ \A t \in S : leaseOf[t] # NoRow /\ \A y \in Transactions : granted[y][t] = "none"
    /\ granted' = [granted EXCEPT ![x] =
           [r \in Rows |-> IF r \in S THEN "exclusive" ELSE "none"]]
    /\ work' = [work EXCEPT ![x] =
           [NoWork EXCEPT !.kind = "batch", !.statement = "skipLocked", !.seats = S]]
    /\ UNCHANGED leaseOf

\* The statement comes to row r, and waits if another transaction has locked it.
Reach(x, r) ==
    /\ work[x].at = NoRow
    /\ r \in NextRows(x)
    /\ work' = [work EXCEPT ![x].at = r, ![x].left = @ \ {r}]
    /\ UNCHANGED <<leaseOf, granted>>

\* An UPDATE passes over a row that no longer satisfies its condition: a ticket that
\* has left the lease, a hold that is no longer ACTIVE.
PassedOver(x) ==
    \/ work[x].statement = "leaseTickets" /\ leaseOf[work[x].at] # work[x].hold
    \/ work[x].statement \in {"displaceHolds", "expireHolds"}

LockRow(x) ==
    /\ work[x].at # NoRow
    /\ \A y \in Transactions : ~Blocks(y, x, work[x].at)
    /\ \/ granted' = [granted EXCEPT ![x][work[x].at] = LockMode(x)]
       \/ PassedOver(x) /\ UNCHANGED granted
    /\ work' = [work EXCEPT ![x].at = NoRow]
    /\ UNCHANGED leaseOf

-----------------------------------------------------------------------------
Finished(x, statement) ==
    work[x].statement = statement /\ work[x].left = {} /\ work[x].at = NoRow

Execute(x, statement, rows) ==
    /\ work' = [work EXCEPT ![x].statement = statement, ![x].left = rows]
    /\ UNCHANGED <<leaseOf, granted>>

\* Every seat is claimable: the leases it lapsed under are displaced.
DisplaceHolds(x) ==
    /\ Finished(x, "claimTickets")
    /\ Execute(x, "displaceHolds", {leaseOf[t] : t \in work[x].seats} \ {NoRow})

LeaseTickets(x) ==
    /\ \/ Finished(x, "lockHold")
       \/ Finished(x, "insertBooking")
    /\ Execute(x, "leaseTickets", LeasedBy(work[x].hold))

SettleHold(x) ==
    /\ work[x].kind = "settle"
    /\ Finished(x, "leaseTickets")
    /\ Execute(x, "settleHold", {work[x].hold})

EndTransaction(x) ==
    /\ granted' = [granted EXCEPT ![x] = Unlocked]
    /\ work' = [work EXCEPT ![x] = NoWork]

Release(S) == leaseOf' = [t \in TicketsTable |-> IF t \in S THEN NoRow ELSE leaseOf[t]]

\* h is a hold that is on no ticket: a new one.
CommitClaim(x, h) ==
    /\ Finished(x, "displaceHolds")
    /\ LeasedBy(h) = {}
    /\ \A y \in Transactions : granted[y][h] = "none" /\ work[y].hold # h
    /\ leaseOf' = [t \in TicketsTable |-> IF t \in work[x].seats THEN h ELSE leaseOf[t]]
    /\ EndTransaction(x)

\* The seats are released (releaseHold), or the lease extended (prepareLease).
CommitOwner(x) ==
    /\ work[x].kind = "owner"
    /\ Finished(x, "leaseTickets")
    /\ Release(LeasedBy(work[x].hold)) \/ UNCHANGED leaseOf
    /\ EndTransaction(x)

CommitSettle(x) ==
    /\ Finished(x, "settleHold")
    /\ Release(LeasedBy(work[x].hold))
    /\ EndTransaction(x)

CommitBatch(x) ==
    /\ Finished(x, "skipLocked")
    /\ Release(work[x].seats)
    /\ EndTransaction(x)

CommitExpire(x) ==
    /\ Finished(x, "expireHolds")
    /\ UNCHANGED leaseOf
    /\ EndTransaction(x)

\* Rolled back: a seat is taken, the request is cancelled, the process dies, or the
\* database picks the transaction as the victim of a deadlock.
RollBack(x) ==
    /\ work[x].kind # "none"
    /\ UNCHANGED leaseOf
    /\ EndTransaction(x)

-----------------------------------------------------------------------------
\* Some seats are on hold.
LockInit ==
    /\ leaseOf \in [TicketsTable -> HoldsTable \cup {NoRow}]
    /\ granted = [x \in Transactions |-> Unlocked]
    /\ work = [x \in Transactions |-> NoWork]

LockStep(x) ==
    \/ \E S \in SUBSET TicketsTable \ {{}} : BeginClaim(x, S) \/ BeginBatch(x, S)
    \/ \E h \in HoldsTable : BeginOwner(x, h) \/ BeginSettle(x, h)
    \/ \E H \in SUBSET HoldsTable \ {{}} : BeginExpire(x, H)
    \/ \E r \in Rows : Reach(x, r)
    \/ LockRow(x)
    \/ DisplaceHolds(x)
    \/ LeaseTickets(x)
    \/ SettleHold(x)
    \/ \E h \in HoldsTable : CommitClaim(x, h)
    \/ CommitOwner(x)
    \/ CommitSettle(x)
    \/ CommitBatch(x)
    \/ CommitExpire(x)
    \/ RollBack(x)

LockNext == \E x \in Transactions : LockStep(x)

LockSpec == LockInit /\ [][LockNext]_lockVars
-----------------------------------------------------------------------------
WaitsFor(x, y) == work[x].at # NoRow /\ Blocks(y, x, work[x].at)

Claims == {x \in Transactions : work[x].kind = "claim"}

\* "it prevents deadlock between concurrent overlapping claims" (docs/system-design.md
\* :273, holds.go:93-95): no set of claims waits for one another, whatever seats they
\* ask for, whichever lapsed leases they displace, and whatever other transactions do.
ClaimsNeverDeadlock ==
    \A S \in SUBSET Claims : S # {} => \E x \in S : \A y \in S : ~WaitsFor(x, y)
=============================================================================
