---------------------------- MODULE RowLocksProofs ----------------------------
(***************************************************************************)
(* The order of the claims' row locks, for any number of tickets, holds    *)
(* and transactions.                                                       *)
(*                                                                         *)
(* A claim comes to its rows from lower to higher ones: every row it has   *)
(* locked lies below the one it waits for.  Along a chain of claims that   *)
(* wait for one another the awaited rows therefore rise, and the claim     *)
(* that waits for the highest row of any set waits for none of the set.    *)
(***************************************************************************)
EXTENDS RowLocks, WellFoundedInduction, TLAPS

Waiting(x) == work[x].at # NoRow

Locked(x, r) == granted[x][r] # "none"

Kinds == {"none", "claim", "owner", "settle", "batch", "expire"}

Works ==
    [kind : Kinds, statement : Statements, left : SUBSET Rows, at : Rows \cup {NoRow},
     seats : SUBSET TicketsTable, hold : HoldsTable \cup {NoRow}]

LockTypeOK ==
    /\ leaseOf \in [TicketsTable -> HoldsTable \cup {NoRow}]
    /\ granted \in [Transactions -> [Rows -> Modes]]
    /\ work \in [Transactions -> Works]

\* The rows a claim has locked, waits for and has left come in this order.
Rising(x) ==
    /\ \A r \in Rows : Locked(x, r) => /\ Waiting(x) => r < work[x].at
                                       /\ \A q \in work[x].left : r < q
    /\ Waiting(x) => \A q \in work[x].left : work[x].at < q

\* Its first statement stays among the tickets.
AmongTickets(x) ==
    /\ work[x].left \subseteq TicketsTable
    /\ Waiting(x) => work[x].at \in TicketsTable
    /\ \A r \in Rows : Locked(x, r) => r \in TicketsTable

ClaimKnows(x) ==
    /\ work[x].statement \in {"claimTickets", "displaceHolds"}
    /\ work[x].statement = "claimTickets" => AmongTickets(x)
    /\ Rising(x)

Own(x) ==
    /\ work[x].kind = "none" => work[x] = NoWork /\ granted[x] = Unlocked
    /\ work[x].kind = "settle" => work[x].hold \in HoldsTable
    /\ work[x].kind = "claim" => ClaimKnows(x)

LockInv ==
    /\ LockTypeOK
    /\ \A x \in Transactions : Own(x)

LEMMA RowsAreNumbers ==
    /\ TicketsTable \subseteq Rows /\ HoldsTable \subseteq Rows /\ Rows \subseteq Nat
    /\ NoRow \notin Rows
    /\ \A r \in Rows : r <= TicketRows + HoldRows
    /\ \A t \in TicketsTable, h \in HoldsTable : t < h
BY LockAssumption DEF Rows, TicketsTable, HoldsTable, NoRow

LEMMA IdleTypes == NoWork \in Works /\ Unlocked \in [Rows -> Modes]
<1>1. NoWork \in Works
  BY DEF NoWork, Works, Statements, Kinds
<1>2. Unlocked \in [Rows -> Modes]
  BY DEF Unlocked, Modes
<1> QED  BY <1>1, <1>2

LEMMA LockInitInv == LockInit => LockInv
<1> SUFFICES ASSUME LockInit PROVE LockInv
  OBVIOUS
<1>1. LockTypeOK
  BY IdleTypes DEF LockInit, LockTypeOK
<1>2. ASSUME NEW x \in Transactions PROVE Own(x)
  BY DEF LockInit, Own, NoWork
<1> QED  BY <1>1, <1>2 DEF LockInv

\* A transaction disturbs nobody's record or locks but its own.
LEMMA OthersKeepTheirs ==
    ASSUME LockInv, NEW x \in Transactions, LockTypeOK', Own(x)',
           \A y \in Transactions \ {x} : work'[y] = work[y] /\ granted'[y] = granted[y]
    PROVE  LockInv'
<1> SUFFICES ASSUME NEW y \in Transactions, y # x PROVE Own(y)'
  BY DEF LockInv
<1>1. Own(y) /\ work'[y] = work[y] /\ granted'[y] = granted[y]
  BY DEF LockInv
<1> QED
  BY <1>1 DEF Own, ClaimKnows, AmongTickets, Rising, Locked, Waiting

\* The end of a transaction, whatever becomes of the leases.
LEMMA EndKeepsInv ==
    ASSUME LockInv, NEW x \in Transactions, EndTransaction(x),
           leaseOf' \in [TicketsTable -> HoldsTable \cup {NoRow}]
    PROVE  LockInv'
<1>1. LockTypeOK'
  BY IdleTypes DEF LockInv, LockTypeOK, EndTransaction
<1>2. Own(x)'
  BY DEF LockInv, LockTypeOK, EndTransaction, NoWork, Own
<1>3. \A y \in Transactions \ {x} : work'[y] = work[y] /\ granted'[y] = granted[y]
  BY DEF LockInv, LockTypeOK, EndTransaction
<1> QED  BY <1>1, <1>2, <1>3, OthersKeepTheirs

\* The beginning of one that has its rows still to lock.
LEMMA BeginKeepsInv ==
    ASSUME LockInv, NEW x \in Transactions, NEW kind \in Kinds, NEW statement \in Statements,
           NEW R \in SUBSET Rows, NEW S \in SUBSET TicketsTable,
           NEW h \in HoldsTable \cup {NoRow},
           Begin(x, kind, statement, R, S, h),
           kind = "claim" => statement = "claimTickets" /\ R \subseteq TicketsTable,
           kind = "settle" => h \in HoldsTable,
           kind # "none"
    PROVE  LockInv'
<1>1. LockTypeOK'
  BY DEF LockInv, LockTypeOK, Begin, Works
<1>2. Own(x)'
  <2> SUFFICES ASSUME kind = "claim" PROVE ClaimKnows(x)'
    BY DEF LockInv, LockTypeOK, Begin, Own
  <2>1. granted'[x] = Unlocked
    BY DEF LockInv, Own, Begin
  <2>2. work'[x].statement = "claimTickets" /\ work'[x].left = R /\ work'[x].at = NoRow
    BY DEF LockInv, LockTypeOK, Begin
  <2> QED
    BY <2>1, <2>2 DEF ClaimKnows, AmongTickets, Rising, Locked, Waiting, Unlocked
<1>3. \A y \in Transactions \ {x} : work'[y] = work[y] /\ granted'[y] = granted[y]
  BY DEF LockInv, LockTypeOK, Begin
<1> QED  BY <1>1, <1>2, <1>3, OthersKeepTheirs

\* A claim reaches the lowest row that is left.
LEMMA ReachKeepsInv ==
    ASSUME LockInv, NEW x \in Transactions, NEW r \in Rows, Reach(x, r)
    PROVE  LockInv'
<1> DEFINE new == [work[x] EXCEPT !.at = r, !.left = @ \ {r}]
<1>0. work[x] \in Works /\ new \in Works /\ work' = [work EXCEPT ![x] = new]
  <2>1. work \in [Transactions -> Works] /\ work[x] \in Works
    BY DEF LockInv, LockTypeOK
  <2>2. work' = [work EXCEPT ![x].at = r, ![x].left = @ \ {r}]
    BY DEF Reach
  <2>3. work[x].left \ {r} \in SUBSET Rows
    BY <2>1 DEF Works
  <2>4. new \in Works
    BY <2>1, <2>3 DEF Works
  <2> QED  BY <2>1, <2>2, <2>4
<1>1. LockTypeOK'
  BY <1>0 DEF LockInv, LockTypeOK, Reach
<1>2. Own(x)'
  <2>1. work[x].kind # "none"
    BY DEF LockInv, Own, Reach, NextRows, NoWork
  <2>2. ASSUME work[x].kind = "claim" PROVE ClaimKnows(x)'
    <3>1. ClaimKnows(x)
      BY <2>2 DEF LockInv, Own
    <3>2. /\ work'[x].at = r /\ work'[x].left = work[x].left \ {r} /\ granted' = granted
          /\ work'[x].statement = work[x].statement /\ r \in work[x].left
      BY DEF LockInv, LockTypeOK, Reach, Works, NextRows
    <3>3. \A q \in work[x].left : r <= q
      BY <2>2 DEF Reach, NextRows, Ordered
    <3>4. \A q \in work[x].left \ {r} : r < q
      BY <3>3, RowsAreNumbers DEF LockInv, LockTypeOK, Works
    <3> QED
      BY <3>1, <3>2, <3>4 DEF ClaimKnows, AmongTickets, Rising, Locked, Waiting
  <2>3. work'[x].kind = work[x].kind /\ work'[x].hold = work[x].hold
    BY DEF LockInv, LockTypeOK, Reach, Works
  <2> QED  BY <2>1, <2>2, <2>3 DEF LockInv, Own
<1>3. \A y \in Transactions \ {x} : work'[y] = work[y] /\ granted'[y] = granted[y]
  BY DEF LockInv, LockTypeOK, Reach
<1> QED  BY <1>1, <1>2, <1>3, OthersKeepTheirs

\* The row it locks lies above those it has and below those that are left.
LEMMA LockRowKeepsInv ==
    ASSUME LockInv, NEW x \in Transactions, LockRow(x)
    PROVE  LockInv'
<1> DEFINE r == work[x].at
<1>1. r \in Rows /\ LockMode(x) \in Modes
  <2>1. r \in Rows
    BY DEF LockInv, LockTypeOK, Works, LockRow
  <2>2. LockMode(x) \in {"exclusive", "share", "update"}
    BY Zenon DEF LockMode
  <2> QED  BY <2>1, <2>2 DEF Modes
<1>2. LockTypeOK'
  <2> DEFINE new == [work[x] EXCEPT !.at = NoRow]
  <2>1. /\ leaseOf \in [TicketsTable -> HoldsTable \cup {NoRow}]
        /\ granted \in [Transactions -> [Rows -> Modes]]
        /\ work \in [Transactions -> Works]
    BY DEF LockInv, LockTypeOK
  <2>2. new \in Works
    BY <2>1 DEF Works
  <2>3. work' = [work EXCEPT ![x] = new]
    BY <2>1 DEF LockRow
  <2>4. granted' \in [Transactions -> [Rows -> Modes]]
    <3>1. CASE granted' = [granted EXCEPT ![x][r] = LockMode(x)]
      BY <2>1, <1>1, <3>1
    <3>2. CASE UNCHANGED granted
      BY <2>1, <3>2
    <3> QED  BY <3>1, <3>2 DEF LockRow
  <2> QED  BY <2>1, <2>2, <2>3, <2>4 DEF LockTypeOK, LockRow
<1>3. Own(x)'
  <2>1. /\ work'[x].at = NoRow /\ work'[x].left = work[x].left
        /\ work'[x].statement = work[x].statement /\ work'[x].kind = work[x].kind
        /\ work'[x].hold = work[x].hold
    BY DEF LockInv, LockTypeOK, LockRow, Works
  <2>2. \A q \in Rows : Locked(x, q)' => Locked(x, q) \/ q = r
    BY <1>1 DEF LockInv, LockTypeOK, LockRow, Locked
  <2>3. work[x].kind # "none"
    BY DEF LockInv, Own, LockRow, NoWork
  <2>4. ASSUME work[x].kind = "claim" PROVE ClaimKnows(x)'
    <3>1. ClaimKnows(x) /\ Waiting(x)
      BY <2>4, <1>1, RowsAreNumbers DEF LockInv, Own, Waiting
    <3> QED
      BY <3>1, <2>1, <2>2 DEF ClaimKnows, AmongTickets, Rising, Waiting
  <2> QED  BY <2>1, <2>3, <2>4 DEF LockInv, Own
<1>4. \A y \in Transactions \ {x} : work'[y] = work[y] /\ granted'[y] = granted[y]
  BY DEF LockInv, LockTypeOK, LockRow
<1> QED  BY <1>2, <1>3, <1>4, OthersKeepTheirs

\* A statement of a transaction that is no claim.
LEMMA ExecuteKeepsInv ==
    ASSUME LockInv, NEW x \in Transactions, NEW statement \in Statements, NEW R \in SUBSET Rows,
           Execute(x, statement, R), work[x].kind # "none",
           work[x].kind = "claim" =>
               /\ work[x].statement = "claimTickets" /\ work[x].at = NoRow
               /\ statement = "displaceHolds" /\ R \subseteq HoldsTable
    PROVE  LockInv'
<1> DEFINE new == [work[x] EXCEPT !.statement = statement, !.left = R]
<1>1. work \in [Transactions -> Works] /\ work[x] \in Works
  BY DEF LockInv, LockTypeOK
<1>2. work' = [work EXCEPT ![x] = new] /\ UNCHANGED <<leaseOf, granted>>
  BY <1>1 DEF Execute
<1>3. LockTypeOK'
  <2>1. new \in Works
    BY <1>1 DEF Works
  <2> QED  BY <1>2, <2>1 DEF LockInv, LockTypeOK
<1>4. Own(x)'
  <2>1. /\ work'[x].kind = work[x].kind /\ work'[x].at = work[x].at
        /\ work'[x].statement = statement /\ work'[x].left = R
        /\ work'[x].hold = work[x].hold
    BY <1>1, <1>2 DEF Works
  <2>2. ASSUME work[x].kind = "claim" PROVE ClaimKnows(x)'
    <3>1. ClaimKnows(x) /\ AmongTickets(x)
      BY <2>2 DEF LockInv, Own, ClaimKnows
    <3>2. \A r \in Rows : Locked(x, r)' => \A q \in R : r < q
      BY <3>1, <2>2, <1>2, RowsAreNumbers DEF AmongTickets, Locked
    <3> QED
      BY <3>1, <3>2, <2>1, <2>2 DEF ClaimKnows, Rising, Waiting
  <2> QED  BY <2>1, <2>2 DEF LockInv, Own
<1>5. \A y \in Transactions \ {x} : work'[y] = work[y] /\ granted'[y] = granted[y]
  BY <1>1, <1>2
<1> QED  BY <1>3, <1>4, <1>5, OthersKeepTheirs

LEMMA BatchKeepsInv ==
    ASSUME LockInv, NEW x \in Transactions, NEW S \in SUBSET TicketsTable, BeginBatch(x, S)
    PROVE  LockInv'
<1> DEFINE new == [NoWork EXCEPT !.kind = "batch", !.statement = "skipLocked", !.seats = S]
           locks == [r \in Rows |-> IF r \in S THEN "exclusive" ELSE "none"]
<1>1. work \in [Transactions -> Works] /\ granted \in [Transactions -> [Rows -> Modes]]
  BY DEF LockInv, LockTypeOK
<1>2. /\ work' = [work EXCEPT ![x] = new] /\ granted' = [granted EXCEPT ![x] = locks]
      /\ UNCHANGED leaseOf
  BY DEF BeginBatch
<1>3. new \in Works /\ locks \in [Rows -> Modes] /\ new.kind = "batch"
  <2>1. new \in Works /\ new.kind = "batch"
    BY IdleTypes DEF Works, Kinds, Statements
  <2>2. locks \in [Rows -> Modes]
    BY DEF Modes
  <2> QED  BY <2>1, <2>2
<1>4. LockTypeOK'
  BY <1>1, <1>2, <1>3 DEF LockInv, LockTypeOK
<1>5. Own(x)'
  BY <1>1, <1>2, <1>3 DEF Own
<1>6. \A y \in Transactions \ {x} : work'[y] = work[y] /\ granted'[y] = granted[y]
  BY <1>1, <1>2
<1> QED  BY <1>4, <1>5, <1>6, OthersKeepTheirs

LEMMA LockStepInv == LockInv /\ [LockNext]_lockVars => LockInv'
<1> SUFFICES ASSUME LockInv, [LockNext]_lockVars PROVE LockInv'
  OBVIOUS
<1>1. CASE UNCHANGED lockVars
  BY <1>1
  DEF lockVars, LockInv, LockTypeOK, Own, ClaimKnows, AmongTickets, Rising, Locked, Waiting
<1>2. ASSUME NEW x \in Transactions, LockStep(x) PROVE LockInv'
  <2> USE RowsAreNumbers
  <2>0. /\ leaseOf \in [TicketsTable -> HoldsTable \cup {NoRow}]
        /\ work[x] \in Works /\ Own(x)
        /\ work[x].hold \in HoldsTable \cup {NoRow}
        /\ \A S : Release(S) => leaseOf' \in [TicketsTable -> HoldsTable \cup {NoRow}]
    BY DEF LockInv, LockTypeOK, Works, Release
  <2>1. ASSUME NEW S \in SUBSET TicketsTable, BeginClaim(x, S) PROVE LockInv'
    <3>1. S \in SUBSET Rows /\ "claim" \in Kinds /\ "claimTickets" \in Statements
      BY DEF Kinds, Statements
    <3> QED  BY <2>1, <3>1, BeginKeepsInv DEF BeginClaim
  <2>2. ASSUME NEW S \in SUBSET TicketsTable, BeginBatch(x, S) PROVE LockInv'
    BY <2>2, BatchKeepsInv
  <2>3. ASSUME NEW h \in HoldsTable, BeginOwner(x, h) PROVE LockInv'
    <3>1. {h} \in SUBSET Rows /\ "owner" \in Kinds /\ "lockHold" \in Statements
      BY DEF Kinds, Statements
    <3> QED  BY <2>3, <3>1, BeginKeepsInv DEF BeginOwner
  <2>4. ASSUME NEW h \in HoldsTable, BeginSettle(x, h) PROVE LockInv'
    <3>1. {h} \in SUBSET Rows /\ "settle" \in Kinds /\ "insertBooking" \in Statements
      BY DEF Kinds, Statements
    <3>2. LeasedBy(h) \in SUBSET TicketsTable
      BY DEF LeasedBy
    <3> QED  BY <2>4, <3>1, <3>2, BeginKeepsInv DEF BeginSettle
  <2>5. ASSUME NEW H \in SUBSET HoldsTable, BeginExpire(x, H) PROVE LockInv'
    <3>1. H \in SUBSET Rows /\ "expire" \in Kinds /\ "expireHolds" \in Statements
      BY DEF Kinds, Statements
    <3> QED  BY <2>5, <3>1, BeginKeepsInv DEF BeginExpire
  <2>6. ASSUME NEW r \in Rows, Reach(x, r) PROVE LockInv'
    BY <2>6, ReachKeepsInv
  <2>7. CASE LockRow(x)
    BY <2>7, LockRowKeepsInv
  <2>8. CASE DisplaceHolds(x)
    <3>1. {leaseOf[t] : t \in work[x].seats} \ {NoRow} \subseteq HoldsTable
      BY <2>0 DEF Works
    <3>2. "displaceHolds" \in Statements
      BY DEF Statements
    <3>3. /\ work[x].kind # "none" /\ work[x].statement = "claimTickets"
          /\ work[x].at = NoRow
      BY <2>8, <2>0 DEF DisplaceHolds, Finished, Own, NoWork
    <3> QED  BY <2>8, <3>1, <3>2, <3>3, ExecuteKeepsInv DEF DisplaceHolds
  <2>9. CASE LeaseTickets(x)
    <3>1. LeasedBy(work[x].hold) \in SUBSET Rows /\ "leaseTickets" \in Statements
      BY DEF LeasedBy, Statements
    <3>2. work[x].kind # "none" /\ work[x].kind # "claim"
      BY <2>9, <2>0 DEF LeaseTickets, Finished, Own, NoWork, ClaimKnows
    <3> QED  BY <2>9, <3>1, <3>2, ExecuteKeepsInv DEF LeaseTickets
  <2>10. CASE SettleHold(x)
    <3>1. work[x].kind = "settle" /\ {work[x].hold} \in SUBSET Rows
      BY <2>10, <2>0 DEF SettleHold, Own
    <3>2. "settleHold" \in Statements
      BY DEF Statements
    <3> QED  BY <2>10, <3>1, <3>2, ExecuteKeepsInv DEF SettleHold
  <2>11. ASSUME NEW h \in HoldsTable, CommitClaim(x, h) PROVE LockInv'
    <3>1. leaseOf' \in [TicketsTable -> HoldsTable \cup {NoRow}]
      BY <2>11, <2>0 DEF CommitClaim
    <3> QED  BY <2>11, <3>1, EndKeepsInv DEF CommitClaim
  <2>12. CASE CommitOwner(x)
    <3>1. leaseOf' \in [TicketsTable -> HoldsTable \cup {NoRow}]
      BY <2>12, <2>0 DEF CommitOwner
    <3> QED  BY <2>12, <3>1, EndKeepsInv DEF CommitOwner
  <2>13. CASE CommitSettle(x) \/ CommitBatch(x)
    <3>1. leaseOf' \in [TicketsTable -> HoldsTable \cup {NoRow}]
      BY <2>13, <2>0 DEF CommitSettle, CommitBatch
    <3> QED  BY <2>13, <3>1, EndKeepsInv DEF CommitSettle, CommitBatch
  <2>14. CASE CommitExpire(x) \/ RollBack(x)
    <3>1. leaseOf' \in [TicketsTable -> HoldsTable \cup {NoRow}]
      BY <2>14, <2>0 DEF CommitExpire, RollBack
    <3> QED  BY <2>14, <3>1, EndKeepsInv DEF CommitExpire, RollBack
  <2> QED
    BY <1>2, <2>1, <2>2, <2>3, <2>4, <2>5, <2>6, <2>7, <2>8, <2>9, <2>10, <2>11, <2>12, <2>13, <2>14
    DEF LockStep
<1> QED  BY <1>1, <1>2 DEF LockNext

-----------------------------------------------------------------------------
\* The claim that waits for the highest row of a set waits for none of the set.
LEMMA HighestWaitsForNone == LockInv => ClaimsNeverDeadlock
<1> SUFFICES ASSUME LockInv, NEW S \in SUBSET Claims, S # {},
                    \A x \in S : \E y \in S : WaitsFor(x, y)
             PROVE  FALSE
  BY DEF ClaimsNeverDeadlock
<1> DEFINE N == TicketRows + HoldRows
           R == OpToRel(<, Nat)
           T == {N - work[x].at : x \in S}
<1>1. \A x \in S : x \in Transactions /\ ClaimKnows(x) /\ work[x].at \in Rows
  BY DEF Claims, LockInv, LockTypeOK, Works, Own, WaitsFor
<1>2. N \in Nat /\ \A x \in S : work[x].at \in Nat /\ work[x].at <= N
  <2>1. N \in Nat
    BY LockAssumption
  <2> QED  BY <2>1, <1>1, RowsAreNumbers
<1>3. T \subseteq Nat /\ T # {}
  BY <1>2
<1>4. PICK n \in T : \A m \in T : <<m, n>> \notin R
  <2> HIDE DEF T, R
  <2>1. IsWellFoundedOn(R, Nat)
    BY NatLessThanWellFounded DEF R
  <2> QED  BY <2>1, <1>3, WFMin
<1>5. PICK x \in S : n = N - work[x].at
  BY <1>4
<1>6. PICK y \in S : WaitsFor(x, y)
  OBVIOUS
<1>7. work[x].at < work[y].at
  <2>1. Locked(y, work[x].at)
    BY <1>6 DEF WaitsFor, Blocks, Conflicts, Locked
  <2> QED  BY <2>1, <1>1, RowsAreNumbers DEF ClaimKnows, Rising, Waiting
<1>8. N - work[y].at \in T /\ <<N - work[y].at, n>> \in R
  BY <1>2, <1>3, <1>5, <1>7 DEF OpToRel
<1> QED  BY <1>4, <1>8

\* No set of claims, of however many seats each and over whatever lapsed leases, waits
\* for one another: the promise of the sorted ticket ids (holds.go:93).
THEOREM ClaimsDoNotDeadlock == LockSpec => []ClaimsNeverDeadlock
<1> QED
  BY LockInitInv, LockStepInv, HighestWaitsForNone, PTL DEF LockSpec
=============================================================================
