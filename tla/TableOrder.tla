------------------------------ MODULE TableOrder ------------------------------
(***************************************************************************)
(* TruncateAll (store/store.go): the tables are emptied in an order that   *)
(* deletionOrder computes from the foreign keys it finds in the database,  *)
(* whatever the migrations have made of them.                              *)
(*                                                                         *)
(* The computation has one step per table a pass visits; the deletions run *)
(* in one transaction that nothing else writes into.                       *)
(***************************************************************************)
EXTENDS Naturals, Sequences, SequencesExt

CONSTANT TableNames     \* tableNames(): the application's tables, sorted by name

ASSUME TableAssumption ==
    TableNames \in Seq(STRING) /\ Len(TableNames) > 0 /\ IsInjective(TableNames)

AppTables == Range(TableNames)

VARIABLES
    references,     \* foreign keys: pairs <<child, parent>>
    filled,         \* the tables that have rows
    order,          \* the deletion order so far
    visit           \* the loops: phase, position in the pass, progressed

tableVars == <<references, filled, order, visit>>

\* Mutation: the table waits for the tables it references.
ParentsOf(n) == {p \in AppTables : <<n, p>> \in references /\ p # n}

\* Self-references impose no order.
childrenOf(n) == {c \in AppTables : <<c, n>> \in references /\ c # n}

OrderDone == Range(order)

Blocked(n) == childrenOf(n) \ OrderDone # {}

StartPass == [phase |-> "order", at |-> 1, progressed |-> FALSE]

\* One table of a pass of Kahn's algorithm.
VisitTable ==
    LET n == TableNames[visit.at] IN
    /\ visit.phase = "order"
    /\ visit.at <= Len(TableNames)
    /\ IF n \in OrderDone \/ Blocked(n)
       THEN /\ visit' = [visit EXCEPT !.at = @ + 1]
            /\ UNCHANGED order
       ELSE /\ visit' = [visit EXCEPT !.at = @ + 1, !.progressed = TRUE]
            /\ order' = Append(order, n)
    /\ UNCHANGED <<references, filled>>

\* The outer loop's test.
NextPass ==
    IF Len(order) = Len(TableNames) THEN [phase |-> "delete", at |-> 1, progressed |-> FALSE]
                                    ELSE StartPass

\* A pass without progress is a cycle: the rest follows in the order of the names.
EndPass ==
    /\ visit.phase \in {"order", "rest"}
    /\ visit.at > Len(TableNames)
    /\ visit' = IF visit.phase = "order" /\ ~visit.progressed
                THEN [phase |-> "rest", at |-> 1, progressed |-> FALSE] ELSE NextPass
    /\ UNCHANGED <<references, filled, order>>

AppendRest ==
    LET n == TableNames[visit.at] IN
    /\ visit.phase = "rest"
    /\ visit.at <= Len(TableNames)
    /\ order' = IF n \in OrderDone THEN order ELSE Append(order, n)
    /\ visit' = [visit EXCEPT !.at = @ + 1]
    /\ UNCHANGED <<references, filled>>

\* DELETE FROM the next table: refused while a row of another table references it.
\* A reference within the table does not count, for the statement empties it whole;
\* ON DELETE CASCADE, which some of the constraints have, is not relied on.
DeleteRows ==
    LET n == order[visit.at] IN
    /\ visit.phase = "delete"
    /\ visit.at <= Len(order)
    /\ IF \E c \in filled : c # n /\ <<c, n>> \in references
       THEN /\ visit' = [visit EXCEPT !.phase = "failed"]
            /\ UNCHANGED filled
       ELSE /\ visit' = [visit EXCEPT !.at = @ + 1]
            /\ filled' = filled \ {n}
    /\ UNCHANGED <<references, order>>

\* The transaction commits, or has been rolled back; by the next call the tables
\* have rows again.
TruncateAgain ==
    /\ \/ visit.phase = "failed"
       \/ visit.phase = "delete" /\ visit.at > Len(order)
    /\ filled' = AppTables
    /\ order' = <<>>
    /\ visit' = StartPass
    /\ UNCHANGED references

TableInit ==
    /\ references \in SUBSET (AppTables \X AppTables)
    /\ filled = AppTables
    /\ order = <<>>
    /\ visit = StartPass

TableNext == VisitTable \/ EndPass \/ AppendRest \/ DeleteRows \/ TruncateAgain

TableSpec == TableInit /\ [][TableNext]_tableVars
-----------------------------------------------------------------------------
\* A set of tables every one of which is referenced by another one of the set.
Cyclic ==
    \E S \in SUBSET AppTables :
        S # {} /\ \A n \in S : \E c \in S : c # n /\ <<c, n>> \in references

\* "Deleting in this order never violates a foreign key" (store.go:140), whatever the
\* constraints and the names: it fails only when the foreign keys form a cycle, every
\* table is in the order once, and what was deleted in the end is everything.
TruncationWhole ==
    /\ visit.phase = "failed" => Cyclic
    /\ visit.phase \in {"delete", "failed"} =>
           Range(order) = AppTables /\ Len(order) = Len(TableNames)
    /\ visit.phase = "delete" /\ visit.at > Len(order) => filled = {}
=============================================================================
