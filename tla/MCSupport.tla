------------------------------ MODULE MCSupport ------------------------------
(* The components around the booking core for TLC.  They share no state, so    *)
(* each behaviour is one of one of them, chosen by `part'; the others stay as  *)
(* they started.                                                               *)
EXTENDS MCBooking, Audit, Catalog, SearchPages, RowLocks, TableOrder, Seatmap

VARIABLE part

supportVars == <<auditVars, catalogVars, searchVars, lockVars, tableVars, seatmapVars>>

Parts == {"catalog", "search", "locks", "tables", "seatmap", "audit"}

\* Two events start in the same second, one of them twice at the same instant.
MCStartsAt == (1 :> <<1, 0>>) @@ (2 :> <<1, 0>>) @@ (3 :> <<1, 5>>) @@ (4 :> <<2, 0>>)

MCRawLimits == {-1, 0, 1, 2, 7}

MCTableNames == <<"a", "b", "c">>

Section(name, rows, seats) == [name |-> name, rows |-> rows, seats |-> seats]

\* One section crosses Z/AA and ZZ/AAA; the rest is refused or small.
MCSpecs ==
    { <<Section("A", 705, 1)>>, <<Section("A", 28, 2), Section("B", 3, 4)>>,
      <<Section("A", 1, 1), Section("A", 1, 1)>>, <<Section("A", 0, 5)>>,
      <<Section("A", 800, 1), Section("B", 1, 1)>>, <<>> }

SupportInit ==
    /\ part \in Parts
    /\ AuditInit /\ CatalogInit /\ SearchInit /\ LockInit /\ TableInit /\ SeatmapInit
    /\ part # "search" => matching = {}
    /\ part # "locks" => leaseOf = [t \in TicketsTable |-> NoRow]
    /\ part # "tables" => references = {}

AuditPart ==
    /\ part = "audit" /\ AuditNext
    /\ UNCHANGED <<catalogVars, searchVars, lockVars, tableVars, seatmapVars>>

CatalogPart ==
    /\ part = "catalog" /\ CatalogNext
    /\ UNCHANGED <<auditVars, searchVars, lockVars, tableVars, seatmapVars>>

SearchPart ==
    /\ part = "search" /\ SearchNext
    /\ UNCHANGED <<auditVars, catalogVars, lockVars, tableVars, seatmapVars>>

LocksPart ==
    /\ part = "locks" /\ LockNext
    /\ UNCHANGED <<auditVars, catalogVars, searchVars, tableVars, seatmapVars>>

TablesPart ==
    /\ part = "tables" /\ TableNext
    /\ UNCHANGED <<auditVars, catalogVars, searchVars, lockVars, seatmapVars>>

SeatmapPart ==
    /\ part = "seatmap" /\ SeatmapNext
    /\ UNCHANGED <<auditVars, catalogVars, searchVars, lockVars, tableVars>>

SupportNext ==
    /\ AuditPart \/ CatalogPart \/ SearchPart \/ LocksPart \/ TablesPart \/ SeatmapPart
    /\ UNCHANGED part

SupportSpec ==
    SupportInit /\ [][SupportNext]_<<supportVars, part>> /\ CatalogFairness
=============================================================================
