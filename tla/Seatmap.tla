------------------------------- MODULE Seatmap -------------------------------
(***************************************************************************)
(* The seat generator (internal/seatmap): rectangular sections are         *)
(* expanded row by row, and rows are labelled A .. Z, AA, AB ...           *)
(*                                                                         *)
(* Two rows of a section with one label would lose seats without an error: *)
(* AddSeats inserts them with ON CONFLICT DO NOTHING.  A label is the      *)
(* sequence of its letters, 0 for A to 25 for Z.                           *)
(***************************************************************************)
EXTENDS Integers, Sequences, SequencesExt, FiniteSetsExt

CONSTANTS
    Specs,              \* the section lists venues are given; totals fit Go's int
    MaxSeatsPerVenue

ASSUME SeatmapAssumption ==
    /\ \A specs \in Specs : specs \in Seq([name : STRING, rows : Int, seats : Int])
    /\ MaxSeatsPerVenue \in Nat

VARIABLES
    sections,   \* the specs being expanded; <<>> between two calls
    row,        \* the row generated last: section, index, label; section 0 for none
    seatCount   \* seats generated so far

seatmapVars == <<sections, row, seatCount>>

\* Mutation: plain base 26 above the last letter.
PlainLeadingIndex(i) == IF i < 26 THEN -1 ELSE i \div 26

\* The index whose label stands before the last letter of row i's, -1 for none.
\* Bijective base 26: the loop goes on with i/26 - 1, so that no letter is a zero.
LeadingIndex(i) == i \div 26 - 1

\* The loop prepends one letter a round and breaks below zero.
RowLabel[i \in Nat] ==
    (IF LeadingIndex(i) < 0 THEN <<>> ELSE RowLabel[LeadingIndex(i)]) \o <<i % 26>>

\* TotalSeats, of the first n sections.
SeatsOf(specs, n) == MapThenSumSet(LAMBDA i : specs[i].rows * specs[i].seats, 1 .. n)

ValidSpecs(specs) ==
    /\ specs # <<>>
    /\ \A i \in DOMAIN specs :
           /\ specs[i].name # ""
           /\ \A j \in 1 .. i - 1 : specs[j].name # specs[i].name
           /\ specs[i].rows > 0 /\ specs[i].seats > 0
           /\ SeatsOf(specs, i) <= MaxSeatsPerVenue

NoSeatRow == [section |-> 0, index |-> 0, label |-> <<>>]

\* A list that is not valid is an error and generates nothing.
Generate(specs) ==
    /\ sections = <<>>
    /\ ValidSpecs(specs)
    /\ sections' = specs
    /\ row' = NoSeatRow
    /\ seatCount' = 0

MakeRow(s, i) ==
    /\ row' = [section |-> s, index |-> i, label |-> RowLabel[i]]
    /\ seatCount' = seatCount + sections[s].seats
    /\ UNCHANGED sections

NextRow ==
    /\ sections # <<>> /\ row.section # 0
    /\ row.index + 1 < sections[row.section].rows
    /\ MakeRow(row.section, row.index + 1)

LastRowMade == row.section # 0 => row.index + 1 = sections[row.section].rows

NextSection ==
    /\ sections # <<>> /\ LastRowMade
    /\ row.section < Len(sections)
    /\ MakeRow(row.section + 1, 0)

GenerateReturns ==
    /\ sections # <<>> /\ LastRowMade
    /\ row.section = Len(sections)
    /\ sections' = <<>>
    /\ UNCHANGED <<row, seatCount>>

SeatmapInit == sections = <<>> /\ row = NoSeatRow /\ seatCount = 0

SeatmapNext ==
    \/ \E specs \in Specs : Generate(specs)
    \/ NextRow
    \/ NextSection
    \/ GenerateReturns

SeatmapSpec == SeatmapInit /\ [][SeatmapNext]_seatmapVars
-----------------------------------------------------------------------------
\* The label after l on a seating plan: the last letter that is not Z goes up by one
\* and those behind it start again at A; after the last label of a length comes the
\* first of the next length.
LabelAfter(l) ==
    LET below == {i \in DOMAIN l : l[i] < 25}
        last == CHOOSE i \in below : \A j \in below : j <= i
    IN  IF below = {} THEN [i \in 1 .. Len(l) + 1 |-> 0]
        ELSE [i \in DOMAIN l |-> IF i < last THEN l[i] ELSE IF i = last THEN l[i] + 1 ELSE 0]

\* "Rows are labelled A, B, ... Z, AA, AB, ..." (seatmap.go:40) and there is no "zero
\* digit" (:86): every section starts at A, every further row has the label after the
\* last one, so that no two coincide, and the seats are as many as TotalSeats says.
LabelsSucceed ==
    [][/\ row'.section # 0 /\ row'.index = 0 => row'.label = <<0>>
       /\ row'.section = row.section /\ row' # row => row'.label = LabelAfter(row.label)
       /\ sections # <<>> /\ sections' = <<>> => seatCount = SeatsOf(sections, Len(sections))
      ]_seatmapVars
=============================================================================
