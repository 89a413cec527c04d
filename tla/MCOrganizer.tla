----------------------------- MODULE MCOrganizer -----------------------------
(* The organizer for TLC: a venue with up to three seats in two sections.      *)
EXTENDS Organizer, TLC

CONSTANTS s1, s2, s3, x1, x2

MCSectionOf == [s \in Seats |-> IF s = s3 THEN x2 ELSE x1]

Symmetry ==
    Permutations(Adders) \cup Permutations(Publishers) \cup Permutations(Seats \ {s3})
        \cup Permutations(Events)
=============================================================================
