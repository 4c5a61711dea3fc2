---------------------------- MODULE MCContentEdit ----------------------------
(* Small instances of ContentEdit for TLC. *)
EXTENDS ContentEdit, TLC

CONSTANTS r1, r2, old, new, text

Runs2 == {r1, r2}
Titles == {old, new}
Texts == {Empty, text}

\* Runs and titles are interchangeable; no property singles one out.
Symmetry == Permutations(Run) \cup Permutations(Title)
=============================================================================
