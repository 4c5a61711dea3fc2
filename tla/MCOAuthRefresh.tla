--------------------------- MODULE MCOAuthRefresh ---------------------------
(* Small instances of OAuthRefresh for TLC. *)
EXTENDS OAuthRefresh, TLC

CONSTANTS p1, p2, p3, siteA, siteB

Procs2 == {p1, p2}
Procs3 == {p1, p2, p3}
Sites0 == {}
Sites1 == {siteA}
Sites2 == {siteA, siteB}

\* The runs are interchangeable; no property of an instance singles one out.
ProcSymmetry == Permutations(Proc)
=============================================================================
