----------------------------- MODULE MCAuthStore -----------------------------
(* Small instances of AuthStore for TLC. *)
EXTENDS AuthStore, TLC

CONSTANTS p1, p2, siteA, siteB, aliasX

Procs2 == {p1, p2}
Sites2 == {siteA, siteB}
Aliases == {aliasX}

\* Slots and sites are interchangeable; no property singles one out.
Symmetry == Permutations(Proc) \cup Permutations(Site)
=============================================================================
