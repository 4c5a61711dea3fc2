---------------------------- MODULE MCCredentials ----------------------------
(* Small instances of Credentials for TLC. *)
EXTENDS Credentials, TLC

CONSTANTS p1, r1, r2, siteA, siteB

Procs1 == {p1}
Readers2 == {r1, r2}
Sites2 == {siteA, siteB}

\* Runs and sites are interchangeable; no property singles one out.
Symmetry == Permutations(Reader) \cup Permutations(Site)
=============================================================================
