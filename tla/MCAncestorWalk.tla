---------------------------- MODULE MCAncestorWalk ----------------------------
(* Small instances of AncestorWalk for TLC. *)
EXTENDS AncestorWalk

CONSTANTS start, a, b, c, page_, folder

Contents == {start, a, b, c}
Kinds == {page_, folder}
=============================================================================
