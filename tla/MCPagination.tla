----------------------------- MODULE MCPagination -----------------------------
(* Small instances of Pagination for TLC: the cfg files give the numbers. *)
EXTENDS Pagination
=============================================================================
