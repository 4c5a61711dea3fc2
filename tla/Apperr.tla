------------------------------- MODULE Apperr -------------------------------
(***************************************************************************)
(* The categories a command fails with (internal/apperr) and their exit    *)
(* codes. "error" stands for every category without a code of its own.     *)
(***************************************************************************)
EXTENDS Naturals

Category ==
  {"unauthorized", "forbidden", "not_found_or_not_visible", "rate_limited",
   "invalid_input", "timeout", "error"}

ExitCode(category) ==
  CASE category = "unauthorized" -> 4
    [] category = "forbidden" -> 5
    [] category = "not_found_or_not_visible" -> 6
    [] category = "rate_limited" -> 7
    [] category = "invalid_input" -> 8
    [] category = "timeout" -> 9
    [] OTHER -> 1

=============================================================================
