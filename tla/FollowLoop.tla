------------------------------ MODULE FollowLoop ------------------------------
(***************************************************************************)
(* What the loops behind --all have in common: a request under way or      *)
(* answered, the count of the pages that were followed, and its cap        *)
(* (internal/restutil/restutil.go).                                        *)
(***************************************************************************)
EXTENDS Integers

CONSTANT MaxFollowPages  \* restutil.MaxFollowPages (100 in the code)

ASSUME CapAssumption == MaxFollowPages \in Nat \ {0}

VARIABLES
  pc,       \* the request is under way, or answered; or the loop is done
  page,     \* the pages that were followed
  outcome   \* what the loop returned

Return(o) == pc' = "done" /\ outcome' = o
=============================================================================
