------------------------------ MODULE AliasInput ------------------------------
(***************************************************************************)
(* What an alias expands to is split before it is stored (in               *)
(* newAliasSetCommand) and again before it is run (in expandAliasArgs).    *)
(* That depends on its text alone: one state of Dispatch stands for all.   *)
(***************************************************************************)
EXTENDS Dispatch, CommandLine

Splitting ==
  pc = "load" /\ typed = <<>> /\ changes = 0 /\ \A n \in AliasName : aliases[n] = Undefined

\* An expansion is split into the words that were quoted (SplitsBack).
SplitsIntoWords == Splitting => SplitsBack
=============================================================================
