----------------------------- MODULE MCDispatch -----------------------------
(* Small instances of AliasInput, and with it of Dispatch and CommandLine, for TLC. *)
EXTENDS AliasInput

CONSTANTS a, b, c, issue, version, helper

Words == {a, b, c, issue, version, helper, Exec, Flag, Blank}
Builtins == {issue, version, Exec}
Leaves == {version}
AliasNames == {a, b, c}

\* One that is also a command, one that may also be an alias.
Names == {helper, version, c}
Statuses == {1, 6}

\* Chains, cycles, a chain longer than MaxDepth, flags in front, a nested exec.
Expansions == {<<b>>, <<c, a>>, <<Flag, issue>>, <<Exec>>}

CommandLines ==
  {<<>>, <<a>>, <<b, helper>>, <<c, version>>, <<Flag, a>>, <<issue, c>>,
   <<version, version>>, <<version, Flag>>, <<helper, Flag, a>>, <<Flag, helper>>,
   <<Exec>>, <<Exec, helper, Flag>>, <<Flag, Exec, helper>>, <<a, Exec, helper>>,
   <<Exec, Blank>>}
=============================================================================
