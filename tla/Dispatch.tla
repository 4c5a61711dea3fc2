------------------------------ MODULE Dispatch ------------------------------
(***************************************************************************)
(* One run of a binary from its arguments to its exit code (cli.Run):      *)
(* aliases are expanded, cobra finds the command, and an unknown command   *)
(* falls back to an extension on PATH. Meanwhile other runs and the user   *)
(* change the aliases and the extensions there are.                        *)
(*                                                                         *)
(* Definitions with a name ending in Bug are wrong variants of the one     *)
(* below them, each with a plausible mistake.                              *)
(***************************************************************************)
EXTENDS Integers, Sequences, Apperr

CONSTANTS
  Word,        \* arguments
  Builtin,     \* the commands of the binary
  Leaf,        \* those of them that take neither arguments nor subcommands
  Exec,        \* extension exec, taken as one word
  Flag,        \* a global flag
  Blank,       \* an argument of white space
  AliasName,   \* names an alias may have
  Name,        \* names an extension may have
  Expansion,   \* alias expansions, split into words
  Typed,       \* command lines the user types
  Undefined,   \* no alias of that name
  Broken,      \* an expansion that does not split; only a hand edit can store one
  Status,      \* exit statuses of a child that fails
  MaxDepth,    \* aliasMaxDepth
  MaxChanges   \* bound: changes of the aliases and of PATH during the run

ASSUME DispatchAssumption ==
  /\ Exec \in Builtin /\ Leaf \subseteq Builtin \ {Exec}
  /\ Builtin \subseteq Word /\ {Flag, Blank} \subseteq Word \ Builtin /\ Flag # Blank
  /\ AliasName \subseteq Word \ {Blank} /\ Name \subseteq Word \ {Flag, Blank}
  /\ Status \subseteq 1..255
  /\ Expansion \subseteq Seq(Word) \ {<<>>} /\ Typed \subseteq Seq(Word)
  /\ Undefined \notin Expansion /\ Broken \notin Expansion \cup {Undefined}
  /\ MaxDepth \in Nat /\ MaxChanges \in Nat

VARIABLES
  aliases,     \* config.json: the expansion of each alias
  path,        \* the extensions on PATH
  hand,        \* history: the aliases that were changed by editing the file
  off,         \* history: what was not on PATH at some time
  changes,
  typed,       \* os.Args
  pc,          \* load, expand, execute, extension, exit
  cfg,         \* the aliases as the run has loaded them
  args,        \* expanded
  seen, depth,
  target,      \* the extension to run, and its arguments
  child,       \* how the extension that ran ended; -1: none did
  code,        \* the exit code
  voices       \* who has reported a failure, in order

disk  == <<aliases, path, hand, off, changes>>
front == <<cfg, args, seen, depth>>
back  == <<target, child, code, voices>>
vars  == <<disk, typed, pc, front, back>>

Alias == Expansion \cup {Undefined, Broken}

\* How a child ends: a status, 256 for a signal, 257 if it cannot be started.
Ending == {0, 256, 257} \cup Status

TypeOK ==
  /\ aliases \in [AliasName -> Alias] /\ cfg \in [AliasName -> Alias]
  /\ hand \subseteq AliasName /\ path \subseteq Name /\ off \subseteq Name
  /\ changes \in 0..MaxChanges /\ typed \in Typed
  /\ pc \in {"load", "expand", "execute", "extension", "exit"}
  /\ args \in Seq(Word) /\ seen \subseteq AliasName /\ depth \in 0..MaxDepth
  /\ target \in Seq(Word) /\ child \in Ending \cup {-1}
  /\ code \in 0..255 /\ voices \in Seq({"cli", "child"})

Init ==
  /\ aliases \in [AliasName -> Expansion \cup {Undefined}] /\ hand = {}
  /\ path \in SUBSET Name /\ off = Name \ path /\ changes = 0
  /\ typed \in Typed
  /\ pc = "load" /\ cfg = [n \in AliasName |-> Undefined]
  /\ args = typed /\ seen = {} /\ depth = 0
  /\ target = <<>> /\ child = -1 /\ code = 0 /\ voices = <<>>

-----------------------------------------------------------------------------
(* Leaving. *)

Exit(n, voice) == pc' = "exit" /\ code' = n /\ voices' = voices \o voice

\* renderError and exitCode
Report(category) == Exit(ExitCode(category), <<"cli">>)

-----------------------------------------------------------------------------
(* Aliases: expandAliases, expandAliasArgs. *)

\* Without a readable config.json there are no aliases.
Load ==
  /\ pc = "load"
  /\ \/ cfg' = aliases
     \/ cfg' = [n \in AliasName |-> Undefined]
  /\ pc' = "expand"
  /\ UNCHANGED <<disk, typed, args, seen, depth, back>>

\* The first argument names an alias that is to be replaced.
Replaceable ==
  /\ depth < MaxDepth /\ args # <<>>
  /\ Head(args) \in AliasName \ seen /\ cfg[Head(args)] # Undefined

\* Mistake: the expansion replaces the whole command line.
ExpandedBug == cfg[Head(args)]

Expanded == cfg[Head(args)] \o Tail(args)

Replace ==
  /\ pc = "expand" /\ Replaceable /\ cfg[Head(args)] # Broken
  /\ args' = Expanded /\ seen' = seen \cup {Head(args)} /\ depth' = depth + 1
  /\ UNCHANGED <<disk, typed, pc, cfg, back>>

\* Run prints what is wrong with the alias and returns 1.
Malformed ==
  /\ pc = "expand" /\ Replaceable /\ cfg[Head(args)] = Broken
  /\ Exit(1, <<"cli">>)
  /\ UNCHANGED <<disk, typed, front, target, child>>

Settle ==
  /\ pc = "expand" /\ ~Replaceable
  /\ pc' = "execute"
  /\ UNCHANGED <<disk, typed, front, back>>

-----------------------------------------------------------------------------
(* The command tree. *)

\* Argument i is the command's name: the first that is no flag.
NameAt(i) == i \in 1..Len(args) /\ args[i] # Flag /\ \A j \in 1..i-1 : args[j] = Flag

\* Argument i is the first of those the command is given.
FirstAt(i) ==
  /\ i \in 1..Len(args) /\ args[i] # Flag
  /\ \E n \in 1..i-1 : NameAt(n) /\ \A j \in n+1..i-1 : args[j] = Flag

\* cobra complains of argument i as an unknown command: it is the name of no command,
\* or is given to a command that takes no arguments (cobra.NoArgs).
UnknownAt(i) ==
  \/ NameAt(i) /\ args[i] \notin Builtin
  \/ FirstAt(i) /\ \E n \in 1..i-1 : NameAt(n) /\ args[n] \in Leaf

Unknown == \E i \in 1..Len(args) : UnknownAt(i)

\* The command c is found.
Runs(c) == ~Unknown /\ \E i \in 1..Len(args) : NameAt(i) /\ args[i] = c

\* No command at all prints the help text.
Help ==
  /\ pc = "execute" /\ \A i \in 1..Len(args) : args[i] = Flag
  /\ Exit(0, <<>>)
  /\ UNCHANGED <<disk, typed, front, target, child>>

\* A built-in command runs.
Command ==
  /\ pc = "execute" /\ \E c \in Builtin \ {Exec} : Runs(c)
  /\ \/ Exit(0, <<>>)
     \/ \E c \in Category : Report(c)
  /\ UNCHANGED <<disk, typed, front, target, child>>

\* extension exec takes all that is left of the command line, flags and all, as its
\* arguments, and needs at least one.
ExecCommand ==
  /\ pc = "execute" /\ Runs(Exec)
  /\ \E i \in 1..Len(args) :
       /\ NameAt(i)
       /\ LET rest == SubSeq(args, 1, i - 1) \o SubSeq(args, i + 1, Len(args))
          IN IF rest # <<>>
             THEN pc' = "extension" /\ target' = rest /\ UNCHANGED <<code, voices>>
             ELSE Report("error") /\ UNCHANGED target
  /\ UNCHANGED <<disk, typed, front, child>>

-----------------------------------------------------------------------------
(* Extensions. *)

\* Mistake: what cobra complains of is looked for in the command line as typed.
FallsBackBug ==
  /\ typed[1] \in path
  /\ \E i \in 1..Len(args) : UnknownAt(i) /\ args[i] = typed[1]

\* extensionTarget, and the first look at PATH.
FallsBack ==
  /\ args[1] \in path
  /\ \E i \in 1..Len(args) : UnknownAt(i) /\ args[i] = args[1]

Fallback ==
  /\ pc = "execute" /\ Unknown
  /\ IF FallsBack
     THEN pc' = "extension" /\ target' = args /\ UNCHANGED <<code, voices>>
     ELSE Report("error") /\ UNCHANGED target
  /\ UNCHANGED <<disk, typed, front, child>>

\* Mistake: the failure of a child is rendered as well.
ChildVoicesBug == <<"child", "cli">>

\* The child has reported its failure itself.
ChildVoices == <<"child">>

\* extensionExitCode counts a signal as 1.
SignalCode == 1

\* runExtension: the second look at PATH, and the child. Its exit status is passed on.
RunExtension ==
  /\ pc = "extension"
  /\ IF target[1] = Blank THEN Report("invalid_input") /\ UNCHANGED child
     ELSE IF target[1] \notin path
     THEN Report("not_found_or_not_visible") /\ UNCHANGED child
     ELSE \E e \in Ending :
            /\ child' = e
            /\ CASE e = 0 -> Exit(0, <<>>)
                 [] e \in Status -> Exit(e, ChildVoices)
                 [] e = 256 -> Exit(SignalCode, ChildVoices)
                 [] OTHER -> Report("error")
  /\ UNCHANGED <<disk, typed, front, target>>

-----------------------------------------------------------------------------
(* What changes meanwhile. *)

Store(n, a) == aliases' = [aliases EXCEPT ![n] = a] /\ UNCHANGED <<path, off>>

\* Mistake: alias set takes any expansion.
AcceptedBug(a) == a # Undefined

\* alias set refuses what does not split.
Accepted(a) == a \in Expansion

AliasSet(n, a) == Accepted(a) /\ Store(n, a) /\ UNCHANGED hand

AliasDelete(n) == aliases[n] # Undefined /\ Store(n, Undefined) /\ UNCHANGED hand

HandEdit(n, a) == Store(n, a) /\ hand' = hand \cup {n}

\* An extension is installed or removed.
PathChange(w) ==
  /\ path' = IF w \in path THEN path \ {w} ELSE path \cup {w}
  /\ off' = off \cup (Name \ path')
  /\ UNCHANGED <<aliases, hand>>

Outside ==
  /\ pc # "exit" /\ changes < MaxChanges /\ changes' = changes + 1
  /\ \/ \E n \in AliasName :
          AliasDelete(n) \/ \E a \in Alias : AliasSet(n, a) \/ HandEdit(n, a)
     \/ \E w \in Name : PathChange(w)
  /\ UNCHANGED <<typed, pc, front, back>>

Next ==
  \/ Outside \/ Load \/ Replace \/ Malformed \/ Settle
  \/ Help \/ Command \/ ExecCommand \/ Fallback \/ RunExtension

Spec == Init /\ [][Next]_vars

-----------------------------------------------------------------------------
(* Properties. *)

Ends(s, t) ==
  /\ Len(s) >= Len(t)
  /\ \A i \in 1..Len(t) : s[Len(s) - Len(t) + i] = t[i]

\* What the user typed after the first word reaches the command or the extension, in
\* order and at the end, and without an alias nothing is changed (alias.go 169-199,
\* extension.go 298-311).
ArgsKept ==
  /\ depth = 0 => args = typed
  /\ typed # <<>> => Ends(args, Tail(typed))
  /\ typed # <<>> /\ child # -1 => Ends(target, Tail(typed))

\* A run fails on an alias only if someone has written that alias into the file by
\* hand: alias set stores none that does not split, also none for a run under way
\* (alias.go 57-61).
BrokenNeedsHand == [][Malformed => Head(args) \in hand]_vars

\* Every failure has one report and a code that is its own: the child's if one ran and
\* ended, the CLI's otherwise (root.go 181-215, extension.go 122-137).
OneVoice ==
  pc = "exit" =>
    /\ Len(voices) = IF code = 0 THEN 0 ELSE 1
    /\ child \in Status => code = child
    /\ voices = <<"child">> <=> child \in Status \cup {256}

\* An extension that is on PATH all the time is never missed: a leading word that is
\* neither a command nor an alias runs it (extension.go 272-311).
NeverMissed ==
  (/\ pc = "exit" /\ args # <<>> /\ Head(args) \in Name \ (Builtin \cup off)
   /\ ~Replaceable) => child # -1

=============================================================================
