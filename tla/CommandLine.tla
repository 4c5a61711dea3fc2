----------------------------- MODULE CommandLine -----------------------------
(***************************************************************************)
(* splitCommandLine (internal/cli/alias.go): the words an alias expansion  *)
(* consists of. A text is a sequence of characters, a word as well. Tab    *)
(* and newline are as the space, all characters without a meaning as one   *)
(* another.                                                                *)
(*                                                                         *)
(* Definitions with a name ending in Bug are wrong variants of the one     *)
(* below them, each with a plausible mistake.                              *)
(***************************************************************************)
EXTENDS Integers, Sequences, Functions

CONSTANTS
  Letters,     \* characters without a meaning
  WordLength,  \* bounds: of the words, and how many, that are quoted,
  TextLength   \* and of texts

SingleQuote == "'"
DoubleQuote == "\""
Backslash   == "\\"
SpaceChar   == " "
Chars == Letters \cup {SingleQuote, DoubleQuote, Backslash, SpaceChar}

NoQuote == "none"
Unsplit == <<"trailing backslash or unterminated quote">>

\* fields, cur, inField, quote, escaped
State0 == [fields |-> <<>>, cur |-> <<>>, inField |-> FALSE, quote |-> NoQuote, escaped |-> FALSE]

Flush(st) ==
  IF st.inField
  THEN [st EXCEPT !.fields = Append(@, st.cur), !.cur = <<>>, !.inField = FALSE] ELSE st

Write(st, ch) == [st EXCEPT !.cur = Append(@, ch), !.inField = TRUE]

\* Mistake: a backslash escapes between single quotes as well.
EscapesBug(st, ch) == ch = Backslash

Escapes(st, ch) == ch = Backslash /\ st.quote # SingleQuote

\* One round of the loop. (A character between quotes is in a field already.)
Scan(st, ch) ==
  CASE st.escaped -> [Write(st, ch) EXCEPT !.escaped = FALSE]
    [] ~st.escaped /\ Escapes(st, ch) -> [st EXCEPT !.escaped = TRUE, !.inField = TRUE]
    [] ~st.escaped /\ ~Escapes(st, ch) /\ st.quote # NoQuote ->
         IF ch = st.quote THEN [st EXCEPT !.quote = NoQuote] ELSE Write(st, ch)
    [] OTHER ->
         CASE ch \in {SingleQuote, DoubleQuote} -> [st EXCEPT !.quote = ch, !.inField = TRUE]
           [] ch = SpaceChar                    -> Flush(st)
           [] OTHER                             -> Write(st, ch)

\* The loop over the characters of a text.
Loop(st, text) ==
  LET after[n \in 0..Len(text)] == IF n = 0 THEN st ELSE Scan(after[n - 1], text[n])
  IN after[Len(text)]

\* No error: no trailing backslash, no unterminated quote.
Complete(st) == ~st.escaped /\ st.quote = NoQuote
Splits(text) == Complete(Loop(State0, text))

SplitCommandLine(text) ==
  IF Splits(text) THEN Flush(Loop(State0, text)).fields ELSE Unsplit

-----------------------------------------------------------------------------
(* Properties. *)

UpToLength(n, S) == UNION {[1..k -> S] : k \in 0..n}

\* How a shell user may write a word: each character escaped, between double quotes
\* with the two special ones escaped, or between single quotes if it has none.
Escape(ch, special) == IF ch \in special THEN <<Backslash, ch>> ELSE <<ch>>
Escaped(word, special) ==
  LET upTo[n \in 0..Len(word)] == IF n = 0 THEN <<>> ELSE upTo[n - 1] \o Escape(word[n], special)
  IN upTo[Len(word)]
Quoted(word) ==
  {<<DoubleQuote>> \o Escaped(word, {DoubleQuote, Backslash}) \o <<DoubleQuote>>}
  \cup (IF word = <<>> THEN {} ELSE {Escaped(word, Chars)})
  \cup (IF SingleQuote \in Range(word) THEN {} ELSE {<<SingleQuote>> \o word \o <<SingleQuote>>})

\* What is quoted arrives: words written in any of these ways and parted by spaces are
\* split into just those words, blank ones included. And a text is split where it
\* has a space outside: two texts that split, parted by a space, split as each does.
SplitsBack ==
  /\ \A v, w \in UpToLength(WordLength, Chars) :
       \A t \in Quoted(v), u \in Quoted(w) :
         SplitCommandLine(t \o <<SpaceChar>> \o u) = <<v, w>>
  /\ \A t, u \in UpToLength(TextLength, Chars) :
       Splits(t) /\ Splits(u) =>
         SplitCommandLine(t \o <<SpaceChar>> \o u) = SplitCommandLine(t) \o SplitCommandLine(u)

=============================================================================
