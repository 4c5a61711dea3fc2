---------------------------- MODULE SharedContent ----------------------------
(***************************************************************************)
(* What page, blogpost and comment edits promise about content that others *)
(* change too: each edit takes effect at most once, in one step, and sets  *)
(* what the command names on the content AS IT IS THEN; what the command   *)
(* does not name stays (docs/command-contract.md 624-634).                 *)
(***************************************************************************)
EXTENDS Integers

CONSTANTS
  Run,      \* the edits
  Title, Text,
  Format,   \* body representations the service stores
  Keep      \* not named by the command

VARIABLES
  content,  \* the content as the service holds it
  job,      \* what each edit names
  applied,  \* the edits that have taken effect
  seen      \* the status each edit has seen

Body    == [format: Format, value: Text]
Status  == {"current", "trashed", "gone"}
Content == [title: Title, body: Body, status: Status, version: Nat \ {0}]
Job     == [title: Title \cup {Keep}, body: Body \cup {Keep}]

Merged(c, j) ==
  [c EXCEPT !.title = IF j.title = Keep THEN @ ELSE j.title,
            !.body = IF j.body = Keep THEN @ ELSE j.body]

vars == <<content, job, applied, seen>>

Init ==
  /\ content \in Content /\ job \in [Run -> Job] /\ applied = {}
  /\ seen = [r \in Run |-> content.status]

Look(r) ==
  /\ r \notin applied /\ content.status # "gone"
  /\ seen' = [seen EXCEPT ![r] = content.status]
  /\ UNCHANGED <<content, job, applied>>

\* Content stays in the trash or out of it, unless that has changed since the edit looked.
Apply(r) ==
  /\ r \notin applied /\ applied' = applied \cup {r}
  /\ content.status # "gone"
  /\ \E s \in {content.status, seen[r]} :
       content' = [Merged(content, job[r]) EXCEPT !.status = s, !.version = @ + 1]
  /\ UNCHANGED <<job, seen>>

\* Another user, or another command.
Others == content' \in Content /\ UNCHANGED <<job, applied, seen>>

Next == Others \/ \E r \in Run : Look(r) \/ Apply(r)

Spec == Init /\ [][Next]_vars
=============================================================================
