----------------------------- MODULE ContentEdit -----------------------------
(***************************************************************************)
(* page edit, blogpost edit and page comment edit (internal/confcmd):      *)
(* runs that read a piece of content, possibly a second time in another    *)
(* representation, and write all of it back with the next version number,  *)
(* while others edit, trash, restore and purge it. An answer may get lost, *)
(* and a request may arrive long after the run gave up on it.              *)
(*                                                                         *)
(* Definitions with a name ending in Bug are wrong variants of the one     *)
(* below them, each with a plausible mistake.                              *)
(***************************************************************************)
EXTENDS Integers

CONSTANTS
  Run,         \* the edits
  Title, Text,
  Empty,       \* a body without text
  Keep,        \* no --title, no --body
  MaxVersion   \* bound: the versions others make

ASSUME EditAssumption ==
  /\ Empty \in Text /\ Keep \notin Title \cup Text /\ MaxVersion \in Nat \ {0}

VARIABLES
  content,     \* the content as the service holds it
  job,         \* the flags of each run
  pc,          \* get, getADF, put: that request is under way; done
  cur,         \* cur: what the first request of each run read
  put,         \* the update of each run, once it is sent
  verdict,     \* what the service made of the update
  outcome      \* what the run reports

run  == <<job, pc, cur, put, outcome>>
vars == <<content, run, verdict>>

Format  == {"storage", "atlas_doc_format"}
Body    == [format: Format, value: Text]
Status  == {"current", "trashed", "gone"}
Content == [title: Title, body: Body, status: Status, version: Nat \ {0}]

\* validateContentEditFlags: at least one of the two. A wiki body is stored as storage.
Job == {j \in [title: Title \cup {Keep}, body: Body \cup {Keep}] :
          j.title # Keep \/ j.body # Keep}

TypeOK ==
  /\ content \in Content /\ job \in [Run -> Job]
  /\ pc \in [Run -> {"get", "getADF", "put", "done"}]
  /\ cur \in [Run -> Content] /\ put \in [Run -> Content]
  /\ verdict \in [Run -> {"none", "sent", "accepted", "refused"}]
  /\ outcome \in [Run -> {"none", "updated", "refused", "failed"}]
  /\ \A r \in Run : pc[r] = "done" <=> outcome[r] # "none"

Init ==
  /\ content \in [title: Title, body: Body, status: {"current"}, version: {1}]
  /\ job \in [Run -> Job]
  /\ pc = [r \in Run |-> "get"]
  /\ cur = [r \in Run |-> content] /\ put = [r \in Run |-> content]
  /\ verdict = [r \in Run |-> "none"] /\ outcome = [r \in Run |-> "none"]

-----------------------------------------------------------------------------
(* The runs. *)

Return(r, o) ==
  pc' = [pc EXCEPT ![r] = "done"] /\ outcome' = [outcome EXCEPT ![r] = o]

\* A body as it goes back after a request for one representation of it: a
\* representation it does not have reads as empty.
ReadAs(format, body) ==
  [format |-> format, value |-> IF body.format = format THEN body.value ELSE Empty]

\* Mistake: content in the trash is written back as current.
UpdateBug(c, j, body) ==
  [title |-> IF j.title = Keep THEN c.title ELSE j.title, body |-> body,
   status |-> "current", version |-> c.version + 1]

\* The whole content after the edit, from what the first request read.
Update(c, j, body) ==
  [title |-> IF j.title = Keep THEN c.title ELSE j.title, body |-> body,
   status |-> c.status, version |-> c.version + 1]

Send(r, c, body) ==
  /\ put' = [put EXCEPT ![r] = Update(c, job[r], body)]
  /\ verdict' = [verdict EXCEPT ![r] = "sent"]
  /\ pc' = [pc EXCEPT ![r] = "put"]
  /\ UNCHANGED outcome

\* Mistake: an empty body is sent back as well.
PreservesBug(body) == TRUE

\* Is there a body to preserve?
Preserves(body) == body.value # Empty

\* ops.get: the storage representation, and what to do with it.
Get(r) ==
  /\ pc[r] = "get" /\ content.status # "gone"
  /\ LET stored == ReadAs("storage", content.body)
     IN CASE job[r].body # Keep -> Send(r, content, job[r].body)
          [] job[r].body = Keep /\ Preserves(stored) -> Send(r, content, stored)
          [] OTHER -> /\ pc' = [pc EXCEPT ![r] = "getADF"]
                      /\ UNCHANGED <<put, verdict, outcome>>
  /\ cur' = [cur EXCEPT ![r] = content]
  /\ UNCHANGED <<content, job>>

\* ops.getADF
GetADF(r) ==
  /\ pc[r] = "getADF" /\ content.status # "gone"
  /\ LET adf == ReadAs("atlas_doc_format", content.body)
     IN IF Preserves(adf) THEN Send(r, cur[r], adf)
        ELSE Return(r, "refused") /\ UNCHANGED <<put, verdict>>
  /\ UNCHANGED <<content, job, cur>>

\* ops.update returns. The body of a success may still fail to decode.
Confirmed(r) ==
  /\ pc[r] = "put" /\ verdict[r] = "accepted"
  /\ \E o \in {"updated", "failed"} : Return(r, o)
  /\ UNCHANGED <<content, job, cur, put, verdict>>

Conflict(r) ==
  /\ pc[r] = "put" /\ verdict[r] = "refused"
  /\ Return(r, "refused")
  /\ UNCHANGED <<content, job, cur, put, verdict>>

\* Mistake: a request without an answer counts as refused.
SilenceBug == "refused"

\* transportError: what no answer tells about the request.
Silence == "failed"

\* A request is answered with an error, cannot be decoded, or has no answer; or the
\* run is killed.
Fail(r) ==
  /\ pc[r] # "done"
  /\ Return(r, Silence)
  /\ UNCHANGED <<content, job, cur, put, verdict>>

-----------------------------------------------------------------------------
(* The service. *)

\* The update arrives, in time or late, on content of the version before it.
Accept(r) ==
  /\ verdict[r] = "sent"
  /\ content.status # "gone" /\ put[r].version = content.version + 1
  /\ \E s \in {content.status, put[r].status} : content' = [put[r] EXCEPT !.status = s]
  /\ verdict' = [verdict EXCEPT ![r] = "accepted"]
  /\ UNCHANGED run

\* It arrives and does not fit, or is refused for another reason.
Reject(r) ==
  /\ verdict[r] = "sent"
  /\ verdict' = [verdict EXCEPT ![r] = "refused"]
  /\ UNCHANGED <<content, run>>

\* Another user's edit makes a version too.
Others ==
  /\ content.status # "gone" /\ content.version < MaxVersion
  /\ \E t \in Title, b \in Body :
       content' = [content EXCEPT !.title = t, !.body = b, !.version = @ + 1]
  /\ UNCHANGED <<run, verdict>>

\* Deleting content and restoring it makes no version; only what is in the trash
\* can be purged.
Delete ==
  /\ content' = [content EXCEPT !.status = CASE @ = "current" -> "trashed"
                                             [] OTHER -> "gone"]
  /\ content.status # "gone"
  /\ UNCHANGED <<run, verdict>>

Restore ==
  /\ content.status = "trashed" /\ content' = [content EXCEPT !.status = "current"]
  /\ UNCHANGED <<run, verdict>>

Step(r) ==
  \/ Get(r) \/ GetADF(r) \/ Confirmed(r) \/ Conflict(r) \/ Fail(r) \/ Accept(r) \/ Reject(r)

Next == Others \/ Delete \/ Restore \/ \E r \in Run : Step(r)

Spec == Init /\ [][Next]_vars

-----------------------------------------------------------------------------
(* Properties. *)

\* An edit sets what it names on the content as it is when the update takes effect,
\* and nothing else: whatever others change after the run has read the content is
\* neither undone nor mixed with it (content.go 50-57, client.go 282). One thing an edit
\* may put back is being in the trash or not, as the run read it: that has no version
\* (client.go 300).
Shared == INSTANCE SharedContent WITH
  applied <- {r \in Run : verdict[r] = "accepted"},
  seen    <- [r \in Run |-> cur[r].status]
AtomicEdits == Shared!Spec

\* What a run reports is true for good: an update reported as done has been made, and
\* one reported as refused has not been and never will be; only "failed" leaves it open.
Reported ==
  \A r \in Run :
    /\ outcome[r] = "updated" => verdict[r] = "accepted"
    /\ outcome[r] = "refused" => verdict[r] \in {"none", "refused"}

\* No edit takes text away that its run was not told to take away: content without a
\* body in either representation is refused instead (content.go 84-97).
NothingCleared ==
  [][\A r \in Run : Accept(r) /\ job[r].body = Keep => content'.body.value # Empty]_vars
=============================================================================
