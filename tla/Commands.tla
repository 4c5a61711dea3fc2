------------------------------ MODULE Commands ------------------------------
(***************************************************************************)
(* One run of one product command (jiracmd, confcmd, bbcmd, atl-* api):    *)
(* local checks, the client of the site profile, the lookup of a name if   *)
(* the command takes one, the request itself, and the rendering of its     *)
(* answer. A command is described by its shape. The edits of Confluence    *)
(* content have more requests and a module of their own (ContentEdit), as  *)
(* have the pages of a list (Pagination), here one request.                *)
(*                                                                         *)
(* Definitions with a name ending in Bug are wrong variants of the one     *)
(* below them, each with a plausible mistake.                              *)
(***************************************************************************)
EXTENDS Integers, Target

CONSTANTS
  Thing,      \* what a name can stand for: accounts, spaces, transitions, runs
  NoThing,
  MaxChanges  \* bound: how often others change what the name stands for

ASSUME CommandsAssumption ==
  /\ Thing \cap Ref = {} /\ NoThing \notin Thing \cup Ref
  /\ MaxChanges \in Nat

VARIABLES
  product, cmd, profile,
  projection,  \* --json, --jq: none, one that fits the answer, one that does not
  ref,         \* the path or URL given to api, Relative for the other commands
  pc,          \* check, client, lookup, looking, main, await, render, exit
  named,       \* what the lookup has found
  asked, dest, \* history: a request was sent; where requests went
  wire,        \* the write: none, flight, applied, refused, moved
  code,        \* the exit code
  found,       \* the service: what the name stands for
  sole,        \* history: what it has stood for alone
  changes

given == <<product, cmd, profile, projection, ref>>
net   == <<asked, dest, wire>>
names == <<found, sole, changes>>
vars  == <<given, pc, named, net, code, names>>

-----------------------------------------------------------------------------
(* The commands. *)

Bad == {"invalid_input"}

\* resolveRepoTarget, resolveWorkspace: before the client, and from flags or the git
\* checkout alone.
Targeting == Bad

Lookup == {"none", "me", "myself", "email", "transition", "space", "build", "branch", "link"}

\* local: what the checks ahead of the client can fail with; renders: the answer
\* decoded for people, a fixed text for people (raw with the answer's body, result
\* with a synthesized one for --json), bytes, or as it is (api).
Shapes ==
  [local : SUBSET Category, lookup : Lookup, effect : {"read", "write"},
   renders : {"decoded", "raw", "result", "bytes", "api"}]

Shape(local, lookup, effect, renders) ==
  [local |-> local, lookup |-> lookup, effect |-> effect, renders |-> renders]

Read(local)     == Shape(local, "none", "read", "decoded")
Create(local)   == Shape(local, "none", "write", "decoded")
Done(local)     == Shape(local, "none", "write", "result")
Download(local) == Shape(local, "link", "read", "bytes")
Upload(renders) == Shape({"invalid_input", "error"}, "none", "write", renders)

\* Jira. list and view
IssueReads == {Read(Bad), Shape(Bad, "email", "read", "decoded"), Read({})}

\* create and edit, with or without an assignee
IssueWrites ==
  {Shape(Bad, l, "write", r) : l \in {"none", "me", "email"}, r \in {"decoded", "result"}}

Transitions == {Read({}), Shape({}, "transition", "write", "result")}

Assign == {Shape({}, l, "write", "result") : l \in {"none", "me", "email"}}

Watching == {Done({}), Shape({}, "myself", "write", "result"), Read({})}

Worklogs == {Read(Bad), Create(Bad)}

\* list, view, create, edit, delete
JiraComments ==
  {Read(Bad), Read({}), Create(Bad), Shape(Bad, "none", "write", "raw"), Done(Bad)}

JiraAttachments == {Read({}), Download(Bad), Upload("decoded")}

IssueLinks == {Done(Bad), Read({})}

\* list and view of projects
JiraProjects == {Read({})}

Fields == {Read({})}

IssueSearches == {Read({})}

\* Confluence
PageReads == {Shape(Bad, "space", "read", "decoded"), Read({})}

\* create and delete; edit is ContentEdit
PageWrites == {Shape(Bad, "space", "write", "decoded"), Done(Bad)}

Blogposts ==
  {Read({}), Shape({}, "space", "read", "decoded"), Shape(Bad, "space", "write", "decoded")}

\* list, view, create, delete
PageComments == {Read({}), Create(Bad), Done(Bad)}

Labels == {Read({}), Shape({}, "none", "write", "raw"), Done({})}

PageAttachments == {Upload("raw"), Read({}), Download(Bad)}

\* view finds the space by its key and is done with that
Spaces == {Read({})}

TextSearch == {Read(Bad), Read({})}

\* Bitbucket. create, delete, view, list
Repositories == {Create(Targeting), Done(Targeting), Read(Targeting)}

PullRequests == {Read(Targeting), Create(Targeting)}

\* approve, decline, merge; unapprove
PullRequestActions == {Shape(Targeting, "none", "write", "raw"), Done(Targeting)}

PullRequestComments ==
  {Shape(Targeting, "none", "read", "bytes"), Read(Targeting), Create(Targeting)}

\* stop, steps, log, by build number or UUID
Pipelines ==
  {Shape(Targeting, l, k[1], k[2]) :
     l \in {"none", "build"},
     k \in {<<"write", "result">>, <<"read", "decoded">>, <<"read", "bytes">>}}

PipelineRuns == {Read(Targeting), Create(Targeting)}

Branches == {Read(Targeting), Create(Targeting), Done(Targeting)}

Tags == {Read(Targeting), Create(Targeting), Done(Targeting)}

Projects == {Read(Targeting), Create(Targeting), Done(Targeting)}

Commits == {Read(Targeting)}

Deployments == {Read(Targeting)}

\* of repositories and pull requests
Searches == {Read(Targeting)}

Workspaces == {Read(Targeting)}

Sources ==
  {Shape(Targeting, l, "read", r) : l \in {"none", "branch"}, r \in {"decoded", "bytes"}}

\* All three.
Status == Read({})

RawAPI == {Shape({}, "none", e, "api") : e \in {"read", "write"}}

Jira ==
  IssueReads \cup IssueWrites \cup Transitions \cup Assign \cup Watching
  \cup Worklogs \cup JiraComments \cup JiraAttachments \cup IssueLinks
  \cup JiraProjects \cup Fields \cup IssueSearches

Confluence ==
  PageReads \cup PageWrites \cup Blogposts \cup PageComments \cup Labels
  \cup PageAttachments \cup Spaces \cup TextSearch

Bitbucket ==
  Repositories \cup PullRequests \cup PullRequestActions \cup PullRequestComments
  \cup Pipelines \cup PipelineRuns \cup Branches \cup Tags \cup Projects
  \cup Commits \cup Deployments \cup Searches
  \cup Workspaces \cup Sources

Catalogue(p) ==
  {Status} \cup RawAPI \cup
  CASE p = "jira" -> Jira [] p = "confluence" -> Confluence [] OTHER -> Bitbucket

-----------------------------------------------------------------------------
(* What the name stands for. *)

Findable(lookup) ==
  CASE lookup \in {"email", "transition"} -> SUBSET Thing
    [] lookup = "myself" -> {{t} : t \in Thing}
    [] lookup \in {"me", "space", "build", "branch"} -> {{}} \cup {{t} : t \in Thing}
    [] lookup = "link" -> {{}} \cup {{r} : r \in Ref}
    [] OTHER -> {{}}

Alone(s) == {t \in s : s = {t}}

\* Mistake: the first of several matches is taken.
IdentifiesBug(s) == s # {}

\* A space is the first match of its key, and a key has one space at most; several
\* accounts or transitions are refused.
Identifies(s) == Alone(s) # {}

\* Mistake: an email address that matches nobody is bad input.
MissingBug(lookup) ==
  CASE lookup = "space" -> {"not_found_or_not_visible"}
    [] OTHER -> {"invalid_input"}

\* How a lookup fails that finds nothing it can use.
Missing(lookup) ==
  CASE lookup = "space" -> {"not_found_or_not_visible"}
    [] lookup = "build" -> {"not_found_or_not_visible", "invalid_input"}
    [] lookup \in {"transition", "link"} -> {"invalid_input"}
    [] OTHER -> {"error"}

TypeOK ==
  /\ product \in Product /\ cmd \in Shapes /\ profile \in Profile
  /\ projection \in {"none", "fits", "clash"} /\ ref \in Ref
  /\ pc \in {"check", "client", "lookup", "looking", "main", "await", "render", "exit"}
  /\ named \in Thing \cup Ref \cup {NoThing}
  /\ (pc \in {"main", "await"} /\ cmd.lookup # "none") => named # NoThing
  /\ asked \in BOOLEAN /\ dest \subseteq Origin
  /\ wire \in {"none", "flight", "applied", "refused", "moved"}
  /\ code \in 0..9
  /\ found \subseteq Thing \cup Ref /\ sole \subseteq Thing \cup Ref
  /\ changes \in 0..MaxChanges

Init ==
  /\ product \in Product /\ cmd \in Catalogue(product) /\ profile \in Profile
  /\ projection \in {"none", "fits", "clash"}
  /\ ref \in IF cmd.renders = "api" THEN Ref ELSE {Relative}
  /\ pc = "check" /\ named = NoThing
  /\ asked = FALSE /\ dest = {} /\ wire = "none" /\ code = 0
  /\ found \in Findable(cmd.lookup) /\ sole = Alone(found) /\ changes = 0

-----------------------------------------------------------------------------
(* The run. *)

Fail(category) == pc' = "exit" /\ code' = ExitCode(category)

Structured == projection # "none"

\* A download with --json or --jq prints the metadata only.
MetadataOnly == cmd.lookup = "link" /\ Structured

Check ==
  /\ pc = "check"
  /\ \/ ~MetadataOnly /\ \E c \in cmd.local : Fail(c)
     \/ pc' = "client" /\ UNCHANGED code
  /\ UNCHANGED <<given, named, net, names>>

\* SiteClient: the timeout, the profile, its style, the stored token.
BuildClient ==
  /\ pc = "client"
  /\ \/ \E c \in {"invalid_input", "error"} : Fail(c)
     \/ /\ profile.style \in TokenStyle
        /\ pc' = IF cmd.lookup = "none" THEN "main" ELSE "lookup"
        /\ UNCHANGED code
  /\ UNCHANGED <<given, named, net, names>>

\* Client.do, up to the request.
GiveUp(r) ==
  /\ \E c \in Unsent(product, profile, r) : Fail(c)
  /\ UNCHANGED net

Send(r, then) ==
  /\ Sendable(product, profile, r)
  /\ asked' = TRUE /\ dest' = dest \cup {ResolveURL(product, profile, r)}
  /\ pc' = then /\ UNCHANGED code

LookUp ==
  /\ pc = "lookup"
  /\ GiveUp(Relative) \/ (Send(Relative, "looking") /\ UNCHANGED wire)
  /\ UNCHANGED <<given, named, names>>

\* classify, transportError: the statuses with a category of their own
Refusal == {"unauthorized", "forbidden", "not_found_or_not_visible", "rate_limited"}

\* ... and what leaves open what has happened.
Open == {"timeout", "error"}

LookedUp ==
  /\ pc = "looking"
  /\ IF MetadataOnly
     THEN pc' = "render" /\ UNCHANGED <<named, code>>
     ELSE IF Identifies(found)
     THEN \E t \in found : named' = t /\ pc' = "main" /\ UNCHANGED code
     ELSE (\E c \in Missing(cmd.lookup) : Fail(c)) /\ UNCHANGED named
  /\ UNCHANGED <<given, net, names>>

LookupFails ==
  /\ pc = "looking" /\ \E c \in Refusal \cup Open : Fail(c)
  /\ UNCHANGED <<given, named, net, names>>

Reference == IF cmd.lookup = "link" THEN named ELSE ref

\* api is given a method that is none: http.NewRequest refuses it.
BadMethod ==
  /\ cmd.renders = "api" /\ ResolveURL(product, profile, Reference) \in Origin
  /\ Fail("invalid_input") /\ UNCHANGED net

\* pipeline log is given a blank step, and says so after it has found the build.
BlankStep ==
  /\ cmd.lookup = "build" /\ cmd.renders = "bytes"
  /\ Fail("invalid_input") /\ UNCHANGED net

Request ==
  /\ pc = "main"
  /\ \/ GiveUp(Reference)
     \/ BadMethod \/ BlankStep
     \/ /\ Send(Reference, "await")
        /\ wire' = IF cmd.effect = "write" THEN "flight" ELSE wire
  /\ UNCHANGED <<given, named, names>>

\* An answer below 400.
Served ==
  /\ pc = "await" /\ (cmd.effect = "read" \/ wire = "applied")
  /\ pc' = "render"
  /\ UNCHANGED <<given, named, net, code, names>>

\* Mistake: only statuses from 500 on are errors.
RefusedBug ==
  /\ pc = "await" /\ wire \in {"none", "flight"}
  /\ wire' = IF cmd.effect = "write" THEN "refused" ELSE wire
  /\ pc' = "render"
  /\ UNCHANGED <<given, named, asked, dest, code, names>>

\* The service does nothing and says so.
Refused ==
  /\ pc = "await" /\ wire \in {"none", "flight"}
  /\ wire' = IF cmd.effect = "write" THEN "refused" ELSE wire
  /\ \E c \in Refusal \cup {"error"} : Fail(c)
  /\ UNCHANGED <<given, named, asked, dest, names>>

\* A redirect with 301, 302 or 303: net/http follows it with a GET whatever the method
\* was, and the answer to that GET counts.
Moved ==
  /\ pc = "await" /\ wire = "flight" /\ wire' = "moved"
  /\ \/ pc' = "render" /\ UNCHANGED code
     \/ \E c \in Refusal \cup Open : Fail(c)
  /\ UNCHANGED <<given, named, asked, dest, names>>

\* No answer in time, none at all, or a server error; the write may still take effect.
Silence ==
  /\ pc = "await" /\ \E c \in Open : Fail(c)
  /\ UNCHANGED <<given, named, net, names>>

\* Render, RenderDecoded and the commands' own output.
Projecting == Structured /\ (cmd.renders # "bytes" \/ MetadataOnly)

\* A --jq expression that does not compile, two projections at once, or one the value
\* does not fit; api renders no empty answer.
Clash == Projecting /\ projection = "clash"

\* An answer that cannot be decoded, a file that cannot be written.
Unreadable == Projecting \/ cmd.renders \in {"decoded", "bytes", "api"}

Render ==
  /\ pc = "render"
  /\ \/ (Clash => cmd.renders = "api") /\ pc' = "exit" /\ code' = 0
     \/ Clash /\ Fail("invalid_input")
     \/ Unreadable /\ Fail("error")
  /\ UNCHANGED <<given, named, net, names>>

-----------------------------------------------------------------------------
(* The service. *)

Apply ==
  /\ wire = "flight" /\ wire' = "applied"
  /\ UNCHANGED <<given, pc, named, asked, dest, code, names>>

Others ==
  /\ pc # "exit" /\ changes < MaxChanges /\ changes' = changes + 1
  /\ found' \in Findable(cmd.lookup) /\ sole' = sole \cup Alone(found')
  /\ UNCHANGED <<given, pc, named, net, code>>

Next ==
  \/ Check \/ BuildClient \/ LookUp \/ LookedUp \/ LookupFails
  \/ Request \/ Served \/ Refused \/ Moved \/ Silence \/ Render
  \/ Apply \/ Others

Spec == Init /\ [][Next]_vars

-----------------------------------------------------------------------------
(* Properties. *)

\* What the exit code says of the write, for all time: none was or will be made after
\* 4 to 7; it was made after 0, unless a redirect swallowed it; after 8 none was sent,
\* or the answer alone was not to the liking of --json or --jq (httpclient/client.go
\* 374-430, output.go 33-88). Codes 1 and 9 leave it open.
ExitTells ==
  pc = "exit" =>
    /\ code \in 4..7 => wire \in {"none", "refused", "moved"}
    /\ code = 0 /\ cmd.effect = "write" => wire \in {"applied", "moved"}
    /\ code = 8 /\ wire # "none" =>
         projection = "clash" /\ wire \in {"applied", "moved"}

\* Bad input is refused before any request, except by a name or link that turns out to
\* be no good, by the step named with a build, and by a projection (issue.go 317-336,
\* pipelines.go 130, 168, conf/client.go 574, jira/client.go 290).
RefusedUnsent ==
  (pc = "exit" /\ code = 8 /\ asked) =>
     projection = "clash" \/ cmd.lookup \in {"transition", "build", "link"}

\* A command acts on what its name stood for, and stood for alone, at some time of the
\* run, whatever others do to the name meanwhile (users.go 53-66, issue.go 323-329).
ActsOnNamed == named # NoThing => named \in sole

\* Whatever the service answers and the user gives, requests go to the API base or the
\* site of the profile, and only with a complete credential (httpclient/client.go
\* 121-190, auth.go 84-106). Redirects are net/http's affair.
TrustedTargets ==
  dest \subseteq Allowed(product, profile) /\ (asked => CanSign(profile))

\* docs/access-error-model.md:44: input is validated before any request, but for the
\* projection of the output. False of transitions, attachments and builds: no run
\* checks it.
InputBeforeRequest ==
  (pc = "exit" /\ code = 8 /\ projection # "clash") => ~asked

\* docs/consuming.md:88: exit code 0 is success. False of a write that is redirected:
\* no run checks it.
SuccessIsDone ==
  (pc = "exit" /\ code = 0 /\ cmd.effect = "write") => wire = "applied"

=============================================================================
