--------------------------- MODULE CommandsProofs ---------------------------
(***************************************************************************)
(* What is proved of Commands and of what its runs are pointed at, for any *)
(* origins, profiles, names and changes, any checkouts and any paths.      *)
(***************************************************************************)
EXTENDS CommandInput, SequenceTheorems, WellFoundedInduction, NaturalsInduction, TLAPS

-----------------------------------------------------------------------------
(* The catalogue of commands. *)

\* What the proofs need to know of a command: links are read, and a command that looks
\* up a name is not api.
Sound(c) ==
  /\ c \in Shapes
  /\ c.lookup = "link" => c.effect = "read"
  /\ c.lookup # "none" => c.renders # "api"

LEMMA ShapeSound ==
  ASSUME NEW local \in SUBSET Category, NEW lookup \in Lookup,
         NEW effect \in {"read", "write"},
         NEW renders \in {"decoded", "raw", "result", "bytes", "api"},
         lookup = "link" => effect = "read",
         lookup # "none" => renders # "api"
  PROVE  Sound(Shape(local, lookup, effect, renders))
  BY DEF Sound, Shape, Shapes

LEMMA Locals == Bad \in SUBSET Category /\ Targeting \in SUBSET Category
                /\ {} \in SUBSET Category /\ {"invalid_input", "error"} \in SUBSET Category
  BY DEF Bad, Targeting, Category

LEMMA PlainSound ==
  /\ \A l \in {Bad, Targeting, {}} : Sound(Read(l)) /\ Sound(Create(l)) /\ Sound(Done(l))
  /\ Sound(Download(Bad))
  /\ \A r \in {"decoded", "raw"} : Sound(Upload(r))
  /\ \A e \in {"read", "write"} : Sound(Shape({}, "none", e, "api"))
<1>1. ASSUME NEW l \in {Bad, Targeting, {}}
      PROVE  Sound(Read(l)) /\ Sound(Create(l)) /\ Sound(Done(l))
  BY ShapeSound, Locals DEF Read, Create, Done, Lookup
<1>2. Sound(Download(Bad))
  BY ShapeSound, Locals DEF Download, Lookup
<1>3. ASSUME NEW r \in {"decoded", "raw"} PROVE Sound(Upload(r))
  BY ShapeSound, Locals DEF Upload, Lookup
<1>4. ASSUME NEW e \in {"read", "write"} PROVE Sound(Shape({}, "none", e, "api"))
  BY ShapeSound, Locals DEF Lookup
<1> QED
  BY <1>1, <1>2, <1>3, <1>4

LEMMA JiraSound == \A c \in Jira : Sound(c)
<1>1. \A c \in IssueReads : Sound(c)
  BY PlainSound, ShapeSound, Locals DEF IssueReads, Lookup
<1>2. \A c \in IssueWrites : Sound(c)
  BY ShapeSound, Locals DEF IssueWrites, Lookup
<1>3. \A c \in Transitions : Sound(c)
  BY PlainSound, ShapeSound, Locals DEF Transitions, Lookup
<1>4. \A c \in Assign : Sound(c)
  BY ShapeSound, Locals DEF Assign, Lookup
<1>5. \A c \in Watching : Sound(c)
  BY PlainSound, ShapeSound, Locals DEF Watching, Lookup
<1>6. \A c \in Worklogs \cup IssueLinks \cup JiraProjects \cup Fields \cup IssueSearches :
        Sound(c)
  BY PlainSound DEF Worklogs, IssueLinks, JiraProjects, Fields, IssueSearches
<1>7. \A c \in JiraComments : Sound(c)
  BY PlainSound, ShapeSound, Locals DEF JiraComments, Lookup
<1>8. \A c \in JiraAttachments : Sound(c)
  BY PlainSound DEF JiraAttachments
<1> QED
  BY <1>1, <1>2, <1>3, <1>4, <1>5, <1>6, <1>7, <1>8 DEF Jira

LEMMA ConfluenceSound == \A c \in Confluence : Sound(c)
<1>1. \A c \in PageReads \cup PageWrites : Sound(c)
  BY PlainSound, ShapeSound, Locals DEF PageReads, PageWrites, Lookup
<1>2. \A c \in Blogposts \cup PageComments : Sound(c)
  BY PlainSound, ShapeSound, Locals DEF Blogposts, PageComments, Lookup
<1>3. \A c \in Labels : Sound(c)
  BY PlainSound, ShapeSound, Locals DEF Labels, Lookup
<1>4. \A c \in PageAttachments \cup Spaces \cup TextSearch : Sound(c)
  BY PlainSound DEF PageAttachments, Spaces, TextSearch
<1> QED
  BY <1>1, <1>2, <1>3, <1>4 DEF Confluence

LEMMA BitbucketSound == \A c \in Bitbucket : Sound(c)
<1>1. \A c \in Repositories \cup PullRequests \cup PipelineRuns : Sound(c)
  BY PlainSound DEF Repositories, PullRequests, PipelineRuns
<1>2. \A c \in Branches \cup Tags \cup Projects \cup Commits \cup Deployments \cup Searches
          \cup Workspaces : Sound(c)
  BY PlainSound DEF Branches, Tags, Projects, Commits, Deployments, Searches, Workspaces
<1>3. \A c \in PullRequestActions \cup PullRequestComments : Sound(c)
  BY PlainSound, ShapeSound, Locals DEF PullRequestActions, PullRequestComments, Lookup
<1>4. \A c \in Pipelines : Sound(c)
  <2> SUFFICES ASSUME NEW l \in {"none", "build"},
                      NEW k \in {<<"write", "result">>, <<"read", "decoded">>,
                                 <<"read", "bytes">>}
               PROVE  Sound(Shape(Targeting, l, k[1], k[2]))
    BY DEF Pipelines
  <2>1. k[1] \in {"read", "write"} /\ k[2] \in {"result", "decoded", "bytes"}
    OBVIOUS
  <2> QED
    BY <2>1, ShapeSound, Locals DEF Lookup
<1>5. \A c \in Sources : Sound(c)
  BY ShapeSound, Locals DEF Sources, Lookup
<1> QED
  BY <1>1, <1>2, <1>3, <1>4, <1>5 DEF Bitbucket

LEMMA CatalogueSound ==
  ASSUME NEW p, NEW c \in Catalogue(p) PROVE Sound(c)
  BY PlainSound, JiraSound, ConfluenceSound, BitbucketSound DEF Catalogue, Status, RawAPI

-----------------------------------------------------------------------------
(* Targets and categories. *)

LEMMA Codes ==
  \A c \in Category :
    /\ ExitCode(c) \in 1..9
    /\ ExitCode(c) = 8 <=> c = "invalid_input"
    /\ ExitCode(c) \in 4..7 => c \in Refusal
  BY DEF Category, ExitCode, Refusal

\* A request the program sends goes to an origin the profile allows, signed.
LEMMA SendableAllowed ==
  ASSUME NEW p \in Product, NEW q \in Profile, NEW r, Sendable(p, q, r)
  PROVE  /\ ResolveURL(p, q, r) \in Allowed(p, q)
         /\ APIBase(p, q) \in Origin /\ CanSign(q)
  BY TargetAssumption DEF Sendable, ResolveURL, Allowed, Category

LEMMA UnsentCategory ==
  ASSUME NEW p \in Product, NEW q \in Profile, NEW r
  PROVE  Unsent(p, q, r) \subseteq Category
  BY DEF Unsent, Category

\* Once a profile has served for one request, an API path is not refused as bad input.
LEMMA UnsentLater ==
  ASSUME NEW p \in Product, NEW q \in Profile, APIBase(p, q) \in Origin, CanSign(q)
  PROVE  "invalid_input" \notin Unsent(p, q, Relative)
  BY TargetAssumption DEF Unsent, ResolveURL, Category

LEMMA FindableType ==
  ASSUME NEW l, NEW s \in Findable(l) PROVE s \subseteq Thing \cup Ref
  BY DEF Findable

-----------------------------------------------------------------------------
(* The inductive invariant. *)

\* The command and what it was given.
GivenInv ==
  /\ Sound(cmd) /\ product \in Product /\ profile \in Profile
  /\ projection \in {"none", "fits", "clash"} /\ ref \in Ref
  /\ cmd.lookup # "none" => ref = Relative

\* Where the run is, and what it has asked so far.
StageInv ==
  /\ pc \in {"check", "client", "lookup", "looking", "main", "await", "render", "exit"}
  /\ pc \in {"check", "client", "lookup"} => ~asked
  /\ pc \in {"lookup", "looking"} => cmd.lookup # "none"
  /\ pc = "looking" => asked
  /\ pc = "main" => (asked <=> cmd.lookup # "none")
  /\ asked \in BOOLEAN
  /\ asked => APIBase(product, profile) \in Origin /\ CanSign(profile)
  /\ dest \subseteq Allowed(product, profile)

\* What the lookup has found.
NameInv ==
  /\ named \in Thing \cup Ref \cup {NoThing}
  /\ (pc \in {"main", "await"} /\ cmd.lookup # "none") => named # NoThing
  /\ named # NoThing => named \in sole
  /\ found \subseteq Thing \cup Ref /\ sole \subseteq Thing \cup Ref
  /\ Alone(found) \subseteq sole
  /\ changes \in 0..MaxChanges

\* The write at each stage.
WireInv ==
  /\ wire \in {"none", "flight", "applied", "refused", "moved"}
  /\ wire # "none" => cmd.effect = "write"
  /\ pc \in {"check", "client", "lookup", "looking", "main"} => wire = "none"
  /\ pc = "await" =>
       wire \in IF cmd.effect = "write" THEN {"flight", "applied"} ELSE {"none"}
  /\ pc = "render" =>
       wire \in IF cmd.effect = "write" THEN {"applied", "moved"} ELSE {"none"}

CodeInv == code \in 0..9 /\ ExitTells /\ RefusedUnsent

Inv == GivenInv /\ StageInv /\ NameInv /\ WireInv /\ CodeInv

THEOREM InvInit == Init => Inv
<1> SUFFICES ASSUME Init PROVE Inv
  OBVIOUS
<1> USE DEF Init
<1>1. GivenInv
  BY CatalogueSound DEF GivenInv, Sound, Ref
<1>2. StageInv
  BY DEF StageInv
<1>3. NameInv
  BY FindableType, CommandsAssumption DEF NameInv, Alone
<1>4. WireInv /\ CodeInv
  BY DEF WireInv, CodeInv, ExitTells, RefusedUnsent
<1> QED
  BY <1>1, <1>2, <1>3, <1>4 DEF Inv

\* What the command was given never changes.
LEMMA GivenStep == ASSUME Inv, [Next]_vars PROVE GivenInv' /\ UNCHANGED given
<1>1. UNCHANGED given
  BY DEF Next, vars, Check, BuildClient, LookUp, LookedUp, LookupFails, Request, BadMethod, BlankStep,
     Served, Refused, Moved, Silence, Render, Apply, Others
<1> QED
  BY <1>1 DEF Inv, GivenInv, given

LEMMA StageStep == ASSUME Inv, [Next]_vars PROVE StageInv'
<1> USE DEF Inv, StageInv, given, net, names
<1>1. UNCHANGED given
  BY GivenStep
<1>2. CASE Check
  BY <1>1, <1>2 DEF Check, Fail
<1>3. CASE BuildClient
  BY <1>1, <1>3 DEF BuildClient, Fail
<1>4. CASE LookUp
  <2>1. CASE GiveUp(Relative)
    BY <1>1, <1>4, <2>1 DEF LookUp, GiveUp, Fail
  <2>2. CASE Send(Relative, "looking")
    BY <1>1, <1>4, <2>2, SendableAllowed DEF LookUp, Send, GivenInv
  <2> QED
    BY <1>4, <2>1, <2>2 DEF LookUp
<1>5. CASE LookedUp
  BY <1>1, <1>5 DEF LookedUp, Fail, MetadataOnly
<1>6. CASE Request
  <2>1. CASE GiveUp(Reference)
    BY <1>1, <1>6, <2>1 DEF Request, GiveUp, Fail
  <2>2. CASE Send(Reference, "await")
    BY <1>1, <1>6, <2>2, SendableAllowed DEF Request, Send, GivenInv
  <2>3. CASE BadMethod \/ BlankStep
    BY <1>1, <1>6, <2>3 DEF Request, BadMethod, BlankStep, Fail
  <2> QED
    BY <1>6, <2>1, <2>2, <2>3 DEF Request
<1>7. CASE LookupFails \/ Served \/ Refused \/ Moved \/ Silence \/ Render
  BY <1>1, <1>7 DEF LookupFails, Served, Refused, Moved, Silence, Render, Fail
<1>8. CASE Apply \/ Others
  BY <1>1, <1>8 DEF Apply, Others
<1>9. CASE UNCHANGED vars
  BY <1>1, <1>9 DEF vars
<1> QED
  BY <1>2, <1>3, <1>4, <1>5, <1>6, <1>7, <1>8, <1>9 DEF Next

LEMMA NameStep == ASSUME Inv, [Next]_vars PROVE NameInv'
<1> USE DEF Inv, NameInv, given, net, names
<1>1. UNCHANGED given
  BY GivenStep
<1>2. CASE Check \/ BuildClient \/ LookUp
  BY <1>1, <1>2 DEF Check, BuildClient, LookUp, Fail, GiveUp, Send, Alone
<1>3. CASE LookedUp
  BY <1>1, <1>3, CommandsAssumption DEF LookedUp, Fail, Identifies, Alone
<1>4. CASE Request
  BY <1>1, <1>4 DEF Request, BadMethod, BlankStep, Fail, GiveUp, Send, Alone
<1>5. CASE LookupFails \/ Served \/ Refused \/ Moved \/ Silence \/ Render
  BY <1>1, <1>5 DEF LookupFails, Served, Refused, Moved, Silence, Render, Fail, Alone
<1>6. CASE Apply
  BY <1>1, <1>6 DEF Apply, Alone
<1>7. CASE Others
  <2>1. found' \subseteq Thing \cup Ref
    BY <1>7, FindableType DEF Others
  <2> QED
    BY <1>1, <1>7, <2>1, CommandsAssumption DEF Others, Alone
<1>8. CASE UNCHANGED vars
  BY <1>1, <1>8 DEF vars, Alone
<1> QED
  BY <1>2, <1>3, <1>4, <1>5, <1>6, <1>7, <1>8 DEF Next

LEMMA WireStep == ASSUME Inv, [Next]_vars PROVE WireInv'
<1> USE DEF Inv, WireInv, given, net, names
<1>1. UNCHANGED given
  BY GivenStep
<1>2. CASE Check \/ BuildClient
  BY <1>1, <1>2 DEF Check, BuildClient, Fail
<1>3. CASE LookUp
  BY <1>1, <1>3 DEF LookUp, Fail, GiveUp, Send
<1>4. CASE LookedUp
  <2>1. CASE MetadataOnly
    BY <1>1, <1>4, <2>1 DEF LookedUp, MetadataOnly, GivenInv, Sound, Shapes
  <2>2. CASE ~MetadataOnly
    BY <1>1, <1>4, <2>2 DEF LookedUp, Fail
  <2> QED
    BY <2>1, <2>2
<1>5. CASE Request
  BY <1>1, <1>5 DEF Request, BadMethod, BlankStep, Fail, GiveUp, Send
<1>6. CASE LookupFails \/ Served \/ Silence \/ Render
  BY <1>1, <1>6 DEF LookupFails, Served, Silence, Render, Fail, GivenInv, Sound, Shapes
<1>7. CASE Refused
  BY <1>1, <1>7 DEF Refused, Fail
<1>8. CASE Moved
  BY <1>1, <1>8 DEF Moved, Fail
<1>9. CASE Apply \/ Others
  BY <1>1, <1>9 DEF Apply, Others
<1>10. CASE UNCHANGED vars
  BY <1>1, <1>10 DEF vars
<1> QED
  BY <1>2, <1>3, <1>4, <1>5, <1>6, <1>7, <1>8, <1>9, <1>10 DEF Next

\* A run that ends in a failure has the code of a category.
LEMMA FailCode ==
  ASSUME NEW C \in SUBSET Category, \E c \in C : Fail(c)
  PROVE  /\ pc' = "exit" /\ code' \in 1..9
         /\ code' = 8 => "invalid_input" \in C
         /\ code' \in 4..7 => C \cap Refusal # {}
  BY Codes DEF Fail

LEMMA CodeStep == ASSUME Inv, [Next]_vars PROVE CodeInv'
<1> USE DEF Inv, CodeInv, ExitTells, RefusedUnsent, WireInv, StageInv
<1>1. UNCHANGED given
  BY GivenStep
<1>2. CASE Check
  <2>1. CASE \E c \in cmd.local : Fail(c)
    BY <1>1, <1>2, <2>1, FailCode DEF Check, GivenInv, Sound, Shapes, given, net
  <2> QED
    BY <1>2, <2>1 DEF Check
<1>3. CASE BuildClient
  <2>1. CASE \E c \in {"invalid_input", "error"} : Fail(c)
    BY <1>1, <1>3, <2>1, FailCode, Locals DEF BuildClient, given, net
  <2> QED
    BY <1>3, <2>1 DEF BuildClient
<1>4. CASE LookUp
  <2>1. CASE GiveUp(Relative)
    BY <1>1, <1>4, <2>1, FailCode, UnsentCategory DEF LookUp, GiveUp, GivenInv, given, net
  <2> QED
    BY <1>4, <2>1 DEF LookUp, Send
<1>5. CASE LookedUp
  <2>1. CASE \E c \in Missing(cmd.lookup) : Fail(c)
    <3>1. /\ Missing(cmd.lookup) \subseteq Category
          /\ "invalid_input" \in Missing(cmd.lookup) =>
               cmd.lookup \in {"transition", "build", "link"}
      BY DEF Missing, Category
    <3> QED
      BY <1>1, <1>5, <2>1, <3>1, FailCode DEF LookedUp, given, net
  <2> QED
    BY <1>5, <2>1 DEF LookedUp
<1>6. CASE LookupFails
  <2>1. Refusal \cup Open \in SUBSET Category /\ "invalid_input" \notin Refusal \cup Open
    BY DEF Refusal, Open, Category
  <2> QED
    BY <1>1, <1>6, <2>1, FailCode DEF LookupFails, given, net
<1>7. CASE Request
  <2>1. CASE GiveUp(Reference)
    <3>1. (asked /\ cmd.lookup # "link") => "invalid_input" \notin Unsent(product, profile, Reference)
      BY <1>7, UnsentLater DEF Request, Reference, GivenInv
    <3> QED
      BY <1>1, <1>7, <2>1, <3>1, FailCode, UnsentCategory
         DEF Request, GiveUp, GivenInv, given, net
  <2>2. CASE BadMethod
    BY <1>1, <1>7, <2>2, Codes DEF Request, BadMethod, Fail, Category, GivenInv, Sound, given, net
  <2>3. CASE BlankStep
    BY <1>1, <1>7, <2>3, Codes DEF Request, BlankStep, Fail, Category, GivenInv, Sound, given, net
  <2> QED
    BY <1>7, <2>1, <2>2, <2>3 DEF Request, Send
<1>8. CASE Served
  BY <1>8 DEF Served
<1>9. CASE Refused
  <2>1. /\ Refusal \cup {"error"} \in SUBSET Category
        /\ "invalid_input" \notin Refusal \cup {"error"}
    BY DEF Refusal, Category
  <2>2. wire' \in {"none", "refused"} /\ \E c \in Refusal \cup {"error"} : Fail(c)
    BY <1>9 DEF Refused
  <2>3. code' \in 1..9 /\ code' # 8
    BY <2>1, <2>2, FailCode
  <2> QED
    BY <2>2, <2>3
<1>10. CASE Moved
  <2>1. CASE \E c \in Refusal \cup Open : Fail(c)
    <3>1. /\ Refusal \cup Open \in SUBSET Category
          /\ "invalid_input" \notin Refusal \cup Open
      BY DEF Refusal, Open, Category
    <3> QED
      BY <1>1, <1>10, <2>1, <3>1, FailCode DEF Moved, given
  <2> QED
    BY <1>10, <2>1 DEF Moved
<1>11. CASE Silence
  <2>1. /\ Open \in SUBSET Category /\ "invalid_input" \notin Open /\ Open \cap Refusal = {}
    BY DEF Refusal, Open, Category
  <2> QED
    BY <1>1, <1>11, <2>1, FailCode DEF Silence, given, net
<1>12. CASE Render
  <2>1. CASE pc' = "exit" /\ code' = 0
    BY <1>1, <1>12, <2>1 DEF Render, given, net, GivenInv, Sound, Shapes
  <2>2. CASE Clash /\ Fail("invalid_input")
    BY <1>1, <1>12, <2>2 DEF Render, Fail, ExitCode, Clash, given, net, GivenInv, Sound, Shapes
  <2>3. CASE Unreadable /\ Fail("error")
    BY <1>1, <1>12, <2>3 DEF Render, Fail, ExitCode, given, net
  <2> QED
    BY <1>12, <2>1, <2>2, <2>3 DEF Render
<1>13. CASE Apply
  BY <1>1, <1>13 DEF Apply, given
<1>14. CASE Others
  BY <1>1, <1>14 DEF Others, given, net
<1>15. CASE UNCHANGED vars
  BY <1>1, <1>15 DEF vars, given, net
<1> QED
  BY <1>2, <1>3, <1>4, <1>5, <1>6, <1>7, <1>8, <1>9, <1>10, <1>11, <1>12, <1>13, <1>14,
     <1>15 DEF Next

THEOREM Invariance == Spec => []Inv
<1>1. Inv /\ [Next]_vars => Inv'
  BY GivenStep, StageStep, NameStep, WireStep, CodeStep DEF Inv
<1> QED
  BY InvInit, <1>1, PTL DEF Spec

-----------------------------------------------------------------------------
(* The theorems. *)

\* Types, and that no request of a command with a lookup goes out without its result.
THEOREM TypeCorrect == Spec => []TypeOK
<1>1. Inv => TypeOK
  <2> SUFFICES ASSUME Inv PROVE TypeOK
    OBVIOUS
  <2>1. dest \subseteq Origin
    BY DEF Inv, StageInv, Allowed
  <2> QED
    BY <2>1 DEF Inv, GivenInv, Sound, StageInv, NameInv, WireInv, CodeInv, TypeOK
<1> QED
  BY <1>1, Invariance, PTL

\* The exit code tells of the write what can be told (client.go 374-430).
THEOREM ExitCodesTell == Spec => []ExitTells
<1>1. Inv => ExitTells
  BY DEF Inv, CodeInv
<1> QED
  BY <1>1, Invariance, PTL

\* Bad input and an unusable profile are refused before any request (client.go 252-281).
THEOREM BadInputUnsent == Spec => []RefusedUnsent
<1>1. Inv => RefusedUnsent
  BY DEF Inv, CodeInv
<1> QED
  BY <1>1, Invariance, PTL

\* Commands act on what was named, and on nothing a name only might stand for
\* (users.go 53-66).
THEOREM NamesAreKept == Spec => []ActsOnNamed
<1>1. Inv => ActsOnNamed
  BY DEF Inv, NameInv, ActsOnNamed
<1> QED
  BY <1>1, Invariance, PTL

\* No reference, from the user or from the service, takes a signed request anywhere but
\* to the API base or the site (client.go 121-190).
THEOREM TargetsAreTrusted == Spec => []TrustedTargets
<1>1. Inv => TrustedTargets
  BY DEF Inv, StageInv, TrustedTargets
<1> QED
  BY <1>1, Invariance, PTL

-----------------------------------------------------------------------------
(* Repositories and workspaces. *)

LEMMA Voids == Void # <<>> /\ Len(Void) = 1
  BY DEF Void

\* An argument is said, or else the flag.
LEMMA SaidIs ==
  ASSUME NEW args \in Typed, NEW flag \in Texts, args # <<Void>>
  PROVE  /\ Said(args, flag) \in Texts
         /\ args = <<>> => Said(args, flag) = flag
         /\ args # <<>> => Said(args, flag) = args[1] /\ args[1] # Void
  BY DEF Typed, Said

\* Once anything is named the checkout is not asked.
LEMMA DecidedByName ==
  ASSUME NEW args \in Typed, NEW repoFlag \in Texts, NEW workspaceFlag \in Texts,
         args # <<Void>>, {Said(args, repoFlag), workspaceFlag} # {Void}
  PROVE  Decided(args, repoFlag, workspaceFlag)
<1> SUFFICES ASSUME NEW i \in Inferences
             PROVE  /\ ResolveRepoTarget(args, repoFlag, workspaceFlag, i)
                         = ResolveRepoTarget(args, repoFlag, workspaceFlag, NoTarget)
                    /\ workspaceFlag # Void \/ args \notin {<<>>, <<Void>>} =>
                         ResolveWorkspace(args, workspaceFlag, i)
                           = ResolveWorkspace(args, workspaceFlag, NoTarget)
  BY DEF Decided
<1>1. ResolveRepoTarget(args, repoFlag, workspaceFlag, i)
        = ResolveRepoTarget(args, repoFlag, workspaceFlag, NoTarget)
  BY DEF ResolveRepoTarget
<1>2. ASSUME workspaceFlag # Void \/ args \notin {<<>>, <<Void>>}
      PROVE  ResolveWorkspace(args, workspaceFlag, i) = ResolveWorkspace(args, workspaceFlag, NoTarget)
  <2>1. Said(args, workspaceFlag) # Void
    BY <1>2, SaidIs
  <2> QED BY <2>1 DEF ResolveWorkspace
<1> QED BY <1>1, <1>2

LEMMA TargetAsSaid ==
  ASSUME NEW args, NEW repoFlag, NEW workspaceFlag, NEW i, NEW said \in Texts,
         said = Said(args, repoFlag),
         NEW t, t = ResolveRepoTarget(args, repoFlag, workspaceFlag, i), t # NoTarget
  PROVE  /\ workspaceFlag # Void => t.workspace = workspaceFlag
         /\ said # Void => t.repo = said[Len(said)]
         /\ Len(said) > 1 => said = t.workspace \o <<t.repo>>
<1>1. said \in Seq(Range(said))
  BY RepoAssumption
<1>2. CASE said = Void
  <2>1. workspaceFlag = Void
    BY <1>2 DEF ResolveRepoTarget
  <2>2. ~(Len(said) > 1)
    BY <1>2, Voids
  <2> QED BY <1>2, <2>1, <2>2
<1>3. CASE said # Void /\ Len(said) = 1
  <2>1. t = [workspace |-> workspaceFlag, repo |-> said[1]]
    BY <1>3 DEF ResolveRepoTarget
  <2> QED BY <1>3, <2>1
<1>4. CASE said # Void /\ Len(said) # 1
  <2>1. Qualified(said, workspaceFlag) /\ t = [workspace |-> <<said[1]>>, repo |-> said[2]]
    BY <1>4 DEF ResolveRepoTarget
  <2>2. Len(said) = 2 /\ workspaceFlag \in {Void, <<said[1]>>}
    BY <2>1 DEF Qualified
  <2>3. said = <<said[1]>> \o <<said[2]>>
    BY <1>1, <2>2
  <2> QED BY <2>1, <2>2, <2>3
<1> QED BY <1>2, <1>3, <1>4

LEMMA WorkspaceAsSaid ==
  ASSUME NEW args \in Typed, NEW workspaceFlag \in Texts, args # <<Void>>, NEW i, NEW w,
         w = ResolveWorkspace(args, workspaceFlag, i)
  PROVE  /\ workspaceFlag # Void => w \in {workspaceFlag, NoTarget}
         /\ args # <<>> => w \in {args[1], NoTarget}
<1>1. CASE args = <<>>
  BY <1>1, SaidIs DEF ResolveWorkspace
<1>2. CASE args # <<>>
  BY <1>2, SaidIs DEF ResolveWorkspace
<1> QED BY <1>1, <1>2

\* No flag and no argument is overruled by the checkout or by the other one: a run acts on
\* the repository and the workspace it was told, or on none (bbcmd.go 93-182).
THEOREM ActsAsTold == ActsOnTyped
<1> SUFFICES ASSUME NEW args \in Typed, NEW repoFlag \in Texts, NEW workspaceFlag \in Texts,
                    args # <<Void>>
             PROVE  /\ {Said(args, repoFlag), workspaceFlag} # {Void} =>
                         Decided(args, repoFlag, workspaceFlag)
                    /\ \A t \in {ResolveRepoTarget(args, repoFlag, workspaceFlag, i) : i \in Inferences}
                                \ {NoTarget} :
                         /\ workspaceFlag # Void => t.workspace = workspaceFlag
                         /\ Said(args, repoFlag) # Void =>
                              t.repo = Said(args, repoFlag)[Len(Said(args, repoFlag))]
                         /\ Len(Said(args, repoFlag)) > 1 =>
                              Said(args, repoFlag) = t.workspace \o <<t.repo>>
                    /\ \A i \in Inferences :
                         /\ workspaceFlag # Void =>
                              ResolveWorkspace(args, workspaceFlag, i) \in {workspaceFlag, NoTarget}
                         /\ args # <<>> =>
                              ResolveWorkspace(args, workspaceFlag, i) \in {args[1], NoTarget}
  BY Zenon DEF ActsOnTyped
<1>1. {Said(args, repoFlag), workspaceFlag} # {Void} => Decided(args, repoFlag, workspaceFlag)
  BY DecidedByName
<1>2. Said(args, repoFlag) \in Texts
  BY SaidIs
<1>3. ASSUME NEW i \in Inferences, NEW t, t = ResolveRepoTarget(args, repoFlag, workspaceFlag, i),
             t # NoTarget
      PROVE  /\ workspaceFlag # Void => t.workspace = workspaceFlag
             /\ Said(args, repoFlag) # Void =>
                  t.repo = Said(args, repoFlag)[Len(Said(args, repoFlag))]
             /\ Len(Said(args, repoFlag)) > 1 =>
                  Said(args, repoFlag) = t.workspace \o <<t.repo>>
  <2>1. PICK said \in Texts : said = Said(args, repoFlag)
    BY <1>2
  <2>2. /\ workspaceFlag # Void => t.workspace = workspaceFlag
        /\ said # Void => t.repo = said[Len(said)]
        /\ Len(said) > 1 => said = t.workspace \o <<t.repo>>
    BY <1>3, <2>1, TargetAsSaid
  <2> QED BY <2>1, <2>2, Zenon
<1>4. ASSUME NEW i \in Inferences
      PROVE  /\ workspaceFlag # Void =>
                  ResolveWorkspace(args, workspaceFlag, i) \in {workspaceFlag, NoTarget}
             /\ args # <<>> => ResolveWorkspace(args, workspaceFlag, i) \in {args[1], NoTarget}
  BY <1>4, WorkspaceAsSaid
<1> QED BY <1>1, <1>3, <1>4, Zenon

LEMMA FirstOf ==
  ASSUME NEW S, NEW s \in Seq(S), s # <<>> PROVE s[1] \in S
BY EmptySeq, ElementOfSeq, LenProperties

LEMMA WiderSeq ==
  ASSUME NEW S, NEW T, S \subseteq T, NEW s \in Seq(S) PROVE s \in Seq(T)
OBVIOUS

\* The parts of InfersFirst, as names that the provers do not take apart.
Listed(up, main, rest) == <<up, main>> \o rest
Real(order, R) == {i \in DOMAIN order : order[i] \in R}

\* The place of the first of a list that is of R, if one of its first three is.
LEMMA FirstReal ==
  ASSUME NEW R, NEW up, NEW main, NEW rest \in Seq(R), rest # <<>>,
         NEW order, order = Listed(up, main, rest), NEW real, real = Real(order, R)
  PROVE  /\ real # {}
         /\ order[Min(real)] = IF up \in R THEN up ELSE IF main \in R THEN main ELSE rest[1]
<1> DEFINE S == R \cup {up, main}
<1>0. rest \in Seq(S) /\ up \in S /\ main \in S /\ rest[1] \in R
  <2>1. R \subseteq S /\ up \in S /\ main \in S
    OBVIOUS
  <2> HIDE DEF S
  <2> QED BY <2>1, FirstOf, WiderSeq
<1> HIDE DEF S
<1> DEFINE two == <<up, main>>
<1>1. two \in Seq(S) /\ Len(two) = 2 /\ two[1] = up /\ two[2] = main
  BY <1>0
<1>2. Len(rest) \in Nat \ {0}
  BY EmptySeq, LenProperties
<1>3. order = two \o rest
  BY DEF Listed
<1> HIDE DEF two
<1>4. /\ two \o rest \in Seq(S) /\ Len(two \o rest) = Len(two) + Len(rest)
      /\ \A i \in 1..Len(two) + Len(rest) :
           (two \o rest)[i] = IF i <= Len(two) THEN two[i] ELSE rest[i - Len(two)]
  BY <1>0, <1>1, ConcatProperties
<1>5. /\ 1 \in 1..Len(two) + Len(rest) /\ 2 \in 1..Len(two) + Len(rest)
      /\ 3 \in 1..Len(two) + Len(rest)
  BY <1>1, <1>2
<1>6. order[1] = up /\ order[2] = main /\ order[3] = rest[1]
  BY <1>1, <1>3, <1>4, <1>5
<1>7. DOMAIN order = 1..Len(two) + Len(rest)
  BY <1>3, <1>4, LenProperties
<1>8. real = {i \in DOMAIN order : order[i] \in R}
  BY DEF Real
<1>9. ASSUME NEW n \in real, \A j \in real : n <= j PROVE Min(real) = n
  <2>1. \A m \in real : (\A j \in real : m <= j) => m = n
    BY <1>1, <1>2, <1>7, <1>9, <1>8
  <2> QED BY <1>9, <2>1 DEF Min
<1>10. \A j \in real : j \in Nat /\ j >= 1 /\ order[j] \in R
  BY <1>1, <1>2, <1>7, <1>8
<1>11. CASE up \in R
  <2>1. 1 \in real
    BY <1>5, <1>6, <1>7, <1>11, <1>8
  <2> QED BY <1>6, <1>9, <1>10, <1>11, <2>1
<1>12. CASE up \notin R /\ main \in R
  <2>1. 2 \in real
    BY <1>5, <1>6, <1>7, <1>12, <1>8
  <2>2. \A j \in real : j # 1 /\ 2 <= j
    BY <1>6, <1>10, <1>12
  <2>3. Min(real) = 2
    BY <1>9, <2>1, <2>2
  <2> QED BY <1>6, <1>12, <2>1, <2>3
<1>13. CASE up \notin R /\ main \notin R
  <2>1. 3 \in real
    BY <1>5, <1>6, <1>7, <1>8
  <2>2. \A j \in real : j # 1 /\ j # 2
    BY <1>6, <1>10, <1>13
  <2>3. \A j \in real : 3 <= j
    BY <1>10, <2>2
  <2>4. Min(real) = 3
    BY <1>9, <2>1, <2>3
  <2> QED BY <1>6, <1>13, <2>1, <2>4
<1> QED BY <1>11, <1>12, <1>13

\* The first of the order that is a remote is the one that is taken.
LEMMA RemoteInOrder ==
  ASSUME NEW c \in Checkouts, c.remotes # <<>>,
         NEW order, order = Listed(c.upstream, "origin", c.remotes),
         NEW real, real = Real(order, Range(c.remotes))
  PROVE  /\ real # {}
         /\ c.upstream \in Range(c.remotes) \cup {"", "."} =>
              order[Min(real)] = DetectRemoteName(c) /\ DetectRemoteName(c) \in Range(c.remotes)
<1>1. c.remotes \in Seq(Range(c.remotes))
  BY RepoAssumption
<1>2. {"", "."} \cap Range(c.remotes) = {}
  BY RepoAssumption
<1>3. c.remotes[1] \in Range(c.remotes)
  BY <1>1, FirstOf
<1>4. real # {}
  BY <1>1, FirstReal
<1>5. order[Min(real)] = IF c.upstream \in Range(c.remotes) THEN c.upstream
                         ELSE IF "origin" \in Range(c.remotes) THEN "origin" ELSE c.remotes[1]
  BY <1>1, FirstReal
<1>6. ASSUME c.upstream \in Range(c.remotes) \cup {"", "."}
      PROVE  DetectRemoteName(c) = IF c.upstream \in Range(c.remotes) THEN c.upstream
                                   ELSE IF "origin" \in Range(c.remotes) THEN "origin"
                                   ELSE c.remotes[1]
  BY <1>2, <1>6 DEF DetectRemoteName
<1> QED BY <1>3, <1>4, <1>5, <1>6

\* What is inferred is the first remote in the documented order, and only if that one is at
\* Bitbucket (git.go 44-88).
THEOREM InfersTheFirst == InfersFirst
<1> SUFFICES ASSUME NEW c \in Checkouts, NEW order, NEW real, NEW first, NEW t,
                    order = Listed(c.upstream, "origin", c.remotes),
                    real = Real(order, Range(c.remotes)),
                    t = InferBitbucketRepo(c), first = c.url[order[Min(real)]]
             PROVE  /\ t # NoTarget => /\ real # {} /\ first.host \in BitbucketHosts
                                       /\ ParseRemoteURL(first) = t
                    /\ real # {} /\ first.host \in BitbucketHosts
                         /\ c.upstream \in Range(c.remotes) \cup {"", "."} => t = ParseRemoteURL(first)
  BY Zenon DEF InfersFirst, Listed, Real
<1>1. CASE c.remotes = <<>>
  <2>1. Range(c.remotes) = {}
    BY <1>1 DEF Range
  <2>2. real = {} /\ t = NoTarget
    BY <2>1 DEF InferBitbucketRepo, Real
  <2> QED BY <2>2
<1>2. CASE c.remotes # <<>> /\ c.upstream \in Range(c.remotes) \cup {"", "."}
  <2>1. real # {} /\ order[Min(real)] = DetectRemoteName(c) /\ DetectRemoteName(c) \in Range(c.remotes)
    BY <1>2, RemoteInOrder
  <2> QED BY <2>1 DEF InferBitbucketRepo
<1>3. CASE c.upstream \notin Range(c.remotes) \cup {"", "."}
  <2>1. t = NoTarget
    BY <1>3 DEF InferBitbucketRepo, DetectRemoteName
  <2> QED BY <1>3, <2>1
<1> QED BY <1>1, <1>2, <1>3

-----------------------------------------------------------------------------
(* References and the URLs they are browsed at. *)

LEMMA Least ==
  ASSUME NEW T \in SUBSET Nat, T # {}
  PROVE  Min(T) \in T /\ \A y \in T : Min(T) <= y
<1> DEFINE R == {ss \in Nat \X Nat : ss[1] < ss[2]}
<1>1. IsWellFoundedOn(R, Nat)
  BY NatLessThanWellFounded DEF OpToRel
<1>2. \A x, y \in Nat : <<y, x>> \in R <=> y < x
  OBVIOUS
<1> HIDE DEF R
<1>3. PICK x \in T : \A y \in T : ~(<<y, x>> \in R)
  BY <1>1, WFMin
<1>4. \A y \in T : ~(y < x)
  BY <1>2, <1>3
<1>5. x \in T /\ \A y \in T : x <= y
  BY <1>4
<1> QED BY <1>5 DEF Min

LEMMA Lengths ==
  ASSUME NEW u \in URLRefs \cup BareRefs PROVE Len(u.path) \in Nat
<1>1. CASE u \in URLRefs
  BY <1>1, ReferenceAssumption, LenProperties DEF URLRefs
<1>2. CASE u \in BareRefs
  <2>1. PICK n \in 1..2 : u.path \in [1..n -> Words]
    BY <1>2 DEF BareRefs
  <2>2. u.path \in Seq(Words)
    BY <2>1
  <2> QED BY <2>2, LenProperties
<1> QED BY <1>1, <1>2

\* A place in a path that is looked for is in the path.
LEMMA Places ==
  ASSUME NEW n \in Nat, NEW T \in SUBSET (2..n), T # {} PROVE Min(T) \in T
<1>1. T \in SUBSET Nat
  OBVIOUS
<1> QED BY <1>1, Least

\* Which sequence two make, by its elements.
Joined(s, t, w) == s \o t = w

LEMMA JoinedIs ==
  ASSUME NEW S, NEW s \in Seq(S), NEW t \in Seq(S), NEW w \in Seq(S), Len(w) = Len(s) + Len(t),
         \A i \in 1..Len(s) : w[i] = s[i],
         \A i \in 1..Len(t) : w[Len(s) + i] = t[i]
  PROVE  Joined(s, t, w)
<1>1. /\ s \o t \in Seq(S) /\ Len(s \o t) = Len(s) + Len(t)
      /\ \A i \in 1..Len(s) + Len(t) : (s \o t)[i] = IF i <= Len(s) THEN s[i] ELSE t[i - Len(s)]
  BY ConcatProperties
<1> DEFINE v == s \o t
<1>2. Len(s) \in Nat /\ Len(t) \in Nat
  BY LenProperties
<1>3. ASSUME NEW i \in 1..Len(s) + Len(t)
      PROVE  w[i] = IF i <= Len(s) THEN s[i] ELSE t[i - Len(s)]
  <2>1. CASE i <= Len(s)
    BY <1>2, <2>1
  <2>2. CASE ~(i <= Len(s))
    <3>1. i - Len(s) \in 1..Len(t) /\ Len(s) + (i - Len(s)) = i
      BY <1>2, <2>2
    <3> QED BY <2>2, <3>1
  <2> QED BY <2>1, <2>2
<1>4. v \in Seq(S) /\ Len(v) = Len(w) /\ \A i \in 1..Len(v) : v[i] = w[i]
  BY <1>1, <1>3
<1> HIDE DEF v
<1>5. v = w
  BY <1>4, SeqEqual
<1> QED BY <1>5 DEF Joined, v

LEMMA Written ==
  ASSUME NEW a, NEW b, NEW c, NEW d, NEW e
  PROVE  /\ Joined(<<a>>, <<b>>, <<a, b>>)
         /\ Joined(<<a>>, <<b, c>>, <<a, b, c>>)
         /\ Joined(<<a>>, <<b, c, d, e>>, <<a, b, c, d, e>>)
         /\ Joined(<<a, b>>, <<c, d>>, <<a, b, c, d>>)
<1> DEFINE S == {a, b, c, d, e}
<1>1. Joined(<<a>>, <<b>>, <<a, b>>)
  <2> DEFINE s == <<a>>
             t == <<b>>
             w == <<a, b>>
  <2>1. s \in Seq(S) /\ t \in Seq(S) /\ w \in Seq(S) /\ Len(w) = Len(s) + Len(t)
    OBVIOUS
  <2>2. (\A i \in 1..Len(s) : w[i] = s[i]) /\ \A i \in 1..Len(t) : w[Len(s) + i] = t[i]
    <3>1. w[1] = s[1] /\ w[2] = t[1] /\ Len(s) = 1 /\ Len(t) = 1
      OBVIOUS
    <3> HIDE DEF s, t, w, S
    <3> QED BY <3>1
  <2> HIDE DEF s, t, w, S
  <2>3. Joined(s, t, w)
    BY <2>1, <2>2, JoinedIs
  <2> QED BY <2>3, Zenon DEF s, t, w
<1>2. Joined(<<a>>, <<b, c>>, <<a, b, c>>)
  <2> DEFINE s == <<a>>
             t == <<b, c>>
             w == <<a, b, c>>
  <2>1. s \in Seq(S) /\ t \in Seq(S) /\ w \in Seq(S) /\ Len(w) = Len(s) + Len(t)
    OBVIOUS
  <2>2. (\A i \in 1..Len(s) : w[i] = s[i]) /\ \A i \in 1..Len(t) : w[Len(s) + i] = t[i]
    OBVIOUS
  <2> HIDE DEF s, t, w, S
  <2>3. Joined(s, t, w)
    BY <2>1, <2>2, JoinedIs
  <2> QED BY <2>3, Zenon DEF s, t, w
<1>3. Joined(<<a>>, <<b, c, d, e>>, <<a, b, c, d, e>>)
  <2> DEFINE s == <<a>>
             t == <<b, c, d, e>>
             w == <<a, b, c, d, e>>
  <2>1. s \in Seq(S) /\ t \in Seq(S) /\ w \in Seq(S) /\ Len(w) = Len(s) + Len(t)
    OBVIOUS
  <2>2. (\A i \in 1..Len(s) : w[i] = s[i]) /\ \A i \in 1..Len(t) : w[Len(s) + i] = t[i]
    OBVIOUS
  <2> HIDE DEF s, t, w, S
  <2>3. Joined(s, t, w)
    BY <2>1, <2>2, JoinedIs
  <2> QED BY <2>3, Zenon DEF s, t, w
<1>4. Joined(<<a, b>>, <<c, d>>, <<a, b, c, d>>)
  <2> DEFINE s == <<a, b>>
             t == <<c, d>>
             w == <<a, b, c, d>>
  <2>1. s \in Seq(S) /\ t \in Seq(S) /\ w \in Seq(S) /\ Len(w) = Len(s) + Len(t)
    OBVIOUS
  <2>2. (\A i \in 1..Len(s) : w[i] = s[i]) /\ \A i \in 1..Len(t) : w[Len(s) + i] = t[i]
    OBVIOUS
  <2> HIDE DEF s, t, w, S
  <2>3. Joined(s, t, w)
    BY <2>1, <2>2, JoinedIs
  <2> QED BY <2>3, Zenon DEF s, t, w
<1> QED BY <1>1, <1>2, <1>3, <1>4

-----------------------------------------------------------------------------
LEMMA JiraKeyIs ==
  ASSUME NEW u, NEW w, JiraKey(u, w) # Unresolved
  PROVE  \/ w \in IssueKeys /\ JiraKey(u, w) = Resource("jira_issue", u, <<w>>, NoWord)
         \/ w \in ProjectKeys \ IssueKeys /\ JiraKey(u, w) = Resource("jira_project", u, <<w>>, NoWord)
BY ReferenceAssumption DEF JiraKey

LEMMA HintsIs ==
  ASSUME NEW u \in URLRefs \cup BareRefs, Hints(u) # <<>>
  PROVE  \E k \in IssueKeys : Hints(u) = <<k>>
<1> DEFINE at == {i \in 2..Len(u.path) : u.path[i - 1] = "issues" /\ u.path[i] \in IssueKeys}
<1>1. CASE u.issue \in IssueKeys
  BY <1>1 DEF Hints
<1>2. CASE u.issue \notin IssueKeys
  <2>1. at # {} /\ Hints(u) = <<u.path[Min(at)]>>
    BY <1>2 DEF Hints
  <2>2. at \in SUBSET (2..Len(u.path))
    OBVIOUS
  <2>3. Min(at) \in at
    <3> HIDE DEF at
    <3> QED BY <2>1, <2>2, Lengths, Places
  <2> QED BY <2>1, <2>3
<1> QED BY <1>1, <1>2

LEMMA JiraParsed ==
  ASSUME NEW u \in URLRefs \cup BareRefs, ParseJira(u) # Unresolved
  PROVE  \/ \E k \in IssueKeys : ParseJira(u) = Resource("jira_issue", u, <<k>>, NoWord)
         \/ \E k \in ProjectKeys : ParseJira(u) = Resource("jira_project", u, <<k>>, NoWord)
<1> DEFINE browsed == IF u.host = NoHost
                      THEN IF Len(u.path) = 1 THEN JiraKey(u, u.path[1]) ELSE Unresolved
                      ELSE IF Len(u.path) >= 2 /\ u.path[1] = "browse"
                           THEN JiraKey(u, u.path[2]) ELSE Unresolved
<1>1. CASE browsed # Unresolved
  <2>1. ParseJira(u) = browsed
    BY <1>1 DEF ParseJira
  <2>2. \E w : browsed = JiraKey(u, w)
    BY <1>1
  <2> HIDE DEF browsed
  <2> QED BY <1>1, <2>1, <2>2, JiraKeyIs
<1>2. CASE browsed = Unresolved
  <2>1. /\ ProjectsAt(u.path) # {}
        /\ ParseJira(u) = IF Hints(u) # <<>> THEN Resource("jira_issue", u, Hints(u), NoWord)
                          ELSE Resource("jira_project", u, <<u.path[Min(ProjectsAt(u.path))]>>, NoWord)
    BY <1>2 DEF ParseJira
  <2>2. CASE Hints(u) # <<>>
    BY <2>1, <2>2, HintsIs
  <2>3. CASE Hints(u) = <<>>
    <3>1. ProjectsAt(u.path) \in SUBSET (2..Len(u.path))
      BY DEF ProjectsAt
    <3>2. Min(ProjectsAt(u.path)) \in ProjectsAt(u.path)
      BY <2>1, <3>1, Lengths, Places
    <3>3. u.path[Min(ProjectsAt(u.path))] \in ProjectKeys
      BY <3>2 DEF ProjectsAt
    <3> QED BY <2>1, <2>3, <3>3
  <2> QED BY <2>2, <2>3
<1> QED BY <1>1, <1>2

LEMMA JiraBrowsed ==
  ASSUME NEW k \in IssueKeys \cup ProjectKeys, NEW h, h # NoHost, NEW url,
         url = [host |-> h, path |-> <<"browse", k>>, issue |-> NoWord]
  PROVE  ParseJira(url) = Resource(IF k \in IssueKeys THEN "jira_issue" ELSE "jira_project",
                                   url, <<k>>, NoWord)
<1>1. JiraKey(url, k) = Resource(IF k \in IssueKeys THEN "jira_issue" ELSE "jira_project",
                                 url, <<k>>, NoWord)
  BY ReferenceAssumption DEF JiraKey
<1>2. JiraKey(url, k) # Unresolved
  BY <1>1 DEF Resource, Unresolved
<1>3. Len(url.path) >= 2 /\ url.path[1] = "browse" /\ url.path[2] = k /\ url.host # NoHost
  OBVIOUS
<1> QED BY <1>1, <1>2, <1>3 DEF ParseJira

\* What a reference without a host is browsed at is the site of the profile; a URL's own
\* host otherwise. Either way that is base.
LEMMA Based ==
  ASSUME NEW p \in Product, NEW u \in URLRefs \cup BareRefs, NEW base \in Bases(p, u),
         NEW r, r.host = u.host
  PROVE  /\ BrowseBaseURL(base, r) = base
         /\ base.host \in SiteHosts /\ base.host # NoHost
         /\ p = "jira" \/ u.host # NoHost => base.path = <<>>
<1>1. CASE u.host = NoHost
  BY <1>1, ReferenceAssumption DEF Bases, Sites, BrowseBaseURL
<1>2. CASE u.host # NoHost
  <2>1. u \in URLRefs
    BY <1>2 DEF BareRefs
  <2>2. base = [host |-> u.host, path |-> <<>>]
    BY <1>2 DEF Bases
  <2> QED BY <1>2, <2>1, <2>2 DEF URLRefs, BrowseBaseURL
<1> QED BY <1>1, <1>2

LEMMA NoneBefore == ASSUME NEW a, NEW b, NEW c, NEW d
  PROVE  /\ Joined(<<>>, <<a, b>>, <<a, b>>)
         /\ Joined(<<>>, <<a, b, c, d>>, <<a, b, c, d>>)
         /\ Append(<<>>, a) = <<a>>
BY DEF Joined

\* The canonical URL, by its path.
LEMMA CanonicalIs ==
  ASSUME NEW p, NEW base, NEW r, NEW h, NEW start, NEW item, NEW path,
         Root(p, BrowseBaseURL(base, r)) = [host |-> h, path |-> start], item = ItemPath(r),
         Joined(start, item, path)
  PROVE  CanonicalURL(p, base, r) = [host |-> h, path |-> path, issue |-> NoWord]
<1> DEFINE root == Root(p, BrowseBaseURL(base, r))
<1>1. CanonicalURL(p, base, r) = [host |-> root.host, path |-> root.path \o ItemPath(r), issue |-> NoWord]
  BY Zenon DEF CanonicalURL
<1>2. root.host = h /\ root.path = start
  OBVIOUS
<1> HIDE DEF root
<1>3. root.path \o ItemPath(r) = path
  BY <1>2, Zenon DEF Joined
<1> QED BY <1>1, <1>2, <1>3, Zenon

LEMMA JiraRoundTrips == RoundTrips("jira")
<1> SUFFICES ASSUME NEW u \in URLRefs \cup BareRefs, ParseJira(u) # Unresolved,
                    NEW base \in Bases("jira", u)
             PROVE  LET url == CanonicalURL("jira", base, ParseJira(u))
                    IN  /\ url.host = base.host
                        /\ ParseJira(url) = [ParseJira(u) EXCEPT !.host = url.host]
  BY Zenon DEF RoundTrips, Parse
<1>1. PICK k \in IssueKeys \cup ProjectKeys :
        ParseJira(u) = Resource(IF k \in IssueKeys THEN "jira_issue" ELSE "jira_project",
                                u, <<k>>, NoWord)
  BY JiraParsed, ReferenceAssumption
<1> DEFINE r == ParseJira(u)
           url == CanonicalURL("jira", base, r)
<1>2. r.host = u.host /\ r.kind \in {"jira_issue", "jira_project"} /\ r.key = <<k>>
  BY <1>1 DEF Resource
<1>3. base.host \in SiteHosts /\ base.host # NoHost /\ base.path = <<>> /\ BrowseBaseURL(base, r) = base
  BY <1>2, Based DEF Product
<1>4. ItemPath(r) = <<"browse", k>>
  <2>1. ItemPath(r) = <<"browse">> \o r.key
    BY <1>2 DEF ItemPath
  <2>2. Joined(<<"browse">>, <<k>>, <<"browse", k>>)
    BY Written, Zenon
  <2> QED BY <1>2, <2>1, <2>2, Zenon DEF Joined
<1>5. url = [host |-> base.host, path |-> <<"browse", k>>, issue |-> NoWord]
  <2>1. base = [host |-> base.host, path |-> base.path]
    BY DEF Bases, Sites
  <2>2. Root("jira", BrowseBaseURL(base, r)) = [host |-> base.host, path |-> <<>>]
    BY <1>3, <2>1 DEF Root
  <2>3. Joined(<<>>, <<"browse", k>>, <<"browse", k>>)
    BY NoneBefore, Zenon
  <2> QED BY <1>4, <2>2, <2>3, CanonicalIs
<1>6. ParseJira(url) = Resource(IF k \in IssueKeys THEN "jira_issue" ELSE "jira_project",
                                url, <<k>>, NoWord)
  BY <1>3, <1>5, JiraBrowsed
<1>7. [r EXCEPT !.host = url.host]
        = Resource(IF k \in IssueKeys THEN "jira_issue" ELSE "jira_project", url, <<k>>, NoWord)
  BY <1>1 DEF Resource
<1> QED BY <1>5, <1>6, <1>7

-----------------------------------------------------------------------------
\* Where the first key of a space stands in a path.
LEMMA FirstSpace ==
  ASSUME NEW u \in URLRefs \cup BareRefs, SpacesAt(u.path) # {}
  PROVE  Min(SpacesAt(u.path)) \in SpacesAt(u.path)
<1>1. SpacesAt(u.path) \in SUBSET (2..Len(u.path))
  BY DEF SpacesAt
<1> QED BY <1>1, Lengths, Places

LEMMA ConfluenceParsed ==
  ASSUME NEW u \in URLRefs \cup BareRefs, ParseConfluence(u) # Unresolved,
         ~(ParseConfluence(u).kind = "confluence_page" /\ ParseConfluence(u).key = <<>>)
  PROVE  /\ u.host # NoHost
         /\ \E s \in SpaceKeys \ {"pages", "overview"} :
              \/ \E d \in Digits : ParseConfluence(u) = Resource("confluence_page", u, <<s>>, d)
              \/ ParseConfluence(u) = Resource("confluence_space", u, <<s>>, NoWord)
<1>1. ASSUME u.host = NoHost, Len(u.path) = 1, u.path[1] \in Digits
      PROVE  ParseConfluence(u) = Resource("confluence_page", u, <<>>, u.path[1])
  BY <1>1 DEF ParseConfluence
<1>2. u.host # NoHost /\ SpacesAt(u.path) # {}
  BY <1>1 DEF ParseConfluence, Resource
<1> DEFINE i == Min(SpacesAt(u.path))
           rest == After(u.path, i)
<1>3. i \in SpacesAt(u.path)
  BY <1>2, FirstSpace
<1>4. u.path[i] \in SpaceKeys \ {"pages", "overview"}
  BY <1>3 DEF SpacesAt
<1>5. ParseConfluence(u) = IF IsPage(rest) THEN Resource("confluence_page", u, <<u.path[i]>>, rest[2])
                           ELSE Resource("confluence_space", u, <<u.path[i]>>, NoWord)
  BY <1>2 DEF ParseConfluence
<1>6. IsPage(rest) => rest[2] \in Digits
  BY DEF IsPage
<1> HIDE DEF i, rest
<1> QED BY <1>2, <1>4, <1>5, <1>6

\* The canonical paths have one key of a space, at its place.
LEMMA OneSpace ==
  ASSUME NEW s \in SpaceKeys \ {"pages", "overview"}, NEW d
  PROVE  /\ SpacesAt(<<"wiki", "spaces", s>>) = {3}
         /\ After(<<"wiki", "spaces", s>>, 3) = <<>>
         /\ d \in Digits => SpacesAt(<<"wiki", "spaces", s, "pages", d>>) = {3}
         /\ After(<<"wiki", "spaces", s, "pages", d>>, 3) = <<"pages", d>>
<1> DEFINE p == <<"wiki", "spaces", s>>
           q == <<"wiki", "spaces", s, "pages", d>>
<1>1. After(p, 3) = <<>>
  BY SubSeqEmpty DEF After
<1>2. After(q, 3) = <<"pages", d>>
  <2> DEFINE w == <<"pages", d>>
             v == SubSeq(q, 4, 5)
             S == {"pages", d}
  <2>1. Len(w) = 2 /\ w \in Seq(S) /\ w[1] = q[4] /\ w[2] = q[5]
    OBVIOUS
  <2>2. \A i \in 4..5 : q[i] \in S
    OBVIOUS
  <2>3. Len(q) = 5
    OBVIOUS
  <2> HIDE DEF q, w, S
  <2>4. v \in Seq(S) /\ Len(v) = 2 /\ \A i \in 1..2 : v[i] = q[4 + i - 1]
    BY <2>2, SubSeqProperties
  <2>5. v[1] = q[4] /\ v[2] = q[5]
    BY <2>4
  <2>6. \A i \in 1..2 : v[i] = w[i]
    BY <2>1, <2>5
  <2> HIDE DEF v
  <2>7. v = w
    BY <2>1, <2>4, <2>6, SeqEqual
  <2> QED BY <2>3, <2>7 DEF After, v, w
<1>3. /\ Len(p) = 3 /\ p[1] = "wiki" /\ p[2] = "spaces" /\ p[3] = s
      /\ Len(q) = 5 /\ q[1] = "wiki" /\ q[2] = "spaces" /\ q[3] = s /\ q[4] = "pages" /\ q[5] = d
  OBVIOUS
<1> HIDE DEF p, q
<1>4. IsSpace(After(p, 3))
  BY <1>1 DEF IsSpace
<1>5. d \in Digits => IsPage(After(q, 3))
  BY <1>2 DEF IsPage
<1>6. SpacesAt(p) = {3}
  <2>1. 3 \in SpacesAt(p)
    BY <1>3, <1>4 DEF SpacesAt
  <2>2. \A i \in SpacesAt(p) : i = 3
    BY <1>3 DEF SpacesAt
  <2> QED BY <2>1, <2>2
<1>7. ASSUME d \in Digits PROVE SpacesAt(q) = {3}
  <2>1. 3 \in SpacesAt(q)
    BY <1>3, <1>5, <1>7 DEF SpacesAt
  <2>2. \A i \in SpacesAt(q) : i \in 2..5 /\ q[i - 1] = "spaces" /\ q[i] # "pages"
    BY <1>3 DEF SpacesAt
  <2>3. \A i \in 2..5 : i = 2 \/ i = 3 \/ i = 4 \/ i = 5
    OBVIOUS
  <2>4. \A i \in SpacesAt(q) : i = 3
    BY <1>3, <2>2, <2>3
  <2> QED BY <2>1, <2>4
<1> QED BY <1>1, <1>2, <1>6, <1>7 DEF p, q

LEMMA MinOne == Min({3}) = 3
<1>1. Min({3}) \in {3}
  BY Least
<1> QED BY <1>1

LEMMA ConfluenceBrowsed ==
  ASSUME NEW s \in SpaceKeys \ {"pages", "overview"}, NEW d, NEW h, h # NoHost, NEW url
  PROVE  /\ url = [host |-> h, path |-> <<"wiki", "spaces", s>>, issue |-> NoWord] =>
              ParseConfluence(url) = Resource("confluence_space", url, <<s>>, NoWord)
         /\ d \in Digits
              /\ url = [host |-> h, path |-> <<"wiki", "spaces", s, "pages", d>>, issue |-> NoWord] =>
                ParseConfluence(url) = Resource("confluence_page", url, <<s>>, d)
<1>1. ASSUME url = [host |-> h, path |-> <<"wiki", "spaces", s>>, issue |-> NoWord]
      PROVE  ParseConfluence(url) = Resource("confluence_space", url, <<s>>, NoWord)
  <2>1. url.host # NoHost /\ SpacesAt(url.path) = {3} /\ After(url.path, 3) = <<>> /\ url.path[3] = s
    BY <1>1, OneSpace
  <2>2. ~IsPage(<<>>)
    BY DEF IsPage
  <2> QED BY <2>1, <2>2, MinOne DEF ParseConfluence
<1>2. ASSUME d \in Digits,
             url = [host |-> h, path |-> <<"wiki", "spaces", s, "pages", d>>, issue |-> NoWord]
      PROVE  ParseConfluence(url) = Resource("confluence_page", url, <<s>>, d)
  <2>1. /\ url.host # NoHost /\ SpacesAt(url.path) = {3} /\ After(url.path, 3) = <<"pages", d>>
        /\ url.path[3] = s
    BY <1>2, OneSpace
  <2>2. IsPage(<<"pages", d>>) /\ <<"pages", d>>[2] = d
    BY <1>2 DEF IsPage
  <2> QED BY <2>1, <2>2, MinOne DEF ParseConfluence
<1> QED BY <1>1, <1>2

LEMMA ConfluenceRoundTrips == RoundTrips("confluence")
<1> SUFFICES ASSUME NEW u \in URLRefs \cup BareRefs, ParseConfluence(u) # Unresolved,
                    ~(ParseConfluence(u).kind = "confluence_page" /\ ParseConfluence(u).key = <<>>),
                    NEW base \in Bases("confluence", u)
             PROVE  LET url == CanonicalURL("confluence", base, ParseConfluence(u))
                    IN  /\ url.host = base.host
                        /\ ParseConfluence(url) = [ParseConfluence(u) EXCEPT !.host = url.host]
  BY Zenon DEF RoundTrips, Parse
<1> DEFINE r == ParseConfluence(u)
           url == CanonicalURL("confluence", base, r)
<1>1. PICK s \in SpaceKeys \ {"pages", "overview"} :
        \/ \E d \in Digits : r = Resource("confluence_page", u, <<s>>, d)
        \/ r = Resource("confluence_space", u, <<s>>, NoWord)
  BY ConfluenceParsed
<1>2. r.host = u.host /\ u.host # NoHost
  BY <1>1, ConfluenceParsed DEF Resource
<1> HIDE DEF r
<1>3. base.host # NoHost /\ base.path = <<>> /\ BrowseBaseURL(base, r) = base
  BY <1>2, Based DEF Product
<1>4. base = [host |-> base.host, path |-> base.path]
  BY <1>2 DEF Bases
<1>5. Root("confluence", base) = [host |-> base.host, path |-> <<"wiki">>]
  <2>1. Root("confluence", base) = [base EXCEPT !.path = Append(@, "wiki")]
    BY <1>3 DEF Root
  <2> QED BY <1>3, <1>4, <2>1, NoneBefore
<1>6. \A item, path : item = ItemPath(r) /\ Joined(<<"wiki">>, item, path) =>
        url = [host |-> base.host, path |-> path, issue |-> NoWord]
  BY <1>3, <1>5, CanonicalIs
<1>7. CASE r = Resource("confluence_space", u, <<s>>, NoWord)
  <2>1. ItemPath(r) = <<"spaces", s>>
    <3>1. r.kind = "confluence_space" /\ r.key = <<s>>
      BY <1>7 DEF Resource
    <3>2. ItemPath(r) = <<"spaces">> \o r.key
      BY <3>1 DEF ItemPath
    <3>3. Joined(<<"spaces">>, <<s>>, <<"spaces", s>>)
      BY Written, Zenon
    <3> QED BY <3>1, <3>2, <3>3, Zenon DEF Joined
  <2>2. url = [host |-> base.host, path |-> <<"wiki", "spaces", s>>, issue |-> NoWord]
    <3>1. Joined(<<"wiki">>, <<"spaces", s>>, <<"wiki", "spaces", s>>)
      BY Written, Zenon
    <3> QED BY <1>6, <2>1, <3>1
  <2>3. ParseConfluence(url) = Resource("confluence_space", url, <<s>>, NoWord)
    BY <1>3, <2>2, ConfluenceBrowsed
  <2>4. [r EXCEPT !.host = url.host] = Resource("confluence_space", url, <<s>>, NoWord)
    BY <1>7 DEF Resource
  <2> QED BY <2>2, <2>3, <2>4 DEF r
<1>8. CASE \E d \in Digits : r = Resource("confluence_page", u, <<s>>, d)
  <2> PICK d \in Digits : r = Resource("confluence_page", u, <<s>>, d)
    BY <1>8
  <2>1. r.kind = "confluence_page" /\ r.key = <<s>> /\ r.id = d
    BY DEF Resource
  <2>2. ItemPath(r) = <<"spaces">> \o r.key \o <<"pages", r.id>>
    <3>1. r.kind = "confluence_page" /\ r.key # <<>>
      <4>1. <<s>> # <<>>
        OBVIOUS
      <4> QED BY <2>1, <4>1
    <3> QED BY <3>1 DEF ItemPath
  <2>3. ItemPath(r) = <<"spaces", s, "pages", d>>
    <3>1. Joined(<<"spaces">>, <<s>>, <<"spaces", s>>)
          /\ Joined(<<"spaces", s>>, <<"pages", d>>, <<"spaces", s, "pages", d>>)
      BY Written, Zenon
    <3> QED BY <2>1, <2>2, <3>1, Zenon DEF Joined
  <2>4. url = [host |-> base.host, path |-> <<"wiki", "spaces", s, "pages", d>>, issue |-> NoWord]
    <3>1. Joined(<<"wiki">>, <<"spaces", s, "pages", d>>, <<"wiki", "spaces", s, "pages", d>>)
      BY Written, Zenon
    <3> QED BY <1>6, <2>3, <3>1
  <2>5. ParseConfluence(url) = Resource("confluence_page", url, <<s>>, d)
    BY <1>3, <2>4, ConfluenceBrowsed
  <2>6. [r EXCEPT !.host = url.host] = Resource("confluence_page", url, <<s>>, d)
    BY DEF Resource
  <2> QED BY <2>4, <2>5, <2>6 DEF r
<1> QED BY <1>1, <1>7, <1>8

-----------------------------------------------------------------------------
\* What a path resolves to at Bitbucket, as far as its first two words are a repository.
LEMMA BitbucketParsed ==
  ASSUME NEW u \in URLRefs \cup BareRefs, ParseBitbucket(u) # Unresolved
  PROVE  \E w \in Slugs, n \in Slugs :
           \/ ParseBitbucket(u) = Resource("bitbucket_repository", u, <<w, n>>, NoWord)
           \/ \E d \in Digits : ParseBitbucket(u) = Resource("bitbucket_pull_request", u, <<w, n>>, d)
           \/ \E c : ParseBitbucket(u) = Resource("bitbucket_commit", u, <<w, n>>, c)
<1>1. u.path[1] \in Slugs /\ u.path[2] \in Slugs
  BY DEF ParseBitbucket
<1> DEFINE w == u.path[1]
           n == u.path[2]
<1>2. \/ ParseBitbucket(u) = Resource("bitbucket_repository", u, <<w, n>>, NoWord)
      \/ \E d \in Digits : ParseBitbucket(u) = Resource("bitbucket_pull_request", u, <<w, n>>, d)
      \/ \E c : ParseBitbucket(u) = Resource("bitbucket_commit", u, <<w, n>>, c)
  BY DEF ParseBitbucket
<1> HIDE DEF w, n
<1>3. w \in Slugs /\ n \in Slugs
  BY <1>1 DEF w, n
<1> QED BY <1>2, <1>3

LEMMA BitbucketBrowsed ==
  ASSUME NEW w \in Slugs, NEW n \in Slugs, NEW h, h # NoHost, NEW url, NEW id
  PROVE  /\ url = [host |-> h, path |-> <<w, n>>, issue |-> NoWord] =>
              ParseBitbucket(url) = Resource("bitbucket_repository", url, <<w, n>>, NoWord)
         /\ id \in Digits
              /\ url = [host |-> h, path |-> <<w, n, "pull-requests", id>>, issue |-> NoWord] =>
                ParseBitbucket(url) = Resource("bitbucket_pull_request", url, <<w, n>>, id)
         /\ url = [host |-> h, path |-> <<w, n, "commits", id>>, issue |-> NoWord] =>
              ParseBitbucket(url) = Resource("bitbucket_commit", url, <<w, n>>, id)
<1>1. ASSUME url = [host |-> h, path |-> <<w, n>>, issue |-> NoWord]
      PROVE  ParseBitbucket(url) = Resource("bitbucket_repository", url, <<w, n>>, NoWord)
  <2>1. Len(url.path) = 2 /\ url.path[1] = w /\ url.path[2] = n
    BY <1>1
  <2> QED BY <2>1 DEF ParseBitbucket
<1>2. ASSUME id \in Digits,
             url = [host |-> h, path |-> <<w, n, "pull-requests", id>>, issue |-> NoWord]
      PROVE  ParseBitbucket(url) = Resource("bitbucket_pull_request", url, <<w, n>>, id)
  <2>1. /\ Len(url.path) = 4 /\ url.path[1] = w /\ url.path[2] = n
        /\ url.path[3] = "pull-requests" /\ url.path[4] = id /\ url.host # NoHost
    BY <1>2
  <2> QED BY <1>2, <2>1 DEF ParseBitbucket
<1>3. ASSUME url = [host |-> h, path |-> <<w, n, "commits", id>>, issue |-> NoWord]
      PROVE  ParseBitbucket(url) = Resource("bitbucket_commit", url, <<w, n>>, id)
  <2>1. /\ Len(url.path) = 4 /\ url.path[1] = w /\ url.path[2] = n
        /\ url.path[3] = "commits" /\ url.path[4] = id /\ url.host # NoHost
    BY <1>3
  <2> QED BY <2>1 DEF ParseBitbucket
<1> QED BY <1>1, <1>2, <1>3

LEMMA BitbucketRoundTrips == RoundTrips("bitbucket")
<1> SUFFICES ASSUME NEW u \in URLRefs \cup BareRefs, ParseBitbucket(u) # Unresolved,
                    NEW base \in Bases("bitbucket", u)
             PROVE  LET url == CanonicalURL("bitbucket", base, ParseBitbucket(u))
                    IN  /\ url.host \in {base.host, "bitbucket.org"}
                        /\ url.host # base.host => base.host = "api.bitbucket.org"
                        /\ ParseBitbucket(url) = [ParseBitbucket(u) EXCEPT !.host = url.host]
  BY Zenon DEF RoundTrips, Parse
<1> DEFINE r == ParseBitbucket(u)
           url == CanonicalURL("bitbucket", base, r)
           h == IF base.host = "api.bitbucket.org" THEN "bitbucket.org" ELSE base.host
<1>1. PICK w \in Slugs, n \in Slugs :
        \/ r = Resource("bitbucket_repository", u, <<w, n>>, NoWord)
        \/ \E d \in Digits : r = Resource("bitbucket_pull_request", u, <<w, n>>, d)
        \/ \E c : r = Resource("bitbucket_commit", u, <<w, n>>, c)
  BY BitbucketParsed
<1> HIDE DEF r
<1>2. r.host = u.host
  BY <1>1 DEF Resource
<1>3. base.host # NoHost /\ BrowseBaseURL(base, r) = base
  BY <1>2, Based DEF Product
<1>4. Root("bitbucket", base) = [host |-> h, path |-> <<>>]
  BY DEF Root
<1>5. \A item, path : item = ItemPath(r) /\ Joined(<<>>, item, path) =>
        url = [host |-> h, path |-> path, issue |-> NoWord]
  BY <1>3, <1>4, CanonicalIs
<1>6. h # NoHost /\ h \in {base.host, "bitbucket.org"} /\ (h # base.host => base.host = "api.bitbucket.org")
  BY <1>3 DEF NoHost
<1> HIDE DEF h
<1>7. CASE r = Resource("bitbucket_repository", u, <<w, n>>, NoWord)
  <2>1. ItemPath(r) = <<w, n>>
    BY <1>7 DEF ItemPath, Resource
  <2>2. url = [host |-> h, path |-> <<w, n>>, issue |-> NoWord]
    <3>1. Joined(<<>>, <<w, n>>, <<w, n>>)
      BY NoneBefore, Zenon
    <3> QED BY <1>5, <2>1, <3>1
  <2>3. ParseBitbucket(url) = Resource("bitbucket_repository", url, <<w, n>>, NoWord)
    BY <1>6, <2>2, BitbucketBrowsed
  <2>4. [r EXCEPT !.host = url.host] = Resource("bitbucket_repository", url, <<w, n>>, NoWord)
    BY <1>7 DEF Resource
  <2> QED BY <1>6, <2>2, <2>3, <2>4 DEF r
<1>8. CASE \E d \in Digits : r = Resource("bitbucket_pull_request", u, <<w, n>>, d)
  <2> PICK d \in Digits : r = Resource("bitbucket_pull_request", u, <<w, n>>, d)
    BY <1>8
  <2>1. r.kind = "bitbucket_pull_request" /\ r.key = <<w, n>> /\ r.id = d
    BY DEF Resource
  <2>2. ItemPath(r) = <<w, n, "pull-requests", d>>
    <3>1. ItemPath(r) = r.key \o <<"pull-requests", r.id>>
      BY <2>1 DEF ItemPath
    <3>2. Joined(<<w, n>>, <<"pull-requests", d>>, <<w, n, "pull-requests", d>>)
      BY Written, Zenon
    <3> QED BY <2>1, <3>1, <3>2, Zenon DEF Joined
  <2>3. url = [host |-> h, path |-> <<w, n, "pull-requests", d>>, issue |-> NoWord]
    <3>1. Joined(<<>>, <<w, n, "pull-requests", d>>, <<w, n, "pull-requests", d>>)
      BY NoneBefore, Zenon
    <3> QED BY <1>5, <2>2, <3>1
  <2>4. ParseBitbucket(url) = Resource("bitbucket_pull_request", url, <<w, n>>, d)
    BY <1>6, <2>3, BitbucketBrowsed
  <2>5. [r EXCEPT !.host = url.host] = Resource("bitbucket_pull_request", url, <<w, n>>, d)
    BY DEF Resource
  <2> QED BY <1>6, <2>3, <2>4, <2>5 DEF r
<1>9. CASE \E c : r = Resource("bitbucket_commit", u, <<w, n>>, c)
  <2> PICK c : r = Resource("bitbucket_commit", u, <<w, n>>, c)
    BY <1>9
  <2>1. r.kind = "bitbucket_commit" /\ r.key = <<w, n>> /\ r.id = c
    BY DEF Resource
  <2>2. ItemPath(r) = <<w, n, "commits", c>>
    <3>1. ItemPath(r) = r.key \o <<"commits", r.id>>
      BY <2>1 DEF ItemPath
    <3>2. Joined(<<w, n>>, <<"commits", c>>, <<w, n, "commits", c>>)
      BY Written, Zenon
    <3> QED BY <2>1, <3>1, <3>2, Zenon DEF Joined
  <2>3. url = [host |-> h, path |-> <<w, n, "commits", c>>, issue |-> NoWord]
    <3>1. Joined(<<>>, <<w, n, "commits", c>>, <<w, n, "commits", c>>)
      BY NoneBefore, Zenon
    <3> QED BY <1>5, <2>2, <3>1
  <2>4. ParseBitbucket(url) = Resource("bitbucket_commit", url, <<w, n>>, c)
    BY <1>6, <2>3, BitbucketBrowsed
  <2>5. [r EXCEPT !.host = url.host] = Resource("bitbucket_commit", url, <<w, n>>, c)
    BY DEF Resource
  <2> QED BY <1>6, <2>3, <2>4, <2>5 DEF r
<1> QED BY <1>1, <1>7, <1>8, <1>9

\* The URL that a reference is browsed at resolves to what was referred to, of every
\* product (cli/browse.go, resolve/resolve.go).
THEOREM BrowsingReturns == \A p \in Product : RoundTrips(p)
BY JiraRoundTrips, ConfluenceRoundTrips, BitbucketRoundTrips DEF Product

\* Whatever else a run does, it acts on the repository it was told, or on the first remote.
THEOREM RightTargets == Spec => []RightTarget
<1>1. Inv => RightTarget
  BY ActsAsTold, InfersTheFirst DEF RightTarget
<1> QED
  BY <1>1, Invariance, PTL

\* What a run browses is what it was referred to.
THEOREM BrowsesTheSame == Spec => []BrowsesSame
<1>1. Inv => BrowsesSame
  BY BrowsingReturns DEF Inv, GivenInv, BrowsesSame
<1> QED
  BY <1>1, Invariance, PTL

=============================================================================
