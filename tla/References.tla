------------------------------ MODULE References ------------------------------
(***************************************************************************)
(* `resolve` and `browse`: what a key, an id or a URL refers to, and the   *)
(* URL it is browsed at (internal/resolve, internal/cli/browse.go).        *)
(*                                                                         *)
(* A reference is what was typed, cut into words: a bare one at its slash, *)
(* a URL into its host and the non-empty segments of its path. Only https  *)
(* and http URLs without a user are URLs. The words that paths are made of *)
(* stand for themselves; of all others the classes below are what counts.  *)
(* The title of a page, which is not used again, is left out.              *)
(*                                                                         *)
(* Definitions with a name ending in Bug are wrong variants of the one     *)
(* below them, each with a plausible mistake.                              *)
(***************************************************************************)
EXTENDS Integers, Sequences, FiniteSetsExt

CONSTANTS
  IssueKeys, ProjectKeys, Digits,  \* words that look like one
  Slugs, SpaceKeys,                \* words fit for a workspace or repository, for a space
  Words,                           \* all of them
  SiteHosts,                       \* hosts of URLs and profiles
  Paths                            \* bound: the paths of URLs

NoHost == ""
NoWord == ""

ASSUME ReferenceAssumption ==
  /\ IssueKeys \cup ProjectKeys \cup Digits \cup Slugs \cup SpaceKeys \subseteq Words
  /\ Digits \subseteq Slugs \cap SpaceKeys
  /\ IssueKeys \cap ProjectKeys = {}     \* jiraIssueKeyRe, jiraProjectKeyRe: only one has a hyphen
  /\ NoHost \notin SiteHosts
  /\ \A p \in Paths : p \in Seq(Words)

\* host, path and, for Jira, ?selectedIssue=
URLRefs == [host : SiteHosts, path : Paths, issue : {NoWord} \cup IssueKeys \cup ProjectKeys]
BareRefs == [host : {NoHost}, path : UNION {[1..n -> Words] : n \in 1..2}, issue : {NoWord}]

Resource(kind, u, key, id) == [kind |-> kind, host |-> u.host, key |-> key, id |-> id]
Unresolved == Resource("unresolved", [host |-> NoHost], <<>>, NoWord)

-----------------------------------------------------------------------------
(* Jira *)

\* A key on its own, bare or after browse.
JiraKey(u, word) ==
  CASE word \in IssueKeys   -> Resource("jira_issue", u, <<word>>, NoWord)
    [] word \in ProjectKeys -> Resource("jira_project", u, <<word>>, NoWord)
    [] OTHER                -> Unresolved

\* jiraIssueHint
Hints(u) ==
  IF u.issue \in IssueKeys THEN <<u.issue>>
  ELSE LET at == {i \in 2..Len(u.path) : u.path[i - 1] = "issues" /\ u.path[i] \in IssueKeys}
       IN IF at = {} THEN <<>> ELSE <<u.path[Min(at)]>>

\* The keys of /jira/.../projects/<KEY>
ProjectsAt(path) ==
  {i \in 2..Len(path) : /\ path[i - 1] = "projects" /\ path[i] \in ProjectKeys
                        /\ \E j \in 1..(i - 2) : path[j] = "jira"}

ParseJira(u) ==
  LET browsed == IF u.host = NoHost
                 THEN IF Len(u.path) = 1 THEN JiraKey(u, u.path[1]) ELSE Unresolved
                 ELSE IF Len(u.path) >= 2 /\ u.path[1] = "browse"
                      THEN JiraKey(u, u.path[2]) ELSE Unresolved
  IN CASE browsed # Unresolved -> browsed
       [] browsed = Unresolved /\ u.host # NoHost /\ ProjectsAt(u.path) # {} ->
            IF Hints(u) # <<>> THEN Resource("jira_issue", u, Hints(u), NoWord)
            ELSE Resource("jira_project", u, <<u.path[Min(ProjectsAt(u.path))]>>, NoWord)
       [] OTHER -> Unresolved

-----------------------------------------------------------------------------
(* Confluence *)

\* Where the key of a space stands, and what may follow it.
IsPage(rest)  == Len(rest) >= 2 /\ rest[1] = "pages" /\ rest[2] \in Digits
IsSpace(rest) == rest \in {<<>>, <<"overview">>}
After(path, i) == SubSeq(path, i + 1, Len(path))

SpacesAt(path) ==
  {i \in 2..Len(path) : /\ path[i - 1] = "spaces"
                        /\ path[i] \in SpaceKeys \ {"pages", "overview"}
                        /\ IsPage(After(path, i)) \/ IsSpace(After(path, i))}

ParseConfluence(u) ==
  CASE u.host = NoHost /\ Len(u.path) = 1 /\ u.path[1] \in Digits ->
         Resource("confluence_page", u, <<>>, u.path[1])
    [] u.host # NoHost /\ SpacesAt(u.path) # {} ->
         LET i    == Min(SpacesAt(u.path))
             rest == After(u.path, i)
         IN IF IsPage(rest) THEN Resource("confluence_page", u, <<u.path[i]>>, rest[2])
            ELSE Resource("confluence_space", u, <<u.path[i]>>, NoWord)
    [] OTHER -> Unresolved

-----------------------------------------------------------------------------
(* Bitbucket *)

ParseBitbucket(u) ==
  LET p == u.path
  IN IF Len(p) < 2 \/ ~({p[1], p[2]} \subseteq Slugs) THEN Unresolved
     ELSE CASE u.host # NoHost /\ Len(p) >= 4 /\ p[3] = "pull-requests" /\ p[4] \in Digits ->
                 Resource("bitbucket_pull_request", u, <<p[1], p[2]>>, p[4])
            [] u.host # NoHost /\ Len(p) >= 4 /\ p[3] = "commits" ->
                 Resource("bitbucket_commit", u, <<p[1], p[2]>>, p[4])
            [] OTHER -> Resource("bitbucket_repository", u, <<p[1], p[2]>>, NoWord)

-----------------------------------------------------------------------------
(* The canonical URL. base is that of the profile, for what is not a URL. *)

Parse(product, u) ==
  CASE product = "jira" -> ParseJira(u)
    [] product = "confluence" -> ParseConfluence(u)
    [] product = "bitbucket" -> ParseBitbucket(u)

\* browseBaseURL: https whatever the scheme was
BrowseBaseURL(base, r) == IF r.host # NoHost THEN [host |-> r.host, path |-> <<>>] ELSE base

\* confluenceWikiBase, bitbucketWebBase
Root(product, b) ==
  CASE product = "jira" -> b
    [] product = "confluence" ->
         IF b.path # <<>> /\ b.path[Len(b.path)] = "wiki" THEN b
         ELSE [b EXCEPT !.path = Append(@, "wiki")]
    [] product = "bitbucket" ->
         [host |-> IF b.host = "api.bitbucket.org" THEN "bitbucket.org" ELSE b.host, path |-> <<>>]

\* Mistake: the path of the REST API.
ItemPathBug(r) ==
  CASE r.kind \in {"jira_issue", "jira_project"} -> <<"browse">> \o r.key
    [] r.kind = "confluence_space" -> <<"spaces">> \o r.key
    [] r.kind = "confluence_page" -> <<"pages", r.id>>
    [] r.kind = "bitbucket_repository" -> r.key
    [] r.kind = "bitbucket_pull_request" -> r.key \o <<"pull-requests", r.id>>
    [] r.kind = "bitbucket_commit" -> r.key \o <<"commits", r.id>>

ItemPath(r) ==
  CASE r.kind \in {"jira_issue", "jira_project"} -> <<"browse">> \o r.key
    [] r.kind = "confluence_space" -> <<"spaces">> \o r.key
    [] r.kind = "confluence_page" ->
         IF r.key # <<>> THEN <<"spaces">> \o r.key \o <<"pages", r.id>>
         ELSE <<"pages", "viewpage.action">>   \* ?pageId=<id>
    [] r.kind = "bitbucket_repository" -> r.key
    [] r.kind = "bitbucket_pull_request" -> r.key \o <<"pull-requests", r.id>>
    [] r.kind = "bitbucket_commit" -> r.key \o <<"commits", r.id>>

CanonicalURL(product, base, r) ==
  LET root == Root(product, BrowseBaseURL(base, r))
  IN [host |-> root.host, path |-> root.path \o ItemPath(r), issue |-> NoWord]

\* Sites of profiles: Confluence's may have /wiki, Bitbucket's the API's host and path.
\* A Jira of a data center that is not at the root of its host is left out.
Sites(product) ==
  [host : SiteHosts, path : IF product = "jira" THEN {<<>>} ELSE {<<>>, <<"wiki">>}]
Bases(product, u) ==
  IF u.host = NoHost THEN Sites(product) ELSE {[host |-> u.host, path |-> <<>>]}

-----------------------------------------------------------------------------
(* Properties. *)

\* Browsing keeps what is referred to: the URL that a reference is browsed at resolves
\* to the same thing, on the web host of the site that the reference or the profile
\* names. Excepted is a bare page id, whose URL is the legacy one (confluence.go 80-82),
\* and a commit that a URL does not hold unescaped (bitbucket.go 97-101).
RoundTrips(product) ==
  \A u \in URLRefs \cup BareRefs :
    LET r == Parse(product, u)
    IN /\ r # Unresolved
       /\ ~(r.kind = "confluence_page" /\ r.key = <<>>)
       /\ r.kind = "bitbucket_commit" => r.id \in Slugs
       => \A base \in Bases(product, u) :
            LET url == CanonicalURL(product, base, r)
            IN /\ url.host \in {base.host, "bitbucket.org"}
               /\ url.host # base.host => base.host = "api.bitbucket.org"
               /\ Parse(product, url) = [r EXCEPT !.host = url.host]

=============================================================================
