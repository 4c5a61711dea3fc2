------------------------------ MODULE RepoTarget ------------------------------
(***************************************************************************)
(* Which repository, or workspace, a command of atl-bb acts on: argument,  *)
(* --repo, --workspace and the git checkout (internal/bbcmd, internal/git).*)
(*                                                                         *)
(* A text is split at its slashes; a part is a slug, or EmptyPart when     *)
(* there are but spaces. Case, and the ".git" a slug may end in, are left  *)
(* out; a part that is no more than ".git" is DotGit.                      *)
(*                                                                         *)
(* Definitions with a name ending in Bug are wrong variants of the one     *)
(* below them, each with a plausible mistake.                              *)
(***************************************************************************)
EXTENDS Integers, Sequences, FiniteSetsExt, Functions

CONSTANTS
  EmptyPart, DotGit,
  NoTarget,        \* apperr.InvalidInput, or nothing to infer
  Texts,           \* what arguments and flags may be, each a sequence of parts
  BitbucketHosts,  \* bitbucket.org, ssh.bitbucket.org, altssh.bitbucket.org
  Checkouts        \* what git may answer

\* strings.Fields gives no empty name, and git takes no remote that is named ".".
ASSUME RepoAssumption ==
  /\ EmptyPart # DotGit
  /\ \A t \in Texts : t \in Seq(Range(t))
  /\ \A c \in Checkouts : /\ c.remotes \in Seq(Range(c.remotes))
                         /\ {"", "."} \cap Range(c.remotes) = {}

Void == <<EmptyPart>>

-----------------------------------------------------------------------------
(* The checkout: the upstream of its branch, its remotes in git's order, their *)
(* URLs. What git fails to tell is "" or an empty list. *)

DetectRemoteName(c) ==
  IF c.upstream \notin {"", "."} THEN c.upstream
  ELSE IF "origin" \in Range(c.remotes) THEN "origin"
  ELSE IF c.remotes # <<>> THEN c.remotes[1] ELSE ""

\* strings.Trim(path, "/"), and DotGit dropped at the end
RepoPath(path) ==
  LET solid == {i \in DOMAIN path : path[i] # EmptyPart}
      trimmed == IF solid = {} THEN Void ELSE SubSeq(path, Min(solid), Max(solid))
  IN [i \in DOMAIN trimmed |->
        IF i = Len(trimmed) /\ trimmed[i] = DotGit THEN EmptyPart ELSE trimmed[i]]

\* ParseRemoteURL, remoteFromParts: a URL or the scp form with a user; two parts
\* are taken, others ignored.
ParseRemoteURL(u) ==
  LET p == RepoPath(u.path)
  IN IF u.form \in {"url", "scp"} /\ u.host # "" /\ Len(p) >= 2 /\ EmptyPart \notin {p[1], p[2]}
     THEN [workspace |-> <<p[1]>>, repo |-> p[2]] ELSE NoTarget

InferBitbucketRepo(c) ==
  LET remote == DetectRemoteName(c)
  IN IF remote \in Range(c.remotes) /\ c.url[remote].host \in BitbucketHosts
     THEN ParseRemoteURL(c.url[remote]) ELSE NoTarget

-----------------------------------------------------------------------------
(* What was typed. inferred is what the checkout gives. *)

\* Mistake: a qualified target is not compared with --workspace.
QualifiedBug(raw, workspaceFlag) == Len(raw) = 2 /\ EmptyPart \notin Range(raw)

\* <workspace>/<repo>, and no other --workspace
Qualified(raw, workspaceFlag) ==
  /\ Len(raw) = 2 /\ EmptyPart \notin Range(raw)
  /\ workspaceFlag \in {Void, <<raw[1]>>}

\* The argument goes before the flag.
Said(args, flag) == IF args # <<>> THEN args[1] ELSE flag

ResolveRepoTarget(args, repoFlag, workspaceFlag, inferred) ==
  LET raw == Said(args, repoFlag)
  IN CASE raw = Void -> IF workspaceFlag = Void THEN inferred ELSE NoTarget
       [] raw # Void /\ Len(raw) = 1 ->
            IF workspaceFlag # Void THEN [workspace |-> workspaceFlag, repo |-> raw[1]]
            ELSE NoTarget
       [] OTHER ->
            IF Qualified(raw, workspaceFlag)
            THEN [workspace |-> <<raw[1]>>, repo |-> raw[2]] ELSE NoTarget

ResolveWorkspace(args, workspaceFlag, inferred) ==
  LET ws == Said(args, workspaceFlag)
  IN CASE args # <<>> /\ Void \notin {args[1], workspaceFlag} /\ args[1] # workspaceFlag ->
            NoTarget
       [] ws = Void -> IF inferred # NoTarget THEN inferred.workspace ELSE NoTarget
       [] OTHER -> IF Len(ws) = 1 THEN ws ELSE NoTarget

-----------------------------------------------------------------------------
(* Properties, for all that can be typed in any checkout. *)

Typed == {<<>>} \cup {<<t>> : t \in Texts}
Inferences == {InferBitbucketRepo(c) : c \in Checkouts}

\* The checkout makes no difference to what is typed: with or without one the target
\* is the same.
Decided(args, repoFlag, workspaceFlag) ==
  \A i \in Inferences :
    /\ ResolveRepoTarget(args, repoFlag, workspaceFlag, i)
         = ResolveRepoTarget(args, repoFlag, workspaceFlag, NoTarget)
    /\ workspaceFlag # Void \/ args \notin {<<>>, <<Void>>} =>
         ResolveWorkspace(args, workspaceFlag, i) = ResolveWorkspace(args, workspaceFlag, NoTarget)

\* A command never acts on another repository or workspace than it was told: --workspace
\* holds, a qualified target holds, the argument goes before --repo, and once anything
\* is named the checkout is not asked. Excepted is an argument of nothing but spaces.
ActsOnTyped ==
  \A args \in Typed, repoFlag \in Texts, workspaceFlag \in Texts :
    args # <<Void>> =>
      LET said == Said(args, repoFlag)
          found == {ResolveRepoTarget(args, repoFlag, workspaceFlag, i) : i \in Inferences}
      IN /\ {said, workspaceFlag} # {Void} => Decided(args, repoFlag, workspaceFlag)
         /\ \A t \in found \ {NoTarget} :
              /\ workspaceFlag # Void => t.workspace = workspaceFlag
              /\ said # Void => t.repo = said[Len(said)]
              /\ Len(said) > 1 => said = t.workspace \o <<t.repo>>
         /\ \A i \in Inferences :
              LET w == ResolveWorkspace(args, workspaceFlag, i)
              IN /\ workspaceFlag # Void => w \in {workspaceFlag, NoTarget}
                 /\ args # <<>> => w \in {args[1], NoTarget}

\* The same with no exception (bbcmd.go 98-105, docs/command-contract.md 779-781).
\* False of a blank argument: no run checks it.
InfersOnlyUnnamed ==
  \A args \in Typed, repoFlag \in Texts, workspaceFlag \in Texts :
    {repoFlag, workspaceFlag} # {Void} => Decided(args, repoFlag, workspaceFlag)

\* What is inferred is the repository of the first of these that is a remote: the
\* upstream of the branch, origin, the first one; and it is inferred whenever that is
\* on Bitbucket, unless the branch has an upstream that is no remote (a URL).
InfersFirst ==
  \A c \in Checkouts :
    LET order == <<c.upstream, "origin">> \o c.remotes
        real  == {i \in DOMAIN order : order[i] \in Range(c.remotes)}
        t     == InferBitbucketRepo(c)
        first == c.url[order[Min(real)]]
    IN /\ t # NoTarget => real # {} /\ first.host \in BitbucketHosts /\ ParseRemoteURL(first) = t
       /\ real # {} /\ first.host \in BitbucketHosts
            /\ c.upstream \in Range(c.remotes) \cup {"", "."} => t = ParseRemoteURL(first)

=============================================================================
