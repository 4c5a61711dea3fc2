----------------------------- MODULE CommandInput -----------------------------
(***************************************************************************)
(* What a run of a command is pointed at: its repository or workspace, and *)
(* the reference it resolves or browses. Both are settled among the local  *)
(* checks, before any request, and from what was typed and the git         *)
(* checkout, or for browse the base URL of the profile.                    *)
(***************************************************************************)
EXTENDS Commands, RepoTarget, References

\* Nothing else of the profile matters: one stands for all.
OneProfile == profile = CHOOSE p \in Profile : TRUE

\* A run of atl-bb at the checks that settle its repository or workspace.
Choosing == pc = "check" /\ OneProfile /\ product = "bitbucket" /\ cmd.local = Targeting

\* resolve and browse send no request: one state of each product stands for all.
Resolving == pc = "check" /\ OneProfile /\ cmd = Status /\ projection = "none" /\ found = {}

\* No run acts on another repository than it was told, and what a run infers is the
\* first remote in the documented order (bbcmd.go 93-182, git.go 44-88).
RightTarget == Choosing => ActsOnTyped /\ InfersFirst

\* What is browsed is what was referred to, whatever the product (cli/browse.go,
\* resolve/resolve.go).
BrowsesSame == Resolving => RoundTrips(product)
=============================================================================
