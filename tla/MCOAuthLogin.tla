---------------------------- MODULE MCOAuthLogin ----------------------------
(* Small instances of OAuthLogin for TLC. *)
EXTENDS OAuthLogin

CONSTANTS r1, r2, idA, idB, meant, elsewhere

Runs2 == {r1, r2}
\* No site, one that fits or not, two of which one or both fit.
SiteA(h) == [id |-> idA, host |-> h]
SiteB(h) == [id |-> idB, host |-> h]
Lists == {<<>>, <<SiteA(elsewhere)>>, <<SiteB(meant)>>,
          <<SiteA(elsewhere), SiteB(meant)>>, <<SiteA(meant), SiteB(meant)>>}
\* The second login passes --cloud-id.
Overrides == [r \in Runs2 |-> IF r = r1 THEN None ELSE idA]
=============================================================================
