----------------------------- MODULE MCCommands -----------------------------
(* Small instances of Commands, RepoTarget and References for TLC. *)
EXTENDS CommandInput

CONSTANTS site, elsewhere, t1, t2, w1, w2

Origins == {Gateway, BitbucketHost, site, elsewhere}
Things == {t1, t2}

\* Nothing, bare and qualified targets, and what is none.
TextChoices ==
  {Void, <<w1>>, <<w2>>, <<w1, w2>>, <<w2, w1>>, <<w1, EmptyPart>>, <<EmptyPart, w1>>,
   <<w1, w2, w1>>}

Hosts == {"bitbucket.org", "altssh.bitbucket.org"}
URL(f, h, p) == [form |-> f, host |-> h, path |-> p]
Good == <<EmptyPart, w1, w2, EmptyPart>>
URLs ==
  {URL("url", "bitbucket.org", Good), URL("scp", "altssh.bitbucket.org", <<w2, w1, w2>>),
   URL("url", "github.com", Good), URL("other", "bitbucket.org", Good),
   URL("scp", "bitbucket.org", <<w1, DotGit>>), URL("url", "bitbucket.org", <<EmptyPart, w1>>)}

\* No remote, one, two with and without origin; upstreams local, real, removed.
CheckoutChoices ==
  [upstream : {"", ".", "origin", "fork", "gone"},
   remotes : {<<>>, <<"fork">>, <<"origin">>, <<"fork", "origin">>},
   url : [{"fork", "origin"} -> URLs]]

UpTo(n, S) == UNION {[1..k -> S] : k \in 0..n}
PathChoices ==
  UpTo(4, {"browse", "jira", "projects", "issues", "K-1", "KEY"})
  \cup {<<"jira", "b", "projects", "KEY", w, "K-1">> : w \in {"issues", "b"}}
  \cup UpTo(4, {"spaces", "pages", "overview", "KEY", "7"})
  \cup {<<"wiki">> \o p : p \in UpTo(4, {"spaces", "pages", "overview", "KEY", "7"})}
  \cup UpTo(4, {"b", "7", "pull-requests", "commits", "~%"})
Segments == UNION {{p[i] : i \in DOMAIN p} : p \in PathChoices}
SlugWords == Segments \ {"~%"}
WebHosts == {"api.bitbucket.org", "acme.example"}
=============================================================================
