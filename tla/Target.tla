------------------------------- MODULE Target -------------------------------
(***************************************************************************)
(* Where a request of a site profile may go and whether it can be signed   *)
(* (internal/httpclient, internal/auth). A URL is its origin, that is its  *)
(* scheme and host; paths are left out.                                    *)
(*                                                                         *)
(* Definitions with a name ending in Bug are wrong variants of the one     *)
(* below them, each with a plausible mistake.                              *)
(***************************************************************************)
EXTENDS Apperr

CONSTANTS
  Origin,         \* schemes and hosts
  Gateway,        \* https://api.atlassian.com
  BitbucketHost,  \* https://api.bitbucket.org
  Blank,          \* no base URL
  Relative,       \* a reference without scheme and host
  Malformed       \* a reference that does not parse

ASSUME TargetAssumption ==
  /\ {Gateway, BitbucketHost} \subseteq Origin
  /\ {Blank, Relative, Malformed} \cap Origin = {}
  /\ Relative # Malformed /\ Blank \notin {Relative, Malformed}
  /\ Category \cap (Origin \cup {Blank, Relative, Malformed}) = {}

Product == {"jira", "confluence", "bitbucket"}

Basic == {"cloud-classic", "cloud-scoped"}
ThroughGateway == {"cloud-scoped", "oauth-3lo"}
TokenStyle == Basic \cup ThroughGateway \cup {"data-center-pat"}

\* What a profile says, and whether there is a token for it. Only a hand edit gives a
\* profile another style or leaves out what its style needs.
Profile ==
  [style : TokenStyle \cup {"other"}, base : Origin \cup {Blank},
   cloudID : BOOLEAN, username : BOOLEAN, token : BOOLEAN]

Ref == Origin \cup {Relative, Malformed}

APIBase(product, p) ==
  CASE product = "bitbucket" -> IF p.base = Blank THEN BitbucketHost ELSE p.base
    [] product # "bitbucket" /\ p.style \in ThroughGateway ->
         IF p.cloudID THEN Gateway ELSE "invalid_input"
    [] OTHER ->
         IF p.style \in TokenStyle /\ p.base # Blank THEN p.base ELSE "invalid_input"

\* allowedOrigins
Allowed(product, p) == {APIBase(product, p), p.base} \cap Origin

\* Mistake: an absolute URL is taken as it is.
ResolveURLBug(product, p, ref) ==
  IF APIBase(product, p) \notin Origin \/ ref = Malformed THEN "invalid_input"
  ELSE IF ref = Relative THEN APIBase(product, p) ELSE ref

\* The origin a reference leads to, or the category it is refused with
\* (untrusted_url has no exit code of its own).
ResolveURL(product, p, ref) ==
  IF APIBase(product, p) \notin Origin \/ ref = Malformed THEN "invalid_input"
  ELSE IF ref = Relative THEN APIBase(product, p)
  ELSE IF ref \in Allowed(product, p) THEN ref ELSE "error"

\* Credential.Validate
CanSign(p) ==
  /\ p.style \in TokenStyle /\ p.token
  /\ p.style \in Basic => p.username
  /\ p.style \in ThroughGateway => p.cloudID

\* Why a request is given up before it is sent. An OAuth profile may need a refresh
\* first (OAuthRefresh).
Unsent(product, p, ref) ==
  LET to == ResolveURL(product, p, ref)
  IN IF to \in Category THEN {to}
     ELSE {c \in {"unauthorized", "timeout", "error"} : p.style = "oauth-3lo"}
          \cup {c \in {"invalid_input"} : ~CanSign(p)}

Sendable(product, p, ref) == ResolveURL(product, p, ref) \in Origin /\ CanSign(p)

=============================================================================
