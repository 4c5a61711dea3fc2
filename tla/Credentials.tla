----------------------------- MODULE Credentials -----------------------------
(***************************************************************************)
(* The stored credentials as all their users see them: auth commands, as   *)
(* in AuthStore, next to runs of product commands, which read a profile    *)
(* once, read its secret anew for every request, and replace it when it is *)
(* a token pair about to lapse (internal/cli/api.go, client.go,            *)
(* oauth_provider.go; internal/secrets). The auth commands take no lock;   *)
(* the refresh lock is between product runs only, and is best-effort.      *)
(*                                                                         *)
(* What OAuthRefresh has in detail is coarse here: a run waits for the     *)
(* lock or goes on without it, whatever the reason, and a refresh is one   *)
(* exchange that succeeds, is rejected, or is lost after it took effect.   *)
(* A secret is numbered by the login that stored it or by the refresh that *)
(* issued it. An API token is a secret that never lapses. A pair may lapse *)
(* at any time.                                                            *)
(*                                                                         *)
(* Definitions with a name ending in Bug are wrong variants of the one     *)
(* below them, each with a plausible mistake.                              *)
(***************************************************************************)
EXTENDS Integers

CONSTANTS
  Proc, Site, None, Overlap, MaxRuns, MaxStops,  \* see AuthStore
  Reader     \* slots in which product commands execute

ASSUME CredentialsAssumption ==
  /\ None \notin Site /\ ~Overlap      \* auth commands run one at a time
  /\ MaxRuns \in Nat \ {0} /\ MaxStops \in Nat

VARIABLES
  config, vault, pc, job, cfg, doc, ref, runs, stops, overlapped, torn, residue,
  rpc, rsite,   \* where each run is, and its site
  prof,         \* the profile it was built with
  token,        \* the secret it has read, or was issued
  rdoc,         \* its copy of credentials.json
  unlocked,     \* the runs that go on without the lock, or took a live holder's
  spent,        \* the service: pairs a refresh has used up
  origin,       \* the login each secret goes back to
  met,          \* history: runs that met an auth command on their site
  crossed,      \* history: sites that two writers of their secret had in hand at once
  dropped       \* history: logins whose last pair died with a run or a reply

Auth == INSTANCE AuthStore WITH Alias <- {}

stores   == <<config, pc, job, cfg, doc, ref, overlapped, torn, residue>>
run      == <<rpc, rsite, prof, token, rdoc, unlocked>>
service  == <<spent, origin>>
observed == <<met, crossed>>
vars == <<stores, vault, runs, stops, run, service, dropped, observed>>

Number == 1..MaxRuns
\* From the read under the lock to the end of store.Set.
Refreshing == {"reread", "sent", "save", "write"}

TypeOK ==
  /\ Auth!TypeOK
  /\ rpc \in [Reader -> {"idle", "get", "acquire", "use", "refused"} \cup Refreshing]
  /\ rsite \in [Reader -> Site] /\ prof \in [Reader -> Auth!Profile]
  /\ token \in [Reader -> Auth!Secret] /\ rdoc \in [Reader -> [Site -> Auth!Secret]]
  /\ unlocked \in SUBSET Reader
  /\ spent \in SUBSET (Site \X Number) /\ origin \in [Number -> Number]
  /\ met \in [Reader -> BOOLEAN] /\ crossed \in SUBSET Site
  /\ dropped \in SUBSET (Site \X Number)

-----------------------------------------------------------------------------
\* Some sites are logged in, each to one backend; nothing runs.
Init ==
  /\ \E sites \in [Site -> {Auth!NoProfile} \cup [ref: Auth!Backend, login: {1}]] :
       /\ config = [sites |-> sites, default |-> None, aliases |-> {}]
       /\ vault = [b \in Auth!Backend |-> [s \in Site |->
                     IF sites[s].ref = b THEN sites[s].login ELSE 0]]
  /\ runs = 1 /\ stops = 0
  /\ pc = [p \in Proc |-> "idle"] /\ job = [p \in Proc |-> Auth!NoJob]
  /\ cfg = [p \in Proc |-> Auth!NoConfig] /\ doc = [p \in Proc |-> [s \in Site |-> 0]]
  /\ ref = [p \in Proc |-> "env"]
  /\ overlapped = FALSE /\ torn = {} /\ residue = {}
  /\ rpc = [r \in Reader |-> "idle"] /\ \E s \in Site : rsite = [r \in Reader |-> s]
  /\ prof = [r \in Reader |-> Auth!NoProfile] /\ token = [r \in Reader |-> 0]
  /\ rdoc = [r \in Reader |-> [s \in Site |-> 0]] /\ unlocked = {}
  /\ spent = {} /\ origin = [n \in Number |-> n]
  /\ met = [r \in Reader |-> FALSE] /\ crossed = {} /\ dropped = {}

Goto(r, l) ==
  /\ rpc' = [rpc EXCEPT ![r] = l]
  /\ unlocked' = IF l \in Refreshing THEN unlocked ELSE unlocked \ {r}

\* The process ends, and its copies with it.
Exit(r) ==
  /\ Goto(r, "idle")
  /\ prof' = [prof EXCEPT ![r] = Auth!NoProfile]
  /\ token' = [token EXCEPT ![r] = 0]
  /\ rdoc' = [rdoc EXCEPT ![r] = [s \in Site |-> 0]]

-----------------------------------------------------------------------------
(* A product command. *)

\* SiteClient: loadSiteProfile finds a profile whose secret is stored.
StartRun(r, s) ==
  /\ rpc[r] = "idle" /\ config.sites[s].ref \in Auth!Backend
  /\ rsite' = [rsite EXCEPT ![r] = s]
  /\ prof' = [prof EXCEPT ![r] = config.sites[s]]
  /\ Goto(r, "get")
  /\ UNCHANGED <<stores, vault, runs, stops, token, rdoc, service, dropped>>

\* Mistake: look in the keychain first, whatever the profile says.
EntryBug(r) ==
  IF vault["keyring"][rsite[r]] # 0 THEN vault["keyring"][rsite[r]]
  ELSE vault["file"][rsite[r]]

\* store.Get, in the backend that the profile named when it was read
Entry(r) == vault[prof[r].ref][rsite[r]]

\* token_unavailable, before a request or under the lock.
Missing(r) ==
  /\ rpc[r] \in {"get", "reread"} /\ Entry(r) = 0
  /\ Goto(r, "refused")
  /\ UNCHANGED <<stores, vault, runs, stops, rsite, prof, token, rdoc, service, dropped>>

\* A request needs the token: it is good, or it is about to lapse.
Get(r) ==
  /\ rpc[r] = "get" /\ Entry(r) # 0
  /\ token' = [token EXCEPT ![r] = Entry(r)]
  /\ Goto(r, "use") \/ Goto(r, "acquire")
  /\ UNCHANGED <<stores, vault, runs, stops, rsite, prof, rdoc, service, dropped>>

\* Mistake: a lock per site.
LockedBug(r) ==
  \E q \in Reader \ unlocked : rpc[q] \in Refreshing /\ rsite[q] = rsite[r]

\* Another run holds the one lock file.
Locked(r) == \E q \in Reader \ unlocked : rpc[q] \in Refreshing

Acquire(r) ==
  /\ rpc[r] = "acquire" /\ ~Locked(r)
  /\ Goto(r, "reread")
  /\ UNCHANGED <<stores, vault, runs, stops, rsite, prof, token, rdoc, service, dropped>>

\* acquireRefreshLock gives up: the wait has outlasted its 45 seconds, the file cannot
\* be created, or a slow holder's was taken for a crashed one's.
Bypass(r) ==
  /\ rpc[r] = "acquire"
  /\ rpc' = [rpc EXCEPT ![r] = "reread"]
  /\ unlocked' = unlocked \cup {r}
  /\ UNCHANGED <<stores, vault, runs, stops, rsite, prof, token, rdoc, service, dropped>>

\* Mistake: no second read.
UnderLockBug(r) == token[r]

\* What the second loadBundle returns.
UnderLock(r) == Entry(r)

\* The pair read under the lock is good, which the one that had lapsed is not; or
\* it is sent to be refreshed.
Reread(r) ==
  /\ rpc[r] = "reread" /\ Entry(r) # 0
  /\ token' = [token EXCEPT ![r] = UnderLock(r)]
  /\ \/ UnderLock(r) # token[r] /\ Goto(r, "use")
     \/ Goto(r, "sent")
  /\ UNCHANGED <<stores, vault, runs, stops, rsite, prof, rdoc, service, dropped>>

\* The client id is of the profile, the client secret and the refresh token are of
\* the bundle: the two may be of different logins, with the same client or not.
MayAccept(r) == <<rsite[r], token[r]>> \notin spent
MayReject(r) == MayAccept(r) => prof[r].login # origin[token[r]]

\* The token endpoint rotates the pair ...
Rotate(r) ==
  /\ rpc[r] = "sent" /\ MayAccept(r) /\ runs < MaxRuns
  /\ runs' = runs + 1
  /\ spent' = spent \cup {<<rsite[r], token[r]>>}
  /\ origin' = [origin EXCEPT ![runs + 1] = origin[token[r]]]

\* ... and the run receives the new one,
Refreshed(r) ==
  /\ Rotate(r)
  /\ token' = [token EXCEPT ![r] = runs + 1]
  /\ Goto(r, "save")
  /\ UNCHANGED <<stores, vault, stops, rsite, prof, rdoc, dropped>>

\* or the call times out, or the run dies, before it does.
RefreshLost(r) ==
  /\ Rotate(r) /\ stops < MaxStops
  /\ stops' = stops + 1
  /\ dropped' = dropped \cup {<<rsite[r], origin[token[r]]>>}
  /\ Exit(r)
  /\ UNCHANGED <<stores, vault, rsite>>

\* invalid_grant: the user is told to log in again.
Rejected(r) ==
  /\ rpc[r] = "sent" /\ MayReject(r)
  /\ Goto(r, "refused")
  /\ UNCHANGED <<stores, vault, runs, stops, rsite, prof, token, rdoc, service, dropped>>

\* Mistake: the pair is saved as a login saves it, where there is room.
HomeBug(r) == "keyring"

\* store.Set goes to the store the token came from.
Home(r) == prof[r].ref

SaveKeyring(r) ==
  /\ rpc[r] = "save" /\ Home(r) = "keyring"
  /\ vault' = [vault EXCEPT !["keyring"][rsite[r]] = token[r]]
  /\ Goto(r, "use")
  /\ UNCHANGED <<stores, runs, stops, rsite, prof, token, rdoc, service, dropped>>

LoadFile(r) ==
  /\ rpc[r] = "save" /\ Home(r) = "file"
  /\ rdoc' = [rdoc EXCEPT ![r] = vault["file"]]
  /\ Goto(r, "write")
  /\ UNCHANGED <<stores, vault, runs, stops, rsite, prof, token, service, dropped>>

WriteFile(r) ==
  /\ rpc[r] = "write"
  /\ vault' = [vault EXCEPT !["file"] = [rdoc[r] EXCEPT ![rsite[r]] = token[r]]]
  /\ rdoc' = [rdoc EXCEPT ![r] = [s \in Site |-> 0]]
  /\ Goto(r, "use")
  /\ UNCHANGED <<stores, runs, stops, rsite, prof, token, service, dropped>>

\* The request is made with the token, and the command makes another one.
UseAgain(r) ==
  /\ rpc[r] = "use"
  /\ Goto(r, "get")
  /\ UNCHANGED <<stores, vault, runs, stops, rsite, prof, token, rdoc, service, dropped>>

\* The last request is made, or the error is reported.
End(r) ==
  /\ rpc[r] \in {"use", "refused"}
  /\ Exit(r)
  /\ UNCHANGED <<stores, vault, runs, stops, rsite, service, dropped>>

\* A read or write fails, or the process dies; the operating system, or the age of
\* the lock file, ends the exclusion.
RunStops(r) ==
  /\ rpc[r] \notin {"idle", "refused"} /\ stops < MaxStops
  /\ stops' = stops + 1
  /\ dropped' = IF rpc[r] \in {"save", "write"}
                THEN dropped \cup {<<rsite[r], origin[token[r]]>>} ELSE dropped
  /\ Exit(r)
  /\ UNCHANGED <<stores, vault, runs, rsite, service>>

RunStep(r) ==
  \/ \E s \in Site : StartRun(r, s)
  \/ Missing(r) \/ Get(r) \/ Acquire(r) \/ Bypass(r) \/ Reread(r)
  \/ Refreshed(r) \/ RefreshLost(r) \/ Rejected(r)
  \/ SaveKeyring(r) \/ LoadFile(r) \/ WriteFile(r)
  \/ UseAgain(r) \/ End(r) \/ RunStops(r)

\* An auth command on a profile; aliases and defaults concern no credential.
AuthStep ==
  /\ \E p \in Proc :
       \/ Auth!Step(p)
       \/ \E j \in Auth!Jobs : j.kind \in {"token", "env", "logout"} /\ Auth!Start(p, j)
  /\ UNCHANGED <<run, service, dropped>>

-----------------------------------------------------------------------------
(* What an observer notes of every step. *)

AuthOn(s) == \E p \in Proc : pc[p] # "idle" /\ job[p].arg = s

\* A refresh of s between its read of the pair and its write.
RefreshOn(s) == \E r \in Reader : rsite[r] = s /\ rpc[r] \in {"sent", "save", "write"}

\* Sites whose entry an auth command or a refresh has loaded and not yet rewritten.
AuthEditing == {job[p].arg : p \in {q \in Proc : pc[q] \in {"saveWrite", "clearWrite"}}}
RunEditing  == {rsite[r] : r \in {q \in Reader : rpc[q] = "write"}}

\* Two refreshes, not both under the lock, are of one site, or rewrite one document.
Together(r, q) ==
  /\ r # q /\ (r \in unlocked \/ q \in unlocked)
  /\ \/ rsite[r] = rsite[q] /\ {rpc[r], rpc[q]} \subseteq {"sent", "save", "write"}
     \/ rpc[r] = "write" /\ rpc[q] = "write"

Crossing ==
  {s \in Site : AuthOn(s) /\ RefreshOn(s)}
    \cup (IF AuthEditing # {} /\ RunEditing # {} THEN AuthEditing \cup RunEditing ELSE {})
    \cup {rsite[r] : r \in {x \in Reader : \E q \in Reader : Together(x, q)}}

Observe ==
  /\ crossed' = crossed \cup Crossing'
  /\ met' = [r \in Reader |-> rpc'[r] # "idle" /\ (met[r] \/ AuthOn(rsite[r])')]

Next == (AuthStep \/ \E r \in Reader : RunStep(r)) /\ Observe

Spec == Init /\ [][Next]_vars

-----------------------------------------------------------------------------
(* Properties. The auth commands do not overlap with one another. *)

Stored(s) == vault[config.sites[s].ref][s]

\* A profile finds a secret of its own login, and if that is a token pair it is the
\* live one, whatever happened to it and to other sites meanwhile. Excepted are
\*  - a site whose login or logout got half-way (torn);
\*  - a site whose secret two had in hand at once: a login or logout and a refresh, or
\*    two refreshes one of which went without the lock; either of one site, or both
\*    between reading and rewriting credentials.json (crossed);
\*  - a grant whose rotated pair was lost on its way (dropped)
\* (secrets.go 192-266, oauth_provider.go 82-171).
GrantStays ==
  \A s \in Site \ (torn \cup crossed) :
    config.sites[s].ref \in Auth!Backend /\ ~AuthOn(s) /\ ~RefreshOn(s) =>
      /\ Stored(s) # 0 /\ origin[Stored(s)] = config.sites[s].login
      /\ <<s, Stored(s)>> \in spent => <<s, config.sites[s].login>> \in dropped

\* SiteClient reads the profile once, and the provider reads the token for every
\* request (client.go 103, oauth_provider.go 72): the two may be of different logins.
\* But a request never carries a token older than the login that its address is of,
\* and a newer one only if a login or logout of the site was under way at some moment
\* of the run, or got half-way before it. Excepted is a site in crossed, see GrantStays.
UseMatches ==
  \A r \in Reader :
    rpc[r] = "use" /\ rsite[r] \notin crossed =>
      \/ origin[token[r]] = prof[r].login
      \/ origin[token[r]] > prof[r].login /\ (met[r] \/ rsite[r] \in torn)

\* A run that met no login or logout of its site is told that its token is missing or no
\* longer accepted only if the grant's rotated pair was lost before it, and a login is
\* due. Excepted are the sites in torn and in crossed, see GrantStays.
HonestRefusal ==
  \A r \in Reader :
    rpc[r] = "refused" /\ ~met[r] =>
      \/ rsite[r] \in torn \cup crossed
      \/ <<rsite[r], prof[r].login>> \in dropped

\* A refresh brings no secret back that a login or logout removed, and leaves none in
\* a backend the profile does not name, nor do logins and logouts. Excepted are the
\* sites in crossed, see GrantStays, and what a login or logout that got half-way, or
\* its failed clean-up, left behind (residue).
NothingReturns ==
  \A s \in Site \ crossed, b \in Auth!Backend :
    ~AuthOn(s) /\ vault[b][s] # 0 /\ <<s, b>> \notin residue => config.sites[s].ref = b

=============================================================================
