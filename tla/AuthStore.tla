------------------------------ MODULE AuthStore ------------------------------
(***************************************************************************)
(* The commands that change what the binaries remember: auth login, auth   *)
(* logout, auth default, alias set and alias delete (internal/cli/auth.go, *)
(* alias.go). Each is a process that reads and rewrites whole documents,   *)
(* config.json and the fallback credentials.json, and sets or deletes one  *)
(* keychain entry, one after the other and without any lock.               *)
(*                                                                         *)
(* A step that fails and a process that dies leave the same state behind;  *)
(* both are the action Stops. What a command checks before its first read  *)
(* or write, and the network part of an oauth-3lo login, have no effect    *)
(* here. A stored secret is named by the login that stored it.             *)
(*                                                                         *)
(* Definitions with a name ending in Bug are wrong variants of the one     *)
(* below them, each with a plausible mistake.                              *)
(***************************************************************************)
EXTENDS Integers

CONSTANTS
  Proc,      \* slots in which commands execute
  Site, Alias,
  None,      \* default_site: ""
  Overlap,   \* may a command start while another one runs?
  MaxRuns,   \* bound: commands started
  MaxStops   \* bound: commands that fail or die half-way

ASSUME AuthAssumption ==
  /\ None \notin Site \cup Alias /\ Site \cap Alias = {}
  /\ Overlap \in BOOLEAN /\ MaxRuns \in Nat /\ MaxStops \in Nat

VARIABLES
  config,    \* config.json
  vault,     \* the stored secrets of each backend
  pc, job,   \* where each command is, and what was asked of it
  cfg,       \* its copy of config.json
  doc,       \* its copy of credentials.json
  ref,       \* SaveResult.Backend, or env
  runs, stops,  \* counters of MaxRuns and MaxStops
  overlapped,   \* history: two commands ran at the same time
  torn,         \* history: sites whose last login or logout got half-way
  residue       \* history: secrets whose login or removal got half-way

disk  == <<config, vault>>
local == <<cfg, doc, ref>>
history == <<overlapped, torn, residue>>
vars == <<disk, pc, job, local, runs, stops, history>>

Backend == {"keyring", "file"}
Secret  == 0..MaxRuns           \* 0: none
NoProfile == [ref |-> "none", login |-> 0]
Ref     == Backend \cup {"env"}
Profile == [ref: Ref, login: 1..MaxRuns] \cup {NoProfile}
Config  == [sites: [Site -> Profile], default: Site \cup {None}, aliases: SUBSET Alias]
NoConfig == [sites |-> [s \in Site |-> NoProfile], default |-> None, aliases |-> {}]

Jobs ==
  [kind: {"token", "env", "logout", "default"}, arg: Site, login: 0..MaxRuns]
    \cup [kind: {"alias", "unalias"}, arg: Alias, login: 0..MaxRuns]
    \cup [kind: {"clear"}, arg: {None}, login: 0..MaxRuns]
NoJob == [kind |-> "clear", arg |-> None, login |-> 0]
Logins == {"token", "env"}      \* --token, --token-stdin or oauth-3lo; --token-env

PC == {"idle", "secret", "saveLoad", "saveWrite", "load", "write", "clear", "clearWrite"}

\* The backend of the profile that the command found.
Former(p) == cfg[p].sites[job[p].arg].ref

TypeOK ==
  /\ config \in Config /\ vault \in [Backend -> [Site -> Secret]]
  /\ pc \in [Proc -> PC] /\ job \in [Proc -> Jobs]
  /\ cfg \in [Proc -> Config] /\ doc \in [Proc -> [Site -> Secret]]
  /\ ref \in [Proc -> Ref]
  /\ runs \in 0..MaxRuns /\ stops \in 0..MaxStops
  /\ overlapped \in BOOLEAN /\ torn \in SUBSET Site
  /\ residue \in SUBSET (Site \X Backend)
  /\ \A p \in Proc : pc[p] \in {"clear", "clearWrite"} => Former(p) # "none"

-----------------------------------------------------------------------------
\* A fresh configuration directory and an empty keychain.
Init ==
  /\ config = NoConfig /\ vault = [b \in Backend |-> [s \in Site |-> 0]]
  /\ pc = [p \in Proc |-> "idle"] /\ job = [p \in Proc |-> NoJob]
  /\ cfg = [p \in Proc |-> NoConfig] /\ doc = [p \in Proc |-> [s \in Site |-> 0]]
  /\ ref = [p \in Proc |-> "env"]
  /\ runs = 0 /\ stops = 0
  /\ overlapped = FALSE /\ torn = {} /\ residue = {}

Goto(p, l) == pc' = [pc EXCEPT ![p] = l]

\* A command is called. A login that stores a secret does so before all else.
Start(p, j) ==
  /\ pc[p] = "idle" /\ runs < MaxRuns
  /\ Overlap \/ \A q \in Proc : pc[q] = "idle"
  /\ j.login = runs + 1
  /\ runs' = runs + 1
  /\ job' = [job EXCEPT ![p] = j]
  /\ ref' = [ref EXCEPT ![p] = "env"]
  /\ Goto(p, IF j.kind = "token" THEN "secret" ELSE "load")
  /\ overlapped' = (overlapped \/ \E q \in Proc : pc[q] # "idle")
  /\ UNCHANGED <<disk, cfg, doc, stops, torn, residue>>

-----------------------------------------------------------------------------
(* secrets.Save *)

\* Put secret n of site s into backend b (0: delete it).
Stored(b, s, n) == vault' = [vault EXCEPT ![b][s] = n]

\* keyringStore.Set
SetInKeyring(p) ==
  /\ pc[p] = "secret"
  /\ Stored("keyring", job[p].arg, job[p].login)
  /\ ref' = [ref EXCEPT ![p] = "keyring"]
  /\ Goto(p, "load")
  /\ UNCHANGED <<config, job, cfg, doc, runs, stops, history>>

\* No keychain, or the secret is too large for it: fall back to the file.
KeyringRefuses(p) ==
  /\ pc[p] = "secret"
  /\ Goto(p, "saveLoad")
  /\ UNCHANGED <<disk, job, local, runs, stops, history>>

\* fileStore.load, for Set
LoadToSet(p) ==
  /\ pc[p] = "saveLoad"
  /\ doc' = [doc EXCEPT ![p] = vault["file"]]
  /\ Goto(p, "saveWrite")
  /\ UNCHANGED <<disk, job, cfg, ref, runs, stops, history>>

\* fileStore.save, for Set: the changed copy replaces the document.
SetInFile(p) ==
  /\ pc[p] = "saveWrite"
  /\ vault' = [vault EXCEPT !["file"] = [doc[p] EXCEPT ![job[p].arg] = job[p].login]]
  /\ ref' = [ref EXCEPT ![p] = "file"]
  /\ Goto(p, "load")
  /\ UNCHANGED <<config, job, cfg, doc, runs, stops, history>>

-----------------------------------------------------------------------------
(* config.Load, the edit, config.Save *)

\* Mistake: auth default takes any name.
ApplicableBug(j, c) ==
  /\ j.kind = "logout" => c.sites[j.arg] # NoProfile
  /\ j.kind = "unalias" => j.arg \in c.aliases

\* Does the command go on with what config.Load returned?
Applicable(j, c) ==
  /\ j.kind \in {"logout", "default"} => c.sites[j.arg] # NoProfile
  /\ j.kind = "unalias" => j.arg \in c.aliases

LoadConfig(p) ==
  /\ pc[p] = "load" /\ Applicable(job[p], config)
  /\ cfg' = [cfg EXCEPT ![p] = config]
  /\ Goto(p, IF job[p].kind = "logout" THEN "clear" ELSE "write")
  /\ UNCHANGED <<disk, job, doc, ref, runs, stops, history>>

\* site_not_configured, or no alias of that name.
Refuse(p) ==
  /\ pc[p] = "load" /\ ~Applicable(job[p], config)
  /\ Goto(p, "idle")
  /\ UNCHANGED <<disk, job, local, runs, stops, history>>

\* Mistake: logout leaves the default dangling.
WithoutSiteBug(c, s) == [c EXCEPT !.sites[s] = NoProfile]

\* logout: the profile goes, and the default with it.
WithoutSite(c, s) ==
  [c EXCEPT !.sites[s] = NoProfile, !.default = IF @ = s THEN None ELSE @]

\* The document after the command's edit.
Edited(j, c, r) ==
  CASE j.kind \in Logins   -> [c EXCEPT !.sites[j.arg] = [ref |-> r, login |-> j.login]]
    [] j.kind = "logout"   -> WithoutSite(c, j.arg)
    [] j.kind = "default"  -> [c EXCEPT !.default = j.arg]
    [] j.kind = "clear"    -> [c EXCEPT !.default = None]
    [] j.kind = "alias"    -> [c EXCEPT !.aliases = @ \cup {j.arg}]
    [] j.kind = "unalias"  -> [c EXCEPT !.aliases = @ \ {j.arg}]

\* Mistakes: a secret is only dropped when the login stores none; a login into the same
\* backend drops its own.
SupersedesBug(p) == job[p].kind = "env" /\ Former(p) \in Backend
SupersedesAlwaysBug(p) == job[p].kind \in Logins /\ Former(p) # "none"

\* persistProfile: the login moved the site to another backend.
Supersedes(p) ==
  job[p].kind \in Logins /\ Former(p) \notin {"none", ref[p]}

\* config.Save
WriteConfig(p) ==
  /\ pc[p] = "write"
  /\ config' = Edited(job[p], cfg[p], ref[p])
  /\ Goto(p, IF Supersedes(p) THEN "clear" ELSE "idle")
  /\ torn' = IF job[p].kind \in Logins \cup {"logout"} THEN torn \ {job[p].arg} ELSE torn
  /\ residue' = IF job[p].kind \in Logins THEN residue \ {<<job[p].arg, ref[p]>>}
                ELSE residue
  /\ UNCHANGED <<vault, job, local, runs, stops, overlapped>>

-----------------------------------------------------------------------------
(* clearStoredToken: the whole of logout's first half, the end of a login *)

Cleared(p) == Goto(p, IF job[p].kind = "logout" THEN "write" ELSE "idle")

\* The reference is to an environment variable.
ClearNothing(p) ==
  /\ pc[p] = "clear" /\ Former(p) = "env"
  /\ Cleared(p)
  /\ UNCHANGED <<disk, job, local, runs, stops, history>>

\* keyringStore.Delete
DeleteFromKeyring(p) ==
  /\ pc[p] = "clear" /\ Former(p) = "keyring"
  /\ Stored("keyring", job[p].arg, 0)
  /\ residue' = residue \ {<<job[p].arg, "keyring">>}
  /\ Cleared(p)
  /\ UNCHANGED <<config, job, local, runs, stops, overlapped, torn>>

\* fileStore.load, for Delete; nothing is written when there is nothing to delete.
LoadToDelete(p) ==
  /\ pc[p] = "clear" /\ Former(p) = "file"
  /\ doc' = [doc EXCEPT ![p] = vault["file"]]
  /\ IF vault["file"][job[p].arg] = 0 THEN Cleared(p) ELSE Goto(p, "clearWrite")
  /\ UNCHANGED <<disk, job, cfg, ref, runs, stops, history>>

\* fileStore.save, for Delete
DeleteFromFile(p) ==
  /\ pc[p] = "clearWrite"
  /\ vault' = [vault EXCEPT !["file"] = [doc[p] EXCEPT ![job[p].arg] = 0]]
  /\ residue' = residue \ {<<job[p].arg, "file">>}
  /\ Cleared(p)
  /\ UNCHANGED <<config, job, local, runs, stops, overlapped, torn>>

-----------------------------------------------------------------------------
\* The login has stored its secret but not its profile; it may have replaced the
\* secret of the profile there is.
Unrecorded(p) == job[p].kind = "token" /\ pc[p] \in {"load", "write"}
Replaced(p) == Unrecorded(p) /\ config.sites[job[p].arg].ref = ref[p]

\* The logout has deleted the secret but not the profile.
Emptied(p) == job[p].kind = "logout" /\ pc[p] = "write" /\ Former(p) \in Backend

\* The login has not dropped the secret it supersedes: a warning is all there is.
Kept(p) == job[p].kind \in Logins /\ pc[p] \in {"clear", "clearWrite"}

\* A read, write or delete fails, or the process dies.
Stops(p) ==
  /\ pc[p] # "idle" /\ stops < MaxStops
  /\ stops' = stops + 1
  /\ Goto(p, "idle")
  /\ torn' = IF Replaced(p) \/ Emptied(p) THEN torn \cup {job[p].arg} ELSE torn
  /\ residue' = residue \cup {<<job[p].arg, b>> : b \in
                  {c \in Backend : \/ Unrecorded(p) /\ c = ref[p]
                                   \/ Kept(p) /\ c = Former(p)}}
  /\ UNCHANGED <<disk, job, local, runs, overlapped>>

Step(p) ==
  \/ SetInKeyring(p) \/ KeyringRefuses(p) \/ LoadToSet(p) \/ SetInFile(p)
  \/ LoadConfig(p) \/ Refuse(p) \/ WriteConfig(p)
  \/ ClearNothing(p) \/ DeleteFromKeyring(p) \/ LoadToDelete(p) \/ DeleteFromFile(p)
  \/ Stops(p)

Next == \E p \in Proc : Step(p) \/ \E j \in Jobs : Start(p, j)

Spec == Init /\ [][Next]_vars

-----------------------------------------------------------------------------
(* Properties. *)

\* No command on site s is under way.
Quiet(s) == \A p \in Proc : pc[p] # "idle" => job[p].arg # s

\* As long as commands do not overlap, a profile that refers to a stored secret
\* finds the one its own login stored, unless the last login or logout of the site
\* got half-way: no other command, fallback or clean-up takes it away
\* (persistProfile, logout, secrets.Save).
Resolvable ==
  ~overlapped => \A s \in Site \ torn :
    Quiet(s) /\ config.sites[s].ref \in Backend =>
      vault[config.sites[s].ref][s] = config.sites[s].login

\* As long as commands do not overlap, a stored secret belongs to a profile that
\* refers to it, unless a login or a clean-up got half-way: logout and a switch of
\* backends leave nothing behind (auth.go 466-475, 820).
NoLeftover ==
  ~overlapped => \A s \in Site, b \in Backend :
    Quiet(s) /\ vault[b][s] # 0 /\ <<s, b>> \notin residue => config.sites[s].ref = b

\* The default site is configured, however commands overlap, fail or die: each saves a
\* copy in which it is, even one that another command has made stale since it was
\* checked (auth.go 216-226, 824-829).
DefaultConfigured == config.default # None => config.sites[config.default] # NoProfile

\* As long as commands do not overlap they change config.json one at a time and as a
\* whole, also when they fail or die half-way: as SiteRegistry does (auth.go, alias.go).
Registry == INSTANCE SiteRegistry WITH Login <- 1..MaxRuns
Serial == Registry!Init /\ [][overlapped' \/ Registry!Next]_config

\* A logout removes exactly the named profile (docs/command-contract.md 252). False once
\* it overlaps with another command (Overlap = TRUE).
LogoutKeepsOthers ==
  [][\A p \in Proc : WriteConfig(p) /\ job[p].kind = "logout" =>
       \A s \in Site \ {job[p].arg} : config'.sites[s] = config.sites[s]]_vars

=============================================================================
