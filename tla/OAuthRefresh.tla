---------------------------- MODULE OAuthRefresh ----------------------------
(***************************************************************************)
(* The credential provider of an oauth-3lo profile                         *)
(* (internal/cli/oauth_provider.go): runs of the atl-* binaries that share *)
(* one configuration directory read the stored token bundle of their site  *)
(* and, when its access token is about to lapse, refresh it under a        *)
(* best-effort advisory lock file.                                         *)
(*                                                                         *)
(* Definitions with a name ending in Bug are wrong variants of the one     *)
(* below them, each with a plausible mistake: every property is checked to *)
(* fail when one of them replaces the right one.                           *)
(*                                                                         *)
(* Every file-system call, keychain call and network step is an action of  *)
(* its own, so that other runs, a crash or the clock can fall in between.  *)
(* Time is kept in ages and countdowns (units of 15 seconds in the runs):  *)
(* Tick lets one unit pass, and only when every run is blocked, in a call  *)
(* or asleep: local steps take no time at that scale.                      *)
(*                                                                         *)
(* Tokens are numbered by the service per site, in the order of issue.     *)
(***************************************************************************)
EXTENDS Integers

CONSTANTS
  Proc,            \* slots in which runs of the binaries execute
  Site,            \* configured oauth-3lo profiles
  FileSite,        \* those whose token_ref is the fallback file, not the keychain
  RefreshTimeout,  \* oauthRefreshTimeout
  LockTimeout,     \* oauthRefreshLockTimeout
  MaxIssue,        \* bound: token pairs the service issues per site
  MaxRuns,         \* bound: runs started
  MaxCrashes,      \* bound: runs killed half-way
  Faults           \* may file-system, keychain and network calls fail?

\* RefreshTimeout < LockTimeout is the relation the comments of both constants demand.
ASSUME ConstantsAssumption ==
  /\ FileSite \subseteq Site
  /\ RefreshTimeout \in Nat /\ LockTimeout \in Nat
  /\ RefreshTimeout < LockTimeout
  /\ MaxIssue \in Nat /\ MaxRuns \in Nat /\ MaxCrashes \in Nat
  /\ Faults \in BOOLEAN

VARIABLES
  pc, site,        \* where each run is, and the site it was started for
  bundle,          \* the local variable "bundle" (later "refreshed")
  outcome,         \* what the provider returned
  locked,          \* does the run's release func remove the lock file?
  waited, staleIn, reclaimed,  \* acquireRefreshLock: deadline, staleAt, reclaimed
  reply, callAge,  \* the refresh call in flight: the answer on its way, its age
  snap,            \* the credentials document fileStore.Set has loaded
  lock,            \* the lock file and its age (ModTime)
  stored,          \* bundle stored for each site, in the keychain or the file
  minted, live, lapsed,        \* the service: last issue, live refresh token, expiries
  runs, crashes,   \* counters of MaxRuns and MaxCrashes
  bypassed,        \* history: some run went on without the lock
  raced,           \* history: the lock file of a live holder was removed
  leftover,        \* history: a run ended and its lock file stayed
  dropped          \* history: sites whose rotated grant died with a run or a reply

waiting  == <<waited, staleIn, reclaimed>>
call     == <<reply, callAge>>
service  == <<minted, live, lapsed>>
history  == <<runs, crashes, bypassed, raced, leftover, dropped>>
vars == <<pc, site, bundle, outcome, locked, waiting, call, snap, lock, stored,
          service, history>>

Issue  == 0..MaxIssue      \* 0 is never issued: an absent token
Bundle == [at: Issue, rt: Issue, secret: BOOLEAN]
Reply  == [kind: {"none", "granted", "rejected"}, at: Issue, rt: Issue]
Lock   == [held: BOOLEAN, owner: Proc, age: 0..LockTimeout + 1]

NoReply  == [kind |-> "none", at |-> 0, rt |-> 0]
NoBundle == [at |-> 0, rt |-> 0, secret |-> FALSE]
NoSnap   == [s \in Site |-> NoBundle]

\* The run may use or replace the stored grant: it is between acquireRefreshLock's
\* return and the end of store.Set.
Critical == {"reread", "sent", "save", "write"}
PC == {"idle", "read", "acquire", "held", "reclaim", "poll", "asleep", "release"}
        \cup Critical

TypeOK ==
  /\ pc \in [Proc -> PC] /\ site \in [Proc -> Site]
  /\ bundle \in [Proc -> Bundle]
  /\ outcome \in [Proc -> {"none", "ok", "reauth", "failed", "crashed"}]
  /\ locked \in [Proc -> BOOLEAN] /\ reclaimed \in [Proc -> BOOLEAN]
  /\ waited \in [Proc -> 0..LockTimeout + 1]
  /\ staleIn \in [Proc -> -1..LockTimeout]
  /\ reply \in [Proc -> Reply] /\ callAge \in [Proc -> 0..RefreshTimeout]
  /\ snap \in [Proc -> [Site -> Bundle]] /\ stored \in [Site -> Bundle]
  /\ lock \in Lock
  /\ minted \in [Site -> Issue] /\ live \in [Site -> Issue]
  /\ lapsed \in [Site -> Issue]
  /\ runs \in 0..MaxRuns /\ crashes \in 0..MaxCrashes
  /\ bypassed \in BOOLEAN /\ raced \in BOOLEAN /\ leftover \in BOOLEAN
  /\ dropped \in SUBSET Site

-----------------------------------------------------------------------------
\* A login stored the first pair of every site; its access token may have
\* lapsed since. No run is active and no lock file is left.
Init ==
  /\ MaxIssue >= 1
  /\ stored = [s \in Site |-> [at |-> 1, rt |-> 1, secret |-> TRUE]]
  /\ minted = [s \in Site |-> 1] /\ live = [s \in Site |-> 1]
  /\ lapsed \in [Site -> {0, 1}]
  /\ pc = [p \in Proc |-> "idle"] /\ \E s \in Site : site = [p \in Proc |-> s]
  /\ bundle = [p \in Proc |-> NoBundle]
  /\ outcome = [p \in Proc |-> "none"]
  /\ locked = [p \in Proc |-> FALSE] /\ reclaimed = [p \in Proc |-> FALSE]
  /\ waited = [p \in Proc |-> 0] /\ staleIn = [p \in Proc |-> -1]
  /\ reply = [p \in Proc |-> NoReply] /\ callAge = [p \in Proc |-> 0]
  /\ snap = [p \in Proc |-> NoSnap]
  /\ \E p \in Proc : lock = [held |-> FALSE, owner |-> p, age |-> 0]
  /\ runs = 0 /\ crashes = 0
  /\ bypassed = FALSE /\ raced = FALSE /\ leftover = FALSE /\ dropped = {}

Goto(p, l) == pc' = [pc EXCEPT ![p] = l]

\* End the body with outcome o; the deferred release runs next.
Return(p, o) == Goto(p, "release") /\ outcome' = [outcome EXCEPT ![p] = o]

\* bundle.Expired(now + oauthRefreshSkew), of a bundle of site s
Expired(b, s) == b.at <= lapsed[s]

\* A stored refresh token of this reply would be the only copy of a live grant.
Rotates(r) == r.kind = "granted" /\ r.rt # 0

\* The locals of the refresh go out of scope.
Forget(p) ==
  /\ reply' = [reply EXCEPT ![p] = NoReply]
  /\ callAge' = [callAge EXCEPT ![p] = 0]
  /\ snap' = [snap EXCEPT ![p] = NoSnap]

\* The locals of acquireRefreshLock as it starts, or goes out of scope.
FreshWait(p) ==
  /\ waited' = [waited EXCEPT ![p] = 0]
  /\ staleIn' = [staleIn EXCEPT ![p] = -1]
  /\ reclaimed' = [reclaimed EXCEPT ![p] = FALSE]

-----------------------------------------------------------------------------
\* A process of one of the binaries needs the credential of site s.
StartRun(p, s) ==
  /\ pc[p] = "idle" /\ runs < MaxRuns
  /\ runs' = runs + 1
  /\ site' = [site EXCEPT ![p] = s]
  /\ outcome' = [outcome EXCEPT ![p] = "none"]
  /\ Goto(p, "read")
  /\ UNCHANGED <<bundle, locked, waiting, call, snap, lock, stored, service,
                 crashes, bypassed, raced, leftover, dropped>>

\* First loadBundle: a still-valid access token needs no lock.
FastPath(p) ==
  /\ pc[p] = "read" /\ ~Expired(stored[site[p]], site[p])
  /\ bundle' = [bundle EXCEPT ![p] = stored[site[p]]]
  /\ outcome' = [outcome EXCEPT ![p] = "ok"]
  /\ Goto(p, "idle")
  /\ UNCHANGED <<site, locked, waiting, call, snap, lock, stored, service, history>>

\* First loadBundle: the access token has lapsed.
NeedRefresh(p) ==
  /\ pc[p] = "read" /\ Expired(stored[site[p]], site[p])
  /\ bundle' = [bundle EXCEPT ![p] = stored[site[p]]]
  /\ Goto(p, "acquire")
  /\ UNCHANGED <<site, outcome, locked, waiting, call, snap, lock, stored, service,
                 history>>

\* loadBundle fails, before or under the lock.
ReadFails(p) ==
  /\ Faults /\ pc[p] \in {"read", "reread"}
  /\ outcome' = [outcome EXCEPT ![p] = "failed"]
  /\ Goto(p, IF pc[p] = "read" THEN "idle" ELSE "release")
  /\ UNCHANGED <<site, bundle, locked, waiting, call, snap, lock, stored,
                 service, history>>

-----------------------------------------------------------------------------
(* acquireRefreshLock *)

\* Mistake: a lock file per site.
TakenPerSiteBug(p) == lock.held /\ site[lock.owner] = site[p]

\* errors.Is(err, fs.ErrExist): one lock file serves all sites.
Taken(p) == lock.held

\* OpenFile with O_EXCL creates the lock file ...
CreateLock(p) ==
  /\ pc[p] = "acquire" /\ ~Taken(p)
  /\ lock' = [held |-> TRUE, owner |-> p, age |-> 0]
  /\ locked' = [locked EXCEPT ![p] = TRUE]
  /\ Goto(p, "reread") /\ FreshWait(p)
  /\ UNCHANGED <<site, bundle, outcome, call, snap, stored, service, history>>

\* ... or finds it there.
FindLock(p) ==
  /\ pc[p] = "acquire" /\ Taken(p)
  /\ Goto(p, "held")
  /\ UNCHANGED <<site, bundle, outcome, locked, waiting, call, snap, lock, stored,
                 service, history>>

\* return noop: go on without the lock.
Bypass(p) ==
  /\ bypassed' = TRUE
  /\ Goto(p, "reread") /\ FreshWait(p)

\* MkdirAll or OpenFile fails for another reason than an existing lock file.
LockFails(p) ==
  /\ Faults /\ pc[p] = "acquire"
  /\ Bypass(p)
  /\ UNCHANGED <<site, bundle, outcome, locked, call, snap, lock, stored,
                 service, runs, crashes, raced, leftover, dropped>>

\* !reclaimed && now.After(staleAt): it is time to look at the lock's age (again).
CheckDue(p) == ~reclaimed[p] /\ staleIn[p] < 0

\* Mistake: the lock is stale when the refresh call should be over, not later.
StaleInBug == RefreshTimeout - lock.age - 1

\* What is left of the lock's lifetime; negative when now.After(staleAt).
StaleIn == LockTimeout - lock.age

\* Lstat: record staleAt; a lock past it is about to be removed.
Inspect(p) ==
  /\ pc[p] = "held"
  /\ IF CheckDue(p) /\ lock.held
     THEN /\ staleIn' = [staleIn EXCEPT ![p] = StaleIn]
          /\ Goto(p, IF StaleIn < 0 THEN "reclaim" ELSE "poll")
     ELSE Goto(p, "poll") /\ UNCHANGED staleIn
  /\ UNCHANGED <<site, bundle, outcome, locked, waited, reclaimed, call, snap,
                 lock, stored, service, history>>

\* No lock file. (The owner is kept; nothing reads it.)
Unlocked == [held |-> FALSE, owner |-> lock.owner, age |-> 0]

\* The lock file disappears while the run that created it still counts on it.
RobsHolder(p) == lock.held /\ lock.owner # p /\ locked[lock.owner]

\* os.Remove of the lock judged stale, whatever file has that name by now.
ReclaimLock(p) ==
  /\ pc[p] = "reclaim"
  /\ lock' = Unlocked
  /\ raced' = (raced \/ RobsHolder(p))
  /\ reclaimed' = [reclaimed EXCEPT ![p] = TRUE]
  /\ Goto(p, "acquire")
  /\ UNCHANGED <<site, bundle, outcome, locked, waited, staleIn, call, snap,
                 stored, service, runs, crashes, bypassed, leftover, dropped>>

\* The same, but os.Remove fails, which goes unnoticed: there is no second attempt.
ReclaimFails(p) ==
  /\ Faults /\ pc[p] = "reclaim"
  /\ reclaimed' = [reclaimed EXCEPT ![p] = TRUE]
  /\ Goto(p, "acquire")
  /\ UNCHANGED <<site, bundle, outcome, locked, waited, staleIn, call, snap, lock,
                 stored, service, history>>

\* now.After(deadline)
WaitedOut(p) == waited[p] > LockTimeout

GiveUp(p) ==
  /\ pc[p] = "poll" /\ WaitedOut(p)
  /\ Bypass(p)
  /\ UNCHANGED <<site, bundle, outcome, locked, call, snap, lock, stored,
                 service, runs, crashes, raced, leftover, dropped>>

FallAsleep(p) ==
  /\ pc[p] = "poll" /\ ~WaitedOut(p)
  /\ Goto(p, "asleep")
  /\ UNCHANGED <<site, bundle, outcome, locked, waiting, call, snap, lock, stored,
                 service, history>>

\* Mistake: a sleeper only ever tries to create the file.
AwakeBug(p) == ~lock.held

\* A turn of the 25 ms loop that can do something else than sleep again; the
\* turns that find nothing changed are left out.
Awake(p) == ~lock.held \/ CheckDue(p) \/ WaitedOut(p)

WakeUp(p) ==
  /\ pc[p] = "asleep" /\ Awake(p)
  /\ Goto(p, "acquire")
  /\ UNCHANGED <<site, bundle, outcome, locked, waiting, call, snap, lock,
                 stored, service, history>>

-----------------------------------------------------------------------------
(* Under the lock, or without it after Bypass. *)

\* Mistake: no second read.
UnderLockBug(p) == bundle[p]

\* What the second loadBundle finds.
UnderLock(p) == stored[site[p]]

\* loadBundle again: a bundle another run refreshed meanwhile is returned.
ReuseRefreshed(p) ==
  /\ pc[p] = "reread" /\ ~Expired(UnderLock(p), site[p])
  /\ bundle' = [bundle EXCEPT ![p] = UnderLock(p)]
  /\ Return(p, "ok")
  /\ UNCHANGED <<site, locked, waiting, call, snap, lock, stored, service, history>>

\* Otherwise the refresh request goes out.
SendRefresh(p) ==
  /\ pc[p] = "reread" /\ Expired(UnderLock(p), site[p])
  /\ bundle' = [bundle EXCEPT ![p] = UnderLock(p)]
  /\ Goto(p, "sent")
  /\ UNCHANGED <<site, outcome, locked, waiting, call, snap, lock, stored, service,
                 history>>

\* What the token endpoint accepts: the refresh token it handed out last, from a
\* client that knows its secret.
Accepts(b, s) == b.rt = live[s] /\ b.secret

\* The token endpoint issues a new pair. It rotates the refresh token, or leaves
\* it out of the answer (rt = 0) and keeps the old one.
Grant(p) ==
  LET s == site[p]
      n == minted[s] + 1
  IN
  /\ pc[p] = "sent" /\ reply[p] = NoReply
  /\ Accepts(bundle[p], s) /\ n <= MaxIssue
  /\ minted' = [minted EXCEPT ![s] = n]
  /\ \E r \in {0, n} :
       /\ reply' = [reply EXCEPT ![p] = [kind |-> "granted", at |-> n, rt |-> r]]
       /\ live' = [live EXCEPT ![s] = IF r = 0 THEN live[s] ELSE n]
  /\ UNCHANGED <<pc, site, bundle, outcome, locked, waiting, callAge, snap, lock,
                 stored, lapsed, history>>

\* The token endpoint answers invalid_grant.
Reject(p) ==
  /\ pc[p] = "sent" /\ reply[p] = NoReply
  /\ ~Accepts(bundle[p], site[p])
  /\ reply' = [reply EXCEPT ![p] = [kind |-> "rejected", at |-> 0, rt |-> 0]]
  /\ UNCHANGED <<pc, site, bundle, outcome, locked, waiting, callAge, snap, lock,
                 stored, service, history>>

\* Mistakes: an omitted refresh token, or the secret, is not carried over.
RefreshedTokenBug(b, r) == [at |-> r.at, rt |-> r.rt, secret |-> b.secret]
RefreshedSecretBug(b, r) ==
  [at |-> r.at, rt |-> IF r.rt = 0 THEN b.rt ELSE r.rt, secret |-> FALSE]

\* The new bundle: secret carried over, old refresh token kept if none came back.
Refreshed(b, r) ==
  [at |-> r.at, rt |-> IF r.rt = 0 THEN b.rt ELSE r.rt, secret |-> b.secret]

\* The answer reaches the run in time: tokens ...
ReceivePair(p) ==
  /\ pc[p] = "sent" /\ reply[p].kind = "granted"
  /\ bundle' = [bundle EXCEPT ![p] = Refreshed(bundle[p], reply[p])]
  /\ Goto(p, "save")
  /\ UNCHANGED <<site, outcome, locked, waiting, call, snap, lock, stored, service,
                 history>>

\* ... or a refusal, on which the user is told to log in again.
ReceiveRefusal(p) ==
  /\ pc[p] = "sent" /\ reply[p].kind = "rejected"
  /\ Return(p, "reauth")
  /\ UNCHANGED <<site, bundle, locked, waiting, call, snap, lock, stored, service,
                 history>>

\* refreshCtx ends, or the network fails; an answer on its way is lost. (A
\* request the service handles later still has the effect of an earlier Grant.)
CallFails(p) ==
  /\ pc[p] = "sent" /\ (Faults \/ callAge[p] = RefreshTimeout)
  /\ dropped' = IF Rotates(reply[p]) THEN dropped \cup {site[p]} ELSE dropped
  /\ Return(p, "failed")
  /\ UNCHANGED <<site, bundle, locked, waiting, call, snap, lock, stored, service,
                 runs, crashes, bypassed, raced, leftover>>

-----------------------------------------------------------------------------
(* store.Set and the deferred release *)

\* keyringStore.Set replaces the one entry.
SaveKeyring(p) ==
  /\ pc[p] = "save" /\ site[p] \notin FileSite
  /\ stored' = [stored EXCEPT ![site[p]] = bundle[p]]
  /\ Return(p, "ok")
  /\ UNCHANGED <<site, bundle, locked, waiting, call, snap, lock, service, history>>

\* fileStore.Set loads the document of all file-backed sites ...
LoadFile(p) ==
  /\ pc[p] = "save" /\ site[p] \in FileSite
  /\ snap' = [snap EXCEPT ![p] = stored]
  /\ Goto(p, "write")
  /\ UNCHANGED <<site, bundle, outcome, locked, waiting, call, lock, stored,
                 service, history>>

\* ... and renames a changed copy over it.
WriteFile(p) ==
  /\ pc[p] = "write"
  /\ stored' = [s \in Site |-> IF s = site[p] THEN bundle[p]
                               ELSE IF s \in FileSite THEN snap[p][s]
                               ELSE stored[s]]
  /\ Return(p, "ok")
  /\ UNCHANGED <<site, bundle, locked, waiting, call, snap, lock, service, history>>

\* Mistake: the failed write goes unnoticed.
SaveFailsBug(p) ==
  /\ Faults /\ pc[p] \in {"save", "write"} /\ Return(p, "ok")
  /\ UNCHANGED <<site, bundle, locked, waiting, call, snap, lock, stored, service,
                 history>>

\* credential_write_failed: the rotated bundle is forgotten.
SaveFails(p) ==
  /\ Faults /\ pc[p] \in {"save", "write"}
  /\ dropped' = IF Rotates(reply[p]) THEN dropped \cup {site[p]} ELSE dropped
  /\ Return(p, "failed")
  /\ UNCHANGED <<site, bundle, locked, waiting, call, snap, lock, stored, service,
                 runs, crashes, bypassed, raced, leftover>>

\* The release func: os.Remove(lockPath), or nothing.
Release(p) ==
  /\ pc[p] = "release"
  /\ lock' = IF locked[p] THEN Unlocked ELSE lock
  /\ locked' = [locked EXCEPT ![p] = FALSE]
  /\ raced' = (raced \/ (locked[p] /\ RobsHolder(p)))
  /\ Goto(p, "idle") /\ Forget(p)
  /\ UNCHANGED <<site, bundle, outcome, waiting, stored, service, runs, crashes,
                 bypassed, leftover, dropped>>

\* os.Remove fails, which goes unnoticed: the run ends and its lock file stays.
ReleaseFails(p) ==
  /\ Faults /\ pc[p] = "release" /\ locked[p]
  /\ locked' = [locked EXCEPT ![p] = FALSE]
  /\ leftover' = TRUE
  /\ Goto(p, "idle") /\ Forget(p)
  /\ UNCHANGED <<site, bundle, outcome, waiting, lock, stored, service, runs, crashes,
                 bypassed, raced, dropped>>

\* The process dies where it is; its lock file stays.
Crash(p) ==
  /\ pc[p] # "idle" /\ crashes < MaxCrashes
  /\ crashes' = crashes + 1
  /\ dropped' = IF pc[p] \in {"sent", "save", "write"} /\ Rotates(reply[p])
                THEN dropped \cup {site[p]} ELSE dropped
  /\ leftover' = (leftover \/ locked[p])
  /\ locked' = [locked EXCEPT ![p] = FALSE]
  /\ outcome' = [outcome EXCEPT ![p] = "crashed"]
  /\ Goto(p, "idle") /\ FreshWait(p) /\ Forget(p)
  /\ UNCHANGED <<site, bundle, lock, stored, service, runs, bypassed, raced>>

-----------------------------------------------------------------------------
\* The oldest unexpired access token of a site comes within the skew of its expiry.
Lapse(s) ==
  /\ lapsed[s] < minted[s]
  /\ lapsed' = [lapsed EXCEPT ![s] = @ + 1]
  /\ UNCHANGED <<pc, site, bundle, outcome, locked, waiting, call, snap, lock,
                 stored, minted, live, history>>

\* Nothing but the passing of time or another run can move p on.
Blocked(p) ==
  \/ pc[p] = "idle"
  \/ pc[p] = "asleep" /\ ~Awake(p)
  \/ pc[p] = "sent" /\ callAge[p] < RefreshTimeout

Tick ==
  /\ \A p \in Proc : Blocked(p)
  /\ lock' = [lock EXCEPT !.age = IF lock.held /\ @ <= LockTimeout THEN @ + 1 ELSE @]
  /\ waited' = [p \in Proc |-> IF pc[p] = "asleep" /\ waited[p] <= LockTimeout
                               THEN waited[p] + 1 ELSE waited[p]]
  /\ staleIn' = [p \in Proc |-> IF pc[p] = "asleep" /\ staleIn[p] >= 0
                                THEN staleIn[p] - 1 ELSE staleIn[p]]
  /\ callAge' = [p \in Proc |-> IF pc[p] = "sent" THEN callAge[p] + 1 ELSE callAge[p]]
  /\ UNCHANGED <<pc, site, bundle, outcome, locked, reclaimed, reply, snap, stored,
                 service, history>>

\* What a run does by itself.
Step(p) ==
  \/ FastPath(p) \/ NeedRefresh(p) \/ ReadFails(p)
  \/ CreateLock(p) \/ FindLock(p) \/ LockFails(p) \/ Inspect(p)
  \/ ReclaimLock(p) \/ ReclaimFails(p)
  \/ GiveUp(p) \/ FallAsleep(p) \/ WakeUp(p)
  \/ ReuseRefreshed(p) \/ SendRefresh(p)
  \/ ReceivePair(p) \/ ReceiveRefusal(p) \/ CallFails(p)
  \/ SaveKeyring(p) \/ LoadFile(p) \/ WriteFile(p) \/ SaveFails(p)
  \/ Release(p) \/ ReleaseFails(p)

Next ==
  \/ \E p \in Proc : Step(p) \/ Grant(p) \/ Reject(p) \/ Crash(p)
  \/ \E p \in Proc, s \in Site : StartRun(p, s)
  \/ \E s \in Site : Lapse(s)
  \/ Tick

Spec == Init /\ [][Next]_vars

\* The scheduler runs every process, and time passes. The service owes nothing.
FairSpec == Spec /\ WF_vars(Tick) /\ \A p \in Proc : WF_vars(Step(p))

-----------------------------------------------------------------------------
(* Properties. *)

\* The advisory lock did its work so far: nobody went on without it and no live
\* holder lost it. acquireRefreshLock promises no more than best effort.
Honoured == ~bypassed /\ ~raced

\* While the lock is honoured, one run at a time is between taking the lock and
\* the end of store.Set (oauth_provider.go, 82-116).
OneRefresher ==
  Honoured => \A p, q \in Proc : pc[p] \in Critical /\ pc[q] \in Critical => p = q

\* A live run never has its lock file removed by another one, unless some run left
\* its own behind, by a crash or by a removal that failed: a refresh that is slow is
\* not mistaken for a leftover (148-166).
RaceNeedsLeftover == raced => leftover

\* Nobody gives up waiting for the lock unless some run crashed while it held it:
\* what the comment of oauthRefreshLockTimeout says (24-29). False once three
\* runs queue.
BypassNeedsCrash == bypassed => crashes > 0

\* While the lock is honoured, a refresh is only under way for a site whose stored
\* token has lapsed: the re-read under the lock (85-92) spares every other one.
NoNeedlessRefresh ==
  \A p \in Proc : Honoured /\ pc[p] = "sent" => Expired(stored[site[p]], site[p])

\* Run p has the live refresh token of site s, or it is on its way to p.
Carries(p, s) ==
  /\ site[p] = s
  /\ \/ pc[p] = "sent" /\ Rotates(reply[p]) /\ reply[p].rt = live[s]
     \/ pc[p] \in {"save", "write"} /\ bundle[p].rt = live[s] /\ bundle[p].secret

\* While the lock is honoured, the live refresh token of every site is stored with
\* the client secret or about to be, unless a crash, a lost answer or a failed write
\* hit the very run that held its only copy. Another site's refresh never loses it.
GrantKept ==
  Honoured => \A s \in Site \ dropped :
                \/ stored[s].rt = live[s] /\ stored[s].secret
                \/ \E p \in Proc : Carries(p, s)

\* While the lock is honoured, a user is told to log in again only for a site whose
\* grant really was dropped.
ReauthIsHonest ==
  \A p \in Proc : Honoured /\ outcome[p] = "reauth" => site[p] \in dropped

\* While the lock is honoured, a run that goes on with an access token has left its
\* pair, or a later one, in the store.
ReturnedIsStored ==
  \A p \in Proc :
    Honoured /\ outcome[p] = "ok" => bundle[p].at <= stored[site[p]].at

\* While the lock is honoured no write puts an older pair in the store, for the
\* site it refreshes or for another site of the same document.
StoredAdvances == [][Honoured' => \A s \in Site : stored'[s].at >= stored[s].at]_vars

\* Every run comes to an end: no lock, left over or busy, holds it up for ever.
RunEnds == \A p \in Proc : pc[p] # "idle" ~> pc[p] = "idle"
=============================================================================
