-------------------------- MODULE CredentialsProofs --------------------------
(***************************************************************************)
(* Proofs about Credentials for any sites, runs, refreshes and failures,   *)
(* as long as auth commands do not overlap with one another.               *)
(*                                                                         *)
(* The invariant says what the command under way, and the runs that        *)
(* refresh, know of their site, and that whatever they cannot know of each *)
(* other has been noted. Each step is then shown to keep what it touches;  *)
(* the lemmas AuthKeeps and RunQuiet show that it keeps the rest. That     *)
(* secrets only get newer is a second invariant on top of the first.       *)
(***************************************************************************)
EXTENDS Credentials, TLAPS

\* No number is used before it is issued.
NumberInv ==
  /\ \A b \in Auth!Backend, s \in Site : vault[b][s] <= runs
  /\ \A p \in Proc : job[p].login <= runs /\ \A s \in Site : doc[p][s] <= runs
  /\ \A r \in Reader : token[r] <= runs /\ \A s \in Site : rdoc[r][s] <= runs
  /\ \A u \in spent : u[2] <= runs
  /\ \A n \in Number : n > runs => origin[n] = n

\* Which command can be where, and what it knows there (as in AuthStoreProofs).
JobOf(p) ==
  /\ pc[p] # "idle" => job[p].kind \in {"token", "env", "logout"} /\ job[p].login > 0
  /\ pc[p] \in {"secret", "saveLoad", "saveWrite"} => job[p].kind = "token"
  /\ pc[p] # "idle" /\ job[p].kind = "env" => ref[p] = "env"
  /\ pc[p] \in {"load", "write", "clear", "clearWrite"} /\ job[p].kind = "token"
       => ref[p] \in Auth!Backend
  /\ pc[p] \in {"clear", "clearWrite"} /\ job[p].kind # "logout" => Auth!Former(p) # ref[p]
  /\ pc[p] = "clearWrite" => Auth!Former(p) = "file"
  /\ pc[p] # "idle" /\ job[p].kind = "token" => origin[job[p].login] = job[p].login

JobInv == \A p \in Proc : JobOf(p)

\* One auth command at a time.
SoloInv == \A p, q \in Proc : pc[p] # "idle" /\ pc[q] # "idle" => p = q

\* Its copy of config.json is the file.
CopyOf(p) ==
  /\ pc[p] = "write" => cfg[p] = config
  /\ pc[p] \in {"clear", "clearWrite"} =>
       IF job[p].kind = "logout" THEN cfg[p] = config
       ELSE config.sites =
              [cfg[p].sites EXCEPT ![job[p].arg] = [ref |-> ref[p], login |-> job[p].login]]

CopyInv == \A p \in Proc : CopyOf(p)

\* One refresh at a time under the lock.
LockInv ==
  \A r, q \in Reader : rpc[r] \in Refreshing /\ rpc[q] \in Refreshing =>
    r = q \/ r \in unlocked \/ q \in unlocked

\* Where the two meet, it has been noted.
CrossInv == Crossing \subseteq crossed

\* Who has loaded credentials.json has what is in it, but for sites that were crossed.
DocInv ==
  \A c \in Site \ crossed :
    /\ \A p \in Proc : pc[p] \in {"saveWrite", "clearWrite"} => doc[p][c] = vault["file"][c]
    /\ \A r \in Reader : rpc[r] = "write" => rdoc[r][c] = vault["file"][c]

\* A command knows the secret it has stored or deleted; one not stored yet is nowhere.
SecretOf(p) ==
  job[p].arg \notin crossed =>
    /\ Auth!Unrecorded(p) => vault[ref[p]][job[p].arg] = job[p].login
    /\ Auth!Emptied(p) => vault[Auth!Former(p)][job[p].arg] = 0
    /\ pc[p] \in {"secret", "saveLoad", "saveWrite"} =>
         \A b \in Auth!Backend : vault[b][job[p].arg] # job[p].login
    /\ pc[p] # "idle" /\ job[p].kind = "token" => <<job[p].arg, job[p].login>> \notin spent

SecretInv == \A p \in Proc : SecretOf(p)

\* The two backends never hold the same secret.
ApartInv == \A s \in Site \ crossed : vault["keyring"][s] = vault["file"][s] => vault["file"][s] = 0

\* A profile finds its secret, of its own login; if the service has used it up, then
\* its successor is about to be written or was lost. Excepted is the command under way.
Loses(p, s) == job[p].arg = s /\ (Auth!Replaced(p) \/ Auth!Emptied(p))
Pending(s) == \E r \in Reader :
  rsite[r] = s /\ rpc[r] \in {"save", "write"} /\ prof[r].ref = config.sites[s].ref
Found(s) ==
  /\ Stored(s) # 0 /\ origin[Stored(s)] = config.sites[s].login
  /\ <<s, Stored(s)>> \in spent => <<s, config.sites[s].login>> \in dropped \/ Pending(s)
FoundInv ==
  \A s \in Site \ (torn \cup crossed) :
    config.sites[s].ref \in Auth!Backend => Found(s) \/ \E p \in Proc : Loses(p, s)

\* A stored secret has its profile, or is known to be left over.
Leaves(p, s, b) ==
  /\ job[p].arg = s
  /\ \/ Auth!Unrecorded(p) /\ ref[p] = b
     \/ Auth!Kept(p) /\ Auth!Former(p) = b
OwnedInv ==
  \A s \in Site \ crossed, b \in Auth!Backend : vault[b][s] # 0 =>
    config.sites[s].ref = b \/ <<s, b>> \in residue \/ \E p \in Proc : Leaves(p, s, b)

\* A run has a secret when it needs one; while it refreshes, nobody touches the place
\* the pair came from.
Has(r) == rpc[r] \in {"acquire", "use"} \cup Refreshing
RunOf(r) ==
  /\ rpc[r] # "idle" => prof[r].ref \in Auth!Backend
  /\ Has(r) => token[r] # 0
  /\ rpc[r] = "write" => prof[r].ref = "file"
RefreshOf(r) ==
  rpc[r] \in {"sent", "save", "write"} /\ rsite[r] \notin crossed =>
    /\ config.sites[rsite[r]].ref = prof[r].ref \/ <<rsite[r], prof[r].ref>> \in residue
    /\ Entry(r) # 0
    /\ rpc[r] = "sent" => token[r] = Entry(r)
    /\ rpc[r] # "sent" =>
         /\ <<rsite[r], token[r]>> \notin spent /\ origin[token[r]] = origin[Entry(r)]
         /\ \A b \in Auth!Backend : vault[b][rsite[r]] # token[r]
RunInv == \A r \in Reader : RunOf(r) /\ RefreshOf(r)

\* A run that met no auth command has the profile that is stored, and its tokens.
MetOf(r) ==
  rpc[r] # "idle" /\ ~met[r] =>
    /\ ~AuthOn(rsite[r]) /\ prof[r] = config.sites[rsite[r]]
    /\ rsite[r] \notin torn \cup crossed =>
         /\ Has(r) => origin[token[r]] = prof[r].login
         /\ rpc[r] = "sent" /\ <<rsite[r], token[r]>> \in spent =>
              <<rsite[r], prof[r].login>> \in dropped
         /\ rpc[r] = "refused" => <<rsite[r], prof[r].login>> \in dropped
MetInv == \A r \in Reader : MetOf(r)

Inv ==
  /\ TypeOK /\ NumberInv /\ JobInv /\ SoloInv /\ CopyInv /\ LockInv /\ CrossInv /\ DocInv
  /\ SecretInv /\ ApartInv /\ FoundInv /\ OwnedInv /\ RunInv /\ MetInv
-----------------------------------------------------------------------------
(* Types. *)

\* The blank values are of their types; an empty profile is no profile.
LEMMA BlankTypes ==
  /\ Auth!NoProfile \in Auth!Profile /\ Auth!NoConfig \in Auth!Config /\ Auth!NoJob \in Auth!Jobs
  /\ \A x \in Auth!Profile :
       /\ x.ref \in {"keyring", "file", "env", "none"} /\ x.login \in 0..MaxRuns
       /\ x.ref = "none" <=> x = Auth!NoProfile
       /\ x # Auth!NoProfile => x.login \in 1..MaxRuns
<1>0. MaxRuns \in Nat /\ 0 \in 0..MaxRuns
  BY CredentialsAssumption
<1>1. Auth!NoProfile \in Auth!Profile
  BY DEF Auth!NoProfile, Auth!Profile
<1>2. ASSUME NEW x \in Auth!Profile
      PROVE  /\ x.ref \in {"keyring", "file", "env", "none"} /\ x.login \in 0..MaxRuns
             /\ x.ref = "none" <=> x = Auth!NoProfile
             /\ x # Auth!NoProfile => x.login \in 1..MaxRuns
  BY <1>0 DEF Auth!NoProfile, Auth!Profile, Auth!Ref, Auth!Backend
<1>3. Auth!NoConfig \in Auth!Config
  BY <1>1 DEF Auth!NoConfig, Auth!Config
<1>4. Auth!NoJob \in Auth!Jobs
  BY <1>0 DEF Auth!NoJob, Auth!Jobs
<1> QED BY <1>1, <1>2, <1>3, <1>4

\* Every variable has its type initially.
LEMMA InitType == Init => TypeOK
<1> SUFFICES ASSUME Init PROVE TypeOK
  OBVIOUS
<1>1. 0 \in Auth!Secret /\ 1 \in Auth!Secret /\ 1 \in 0..MaxRuns /\ 0 \in 0..MaxStops /\ 1 \in 1..MaxRuns
  BY CredentialsAssumption DEF Auth!Secret
<1>2. PICK sites \in [Site -> {Auth!NoProfile} \cup [ref: Auth!Backend, login: {1}]] :
        /\ config = [sites |-> sites, default |-> None, aliases |-> {}]
        /\ vault = [b \in Auth!Backend |-> [s \in Site |->
                      IF sites[s].ref = b THEN sites[s].login ELSE 0]]
  BY DEF Init
<1>3. \A s \in Site : sites[s] \in Auth!Profile /\ sites[s].login \in {0, 1}
  <2>1. ASSUME NEW s \in Site PROVE sites[s] \in Auth!Profile /\ sites[s].login \in {0, 1}
    <3>1. CASE sites[s] = Auth!NoProfile
      BY <3>1, BlankTypes DEF Auth!NoProfile
    <3>2. CASE sites[s] \in [ref: Auth!Backend, login: {1}]
      BY <1>1, <3>2 DEF Auth!Profile, Auth!Ref
    <3> QED BY <3>1, <3>2
  <2> QED BY <2>1
<1>4. config \in Auth!Config
  BY <1>2, <1>3 DEF Auth!Config
<1>5. vault \in [Auth!Backend -> [Site -> Auth!Secret]]
  BY <1>1, <1>2, <1>3
<1>6. /\ pc \in [Proc -> Auth!PC] /\ job \in [Proc -> Auth!Jobs] /\ cfg \in [Proc -> Auth!Config]
      /\ doc \in [Proc -> [Site -> Auth!Secret]] /\ ref \in [Proc -> Auth!Ref]
      /\ \A p \in Proc : pc[p] \notin {"clear", "clearWrite"}
  BY <1>1, BlankTypes DEF Init, Auth!PC, Auth!Ref
<1>7. Auth!TypeOK
  BY <1>1, <1>4, <1>5, <1>6 DEF Init, Auth!TypeOK
<1>8. /\ rpc \in [Reader -> {"idle", "get", "acquire", "use", "refused"} \cup Refreshing]
      /\ rsite \in [Reader -> Site] /\ prof \in [Reader -> Auth!Profile]
      /\ token \in [Reader -> Auth!Secret] /\ rdoc \in [Reader -> [Site -> Auth!Secret]]
      /\ unlocked \in SUBSET Reader
  BY <1>1, BlankTypes DEF Init
<1>9. spent = {} /\ dropped = {} /\ crossed = {} /\ met \in [Reader -> BOOLEAN]
      /\ origin \in [Number -> Number]
  BY DEF Init
<1> QED BY <1>7, <1>8, <1>9 DEF TypeOK

-----------------------------------------------------------------------------
(* Steps of an auth command. *)

\* A command at rest makes no exception.
LEMMA IdleIsInnocent ==
  ASSUME NEW p \in Proc, pc[p] = "idle", NEW s \in Site, NEW b \in Auth!Backend
  PROVE  ~Loses(p, s) /\ ~Leaves(p, s, b)
BY DEF Loses, Leaves, Auth!Replaced, Auth!Unrecorded, Auth!Emptied, Auth!Kept

\* What a command may do: it touches the profile, the secrets and the notes of its own
\* site, and elsewhere what was crossed.
Touches(p, s) ==
  /\ \A c \in Site \ {s} :
       /\ config'.sites[c] = config.sites[c] /\ (c \in torn' <=> c \in torn)
       /\ \A b \in Auth!Backend : <<c, b>> \in residue' <=> <<c, b>> \in residue
       /\ c \notin crossed => \A b \in Auth!Backend : vault'[b][c] = vault[b][c]
  /\ s \notin crossed =>
       vault'["file"][s] = vault["file"][s] \/ pc[p] \in {"saveWrite", "clearWrite"}

\* What a command leaves of its own site.
Leaving(p, s) ==
  s \notin crossed =>
    /\ vault'["keyring"][s] = vault'["file"][s] => vault'["file"][s] = 0
    /\ s \notin torn' /\ config'.sites[s].ref \in Auth!Backend =>
         Found(s)' \/ Loses(p, s)'
    /\ \A b \in Auth!Backend : vault'[b][s] # 0 =>
         config'.sites[s].ref = b \/ <<s, b>> \in residue' \/ Leaves(p, s, b)'

\* It does not refresh meanwhile: that would have been noted.
LEMMA Uncrossed ==
  ASSUME Inv, NEW p \in Proc, pc[p] # "idle", job[p].arg \in Site
  PROVE  /\ AuthOn(job[p].arg)
         /\ job[p].arg \notin crossed => ~RefreshOn(job[p].arg)
         /\ \A r \in Reader : rpc[r] \in {"sent", "save", "write"} /\ rsite[r] \notin crossed =>
              rsite[r] # job[p].arg
         /\ pc[p] \in {"saveWrite", "clearWrite"} =>
              \A r \in Reader : rpc[r] = "write" => job[p].arg \in crossed
<1>1. AuthOn(job[p].arg) /\ CrossInv
  BY DEF AuthOn, Inv
<1>2. job[p].arg \notin crossed => ~RefreshOn(job[p].arg)
  BY <1>1 DEF CrossInv, Crossing
<1>3. \A r \in Reader : rpc[r] \in {"sent", "save", "write"} /\ rsite[r] \notin crossed =>
        rsite[r] # job[p].arg
  BY <1>2 DEF RefreshOn
<1>4. ASSUME pc[p] \in {"saveWrite", "clearWrite"}, NEW r \in Reader, rpc[r] = "write"
      PROVE  job[p].arg \in crossed
  <2>1. job[p].arg \in AuthEditing /\ rsite[r] \in RunEditing
    BY <1>4 DEF AuthEditing, RunEditing
  <2> QED BY <1>1, <2>1 DEF CrossInv, Crossing
<1> QED BY <1>1, <1>2, <1>3, <1>4

\* A command's step that keeps to its own site, and leaves that in order, keeps the
\* invariant.
LEMMA AuthKeeps ==
  ASSUME Inv, NEW p \in Proc, NEW s, pc[p] # "idle", s = job[p].arg, s \in Site, Observe,
         UNCHANGED <<run, service, dropped, runs, job>>, Auth!TypeOK',
         \A q \in Proc \ {p} : pc'[q] = pc[q] /\ ref'[q] = ref[q] /\ cfg'[q] = cfg[q] /\ doc'[q] = doc[q],
         \A c \in Site : doc'[p][c] <= runs /\ \A b \in Auth!Backend : vault'[b][c] <= runs,
         \A c \in Site \ crossed : pc'[p] \in {"saveWrite", "clearWrite"} => doc'[p][c] = vault'["file"][c],
         JobOf(p)', CopyOf(p)', SecretOf(p)', Touches(p, s), Leaving(p, s)
  PROVE  Inv'
<1>1. /\ TypeOK /\ NumberInv /\ JobInv /\ SoloInv /\ CopyInv /\ LockInv /\ CrossInv /\ DocInv
      /\ SecretInv /\ ApartInv /\ FoundInv /\ OwnedInv /\ RunInv /\ MetInv
  BY DEF Inv
<1>2. /\ UNCHANGED <<rpc, rsite, prof, token, rdoc, unlocked, spent, origin, dropped, runs, job>>
      /\ crossed' = crossed \cup Crossing'
      /\ met' = [r \in Reader |-> rpc'[r] # "idle" /\ (met[r] \/ AuthOn(rsite[r])')]
  BY DEF run, service, Observe
<1>3. \A q \in Proc \ {p} : pc[q] = "idle" /\ pc'[q] = "idle"
  BY <1>1 DEF SoloInv
<1>4. crossed \subseteq crossed'
  BY <1>2
<1>5. \A c \in Site, q \in Proc, b \in Auth!Backend :
        /\ Loses(q, c) => q = p /\ c = s
        /\ Leaves(q, c, b) => q = p /\ c = s
  BY <1>3, IdleIsInnocent DEF Loses, Leaves
<1>6. TypeOK'
  <2>1. Crossing' \in SUBSET Site
    <3>1. AuthEditing' \subseteq {s}
      BY <1>2, <1>3 DEF AuthEditing
    <3>2. RunEditing' \subseteq Site /\ \A r \in Reader : rsite'[r] \in Site
      BY <1>1, <1>2 DEF RunEditing, TypeOK
    <3> QED BY <3>1, <3>2 DEF Crossing
  <2>2. met' \in [Reader -> BOOLEAN]
    BY <1>2
  <2> QED BY <1>1, <1>2, <2>1, <2>2 DEF TypeOK
<1>7. NumberInv'
  BY <1>1, <1>2 DEF NumberInv
<1>8. JobInv'
  BY <1>2, <1>3 DEF JobInv, JobOf
<1>9. SoloInv' /\ CopyInv' /\ LockInv' /\ CrossInv'
  BY <1>1, <1>2, <1>3 DEF SoloInv, CopyInv, CopyOf, LockInv, CrossInv
<1>10. DocInv'
  <2>1. ASSUME NEW c \in Site \ crossed, NEW r \in Reader, rpc[r] = "write"
        PROVE  rdoc[r][c] = vault'["file"][c]
    <3>1. rdoc[r][c] = vault["file"][c] /\ "file" \in Auth!Backend
      BY <1>1, <2>1 DEF DocInv, Auth!Backend
    <3> QED BY <2>1, <3>1, Uncrossed DEF Touches
  <2> QED BY <1>2, <1>3, <1>4, <2>1 DEF DocInv
<1>11. SecretInv'
  <2>1. \A q \in Proc \ {p} : SecretOf(q)'
    BY <1>3 DEF SecretOf, Auth!Unrecorded, Auth!Emptied
  <2> QED BY <2>1 DEF SecretInv, SecretOf
<1>12. ApartInv'
  <2>1. "file" \in Auth!Backend /\ "keyring" \in Auth!Backend
    BY DEF Auth!Backend
  <2> QED BY <1>1, <1>4, <2>1 DEF ApartInv, Touches, Leaving
<1>13. FoundInv'
  <2> SUFFICES ASSUME NEW c \in Site, c \notin torn', c \notin crossed', config'.sites[c].ref \in Auth!Backend
               PROVE  Found(c)' \/ \E q \in Proc : Loses(q, c)'
    BY DEF FoundInv
  <2>1. CASE c = s
    BY <1>4, <2>1 DEF Leaving
  <2>2. CASE c # s
    <3>1. Found(c)
      BY <1>1, <1>4, <1>5, <2>2 DEF FoundInv, Touches
    <3>2. Found(c)'
      BY <1>2, <1>4, <2>2, <3>1 DEF Found, Pending, Stored, Touches
    <3> QED BY <3>2
  <2> QED BY <2>1, <2>2
<1>14. OwnedInv'
  <2> SUFFICES ASSUME NEW c \in Site, c \notin crossed', NEW b \in Auth!Backend, vault'[b][c] # 0
               PROVE  \/ config'.sites[c].ref = b \/ <<c, b>> \in residue'
                      \/ \E q \in Proc : Leaves(q, c, b)'
    BY DEF OwnedInv
  <2>1. CASE c = s
    BY <1>4, <2>1 DEF Leaving
  <2>2. CASE c # s
    BY <1>1, <1>4, <1>5, <2>2 DEF OwnedInv, Touches
  <2> QED BY <2>1, <2>2
<1>15. RunInv'
  <2>1. ASSUME NEW r \in Reader PROVE RunOf(r)'
    BY <1>1, <1>2 DEF RunInv, RunOf, Has
  <2>2. ASSUME NEW r \in Reader, rpc[r] \in {"sent", "save", "write"}, rsite[r] \notin crossed'
        PROVE  RefreshOf(r)'
    <3>1. rsite[r] # s /\ rsite[r] \notin crossed /\ rsite[r] \in Site /\ prof[r].ref \in Auth!Backend
      BY <1>1, <1>4, <2>2, Uncrossed DEF TypeOK, RunInv, RunOf
    <3>2. RefreshOf(r) /\ Entry(r)' = Entry(r)
      BY <1>1, <1>2, <3>1 DEF RunInv, Entry, Touches
    <3> QED BY <1>2, <2>2, <3>1, <3>2 DEF RefreshOf, Touches
  <2>3. ASSUME NEW r \in Reader PROVE RefreshOf(r)'
    BY <1>2, <2>2 DEF RefreshOf
  <2> QED BY <2>1, <2>3 DEF RunInv
<1>16. MetInv'
  <2> SUFFICES ASSUME NEW r \in Reader, rpc[r] # "idle", ~met'[r]
               PROVE  MetOf(r)'
    BY <1>2 DEF MetInv, MetOf
  <2>1. ~met[r] /\ ~AuthOn(rsite[r])' /\ rsite[r] \in Site
    BY <1>1, <1>2 DEF TypeOK
  <2>2. MetOf(r) /\ ~AuthOn(rsite[r])
    BY <1>1, <2>1 DEF MetInv, MetOf
  <2>3. rsite[r] # s
    BY <2>2, Uncrossed
  <2>4. prof[r] = config'.sites[rsite[r]] /\ (rsite[r] \in torn' <=> rsite[r] \in torn)
    BY <2>1, <2>2, <2>3 DEF MetOf, Touches
  <2> QED BY <1>2, <1>4, <2>1, <2>2, <2>4 DEF MetOf, Has
<1> QED BY <1>6, <1>7, <1>8, <1>9, <1>10, <1>11, <1>12, <1>13, <1>14, <1>15, <1>16 DEF Inv

\* What the command under way knows of its site.
LEMMA AuthKnows ==
  ASSUME Inv, NEW p \in Proc, pc[p] # "idle"
  PROVE  /\ job[p].arg \in Site /\ job[p].kind \in {"token", "env", "logout"}
         /\ job[p].login \in Auth!Secret /\ 0 \in Auth!Secret /\ job[p].login # 0 /\ job[p].login <= runs
         /\ JobOf(p) /\ CopyOf(p) /\ SecretOf(p) /\ Auth!TypeOK /\ TypeOK
         /\ \A q \in Proc \ {p} : pc[q] = "idle"
         /\ job[p].arg \notin crossed =>
              /\ vault["keyring"][job[p].arg] = vault["file"][job[p].arg] => vault["file"][job[p].arg] = 0
              /\ pc[p] \in {"saveWrite", "clearWrite"} => doc[p][job[p].arg] = vault["file"][job[p].arg]
              /\ job[p].arg \notin torn /\ config.sites[job[p].arg].ref \in Auth!Backend =>
                   Found(job[p].arg) \/ Loses(p, job[p].arg)
              /\ \A b \in Auth!Backend : vault[b][job[p].arg] # 0 =>
                   \/ config.sites[job[p].arg].ref = b \/ <<job[p].arg, b>> \in residue
                   \/ Leaves(p, job[p].arg, b)
         /\ \A c \in Site \ crossed, b \in Auth!Backend :
              pc[p] \in {"saveWrite", "clearWrite"} => doc[p][c] = vault["file"][c]
<1>1. /\ TypeOK /\ Auth!TypeOK /\ NumberInv /\ JobInv /\ SoloInv /\ CopyInv /\ DocInv
      /\ SecretInv /\ ApartInv /\ FoundInv /\ OwnedInv
  BY DEF Inv, TypeOK
<1>2. job[p] \in Auth!Jobs
  BY <1>1 DEF Auth!TypeOK
<1>3. JobOf(p) /\ job[p].kind \in {"token", "env", "logout"} /\ job[p].login > 0 /\ job[p].login <= runs
  BY <1>1 DEF JobInv, JobOf, NumberInv
<1>4. job[p].arg \in Site /\ job[p].login \in Auth!Secret /\ 0 \in Auth!Secret /\ job[p].login # 0
  BY <1>2, <1>3, CredentialsAssumption DEF Auth!Jobs, Auth!Secret
<1>5. CopyOf(p)
  BY <1>1 DEF CopyInv, CopyOf
<1>6. SecretOf(p)
  BY <1>1 DEF SecretInv, SecretOf
<1>7. \A q \in Proc \ {p} : pc[q] = "idle"
  BY <1>1 DEF SoloInv
<1>8. \A q \in Proc, b \in Auth!Backend :
        /\ Loses(q, job[p].arg) => q = p
        /\ Leaves(q, job[p].arg, b) => q = p
  BY <1>4, <1>7, IdleIsInnocent
<1>9. "file" \in Auth!Backend
  BY DEF Auth!Backend
<1>10. job[p].arg \notin crossed =>
         /\ vault["keyring"][job[p].arg] = vault["file"][job[p].arg] => vault["file"][job[p].arg] = 0
         /\ pc[p] \in {"saveWrite", "clearWrite"} => doc[p][job[p].arg] = vault["file"][job[p].arg]
         /\ job[p].arg \notin torn /\ config.sites[job[p].arg].ref \in Auth!Backend =>
              Found(job[p].arg) \/ Loses(p, job[p].arg)
  BY <1>1, <1>4, <1>8, <1>9 DEF ApartInv, DocInv, FoundInv
<1>11. job[p].arg \notin crossed =>
         \A b \in Auth!Backend : vault[b][job[p].arg] # 0 =>
           \/ config.sites[job[p].arg].ref = b \/ <<job[p].arg, b>> \in residue
           \/ Leaves(p, job[p].arg, b)
  BY <1>1, <1>4, <1>8 DEF OwnedInv
<1>12. \A c \in Site \ crossed, b \in Auth!Backend :
         pc[p] \in {"saveWrite", "clearWrite"} => doc[p][c] = vault["file"][c]
  BY <1>1 DEF DocInv
<1> QED BY <1>1, <1>3, <1>4, <1>5, <1>6, <1>7, <1>10, <1>11, <1>12

\* What a command's step leaves alone.
LEMMA AuthFrame ==
  ASSUME TypeOK, NEW p \in Proc, Auth!Step(p)
  PROVE  /\ pc[p] # "idle" /\ UNCHANGED <<runs, job>>
         /\ \A q \in Proc \ {p} :
              pc'[q] = pc[q] /\ ref'[q] = ref[q] /\ cfg'[q] = cfg[q] /\ doc'[q] = doc[q]
BY DEF TypeOK, Auth!TypeOK, Auth!Step, Auth!SetInKeyring, Auth!KeyringRefuses,
   Auth!LoadToSet,
       Auth!SetInFile, Auth!LoadConfig, Auth!Refuse, Auth!WriteConfig, Auth!ClearNothing,
       Auth!DeleteFromKeyring, Auth!LoadToDelete, Auth!DeleteFromFile, Auth!Stops, Auth!Goto,
       Auth!Cleared, Auth!disk, Auth!local, Auth!history

\* The edited document is a document.
LEMMA EditedType ==
  ASSUME NEW j \in Auth!Jobs, NEW c \in Auth!Config, NEW x \in Auth!Ref, j.login > 0,
         j.kind \in {"token", "env", "logout"}
  PROVE  /\ Auth!Edited(j, c, x) \in Auth!Config
         /\ j.kind = "logout" => Auth!Edited(j, c, x).sites = [c.sites EXCEPT ![j.arg] = Auth!NoProfile]
         /\ j.kind # "logout" =>
              Auth!Edited(j, c, x).sites = [c.sites EXCEPT ![j.arg] = [ref |-> x, login |-> j.login]]
<1>1. [ref |-> x, login |-> j.login] \in Auth!Profile
  BY CredentialsAssumption DEF Auth!Profile, Auth!Jobs
<1>2. CASE j.kind = "logout"
  BY <1>2, BlankTypes DEF Auth!Edited, Auth!WithoutSite, Auth!Config, Auth!Jobs, Auth!Logins
<1>3. CASE j.kind \in {"token", "env"}
  BY <1>1, <1>3 DEF Auth!Edited, Auth!Config, Auth!Jobs, Auth!Logins
<1> QED BY <1>2, <1>3

\* A command's step keeps the variables of the commands in their types.
LEMMA AuthTypes ==
  ASSUME Inv, NEW p \in Proc, Auth!Step(p)
  PROVE  Auth!TypeOK'
<1> DEFINE s == job[p].arg
<1>0. /\ pc[p] # "idle" /\ Auth!TypeOK /\ s \in Site /\ job[p].kind \in {"token", "env", "logout"}
      /\ job[p].login \in Auth!Secret /\ 0 \in Auth!Secret /\ JobOf(p)
  BY AuthFrame, AuthKnows DEF Inv
<1> USE CredentialsAssumption
    DEF Auth!PC, Auth!Goto, Auth!Ref, Auth!Backend, Auth!disk, Auth!local, Auth!history, Auth!Former
<1>1. ASSUME Auth!SetInKeyring(p) PROVE Auth!TypeOK'
  <2>1. vault' \in [Auth!Backend -> [Site -> Auth!Secret]]
    BY <1>0, <1>1 DEF Auth!SetInKeyring, Auth!Stored, Auth!TypeOK
  <2> QED BY <1>0, <1>1, <2>1 DEF Auth!SetInKeyring, Auth!TypeOK
<1>2. ASSUME Auth!KeyringRefuses(p) PROVE Auth!TypeOK'
  BY <1>0, <1>2 DEF Auth!KeyringRefuses, Auth!TypeOK
<1>3. ASSUME Auth!LoadToSet(p) PROVE Auth!TypeOK'
  BY <1>0, <1>3 DEF Auth!LoadToSet, Auth!TypeOK
<1>4. ASSUME Auth!SetInFile(p) PROVE Auth!TypeOK'
  <2>1. vault' \in [Auth!Backend -> [Site -> Auth!Secret]]
    BY <1>0, <1>4 DEF Auth!SetInFile, Auth!TypeOK
  <2> QED BY <1>0, <1>4, <2>1 DEF Auth!SetInFile, Auth!TypeOK
<1>5. ASSUME Auth!LoadConfig(p) PROVE Auth!TypeOK'
  <2>1. job[p].kind = "logout" => config.sites[s].ref # "none"
    BY <1>0, <1>5, BlankTypes DEF Auth!LoadConfig, Auth!Applicable, Auth!TypeOK, Auth!Config
  <2> QED BY <1>0, <1>5, <2>1 DEF Auth!LoadConfig, Auth!TypeOK
<1>6. ASSUME Auth!Refuse(p) PROVE Auth!TypeOK'
  BY <1>0, <1>6 DEF Auth!Refuse, Auth!TypeOK
<1>7. ASSUME Auth!WriteConfig(p) PROVE Auth!TypeOK'
  <2>1. config' \in Auth!Config
    BY <1>0, <1>7, EditedType DEF Auth!WriteConfig, Auth!TypeOK, JobOf
  <2>2. torn' \in SUBSET Site /\ residue' \in SUBSET (Site \X Auth!Backend)
    BY <1>0, <1>7 DEF Auth!WriteConfig, Auth!TypeOK
  <2>3. Auth!Supersedes(p) => Auth!Former(p) # "none"
    BY DEF Auth!Supersedes
  <2> QED BY <1>0, <1>7, <2>1, <2>2, <2>3 DEF Auth!WriteConfig, Auth!TypeOK
<1>8. ASSUME Auth!ClearNothing(p) PROVE Auth!TypeOK'
  BY <1>0, <1>8 DEF Auth!ClearNothing, Auth!Cleared, Auth!TypeOK
<1>9. ASSUME Auth!DeleteFromKeyring(p) PROVE Auth!TypeOK'
  <2>1. vault' \in [Auth!Backend -> [Site -> Auth!Secret]]
    BY <1>0, <1>9 DEF Auth!DeleteFromKeyring, Auth!Stored, Auth!TypeOK
  <2> QED BY <1>0, <1>9, <2>1 DEF Auth!DeleteFromKeyring, Auth!Cleared, Auth!TypeOK
<1>10. ASSUME Auth!LoadToDelete(p) PROVE Auth!TypeOK'
  BY <1>0, <1>10 DEF Auth!LoadToDelete, Auth!Cleared, Auth!TypeOK
<1>11. ASSUME Auth!DeleteFromFile(p) PROVE Auth!TypeOK'
  <2>1. vault' \in [Auth!Backend -> [Site -> Auth!Secret]]
    BY <1>0, <1>11 DEF Auth!DeleteFromFile, Auth!TypeOK
  <2> QED BY <1>0, <1>11, <2>1 DEF Auth!DeleteFromFile, Auth!Cleared, Auth!TypeOK
<1>12. ASSUME Auth!Stops(p) PROVE Auth!TypeOK'
  <2>1. torn' \in SUBSET Site /\ residue' \in SUBSET (Site \X Auth!Backend)
    BY <1>0, <1>12 DEF Auth!Stops, Auth!TypeOK
  <2> QED BY <1>0, <1>12, <2>1 DEF Auth!Stops, Auth!TypeOK
<1> QED BY <1>1, <1>2, <1>3, <1>4, <1>5, <1>6, <1>7, <1>8, <1>9, <1>10, <1>11, <1>12
   DEF Auth!Step

\* A step that changes neither file nor keychain, and gives up no exception without
\* recording it, keeps the invariant.
LEMMA AuthQuiet ==
  ASSUME Inv, NEW p \in Proc, NEW s, s = job[p].arg, Auth!Step(p), Observe,
         UNCHANGED <<run, service, dropped, config, vault>>,
         \A c \in Site : /\ c \in torn => c \in torn'
                         /\ c # s => (c \in torn <=> c \in torn')
                         /\ \A b \in Auth!Backend :
                              /\ <<c, b>> \in residue => <<c, b>> \in residue'
                              /\ c # s => (<<c, b>> \in residue <=> <<c, b>> \in residue'),
         JobOf(p)', CopyOf(p)', SecretOf(p)',
         doc'[p] = vault["file"] \/ (doc'[p] = doc[p] /\ pc'[p] \notin {"saveWrite", "clearWrite"}),
         Loses(p, s) => Loses(p, s)' \/ s \in torn',
         \A b \in Auth!Backend : Leaves(p, s, b) =>
           Leaves(p, s, b)' \/ <<s, b>> \in residue' \/ vault[b][s] = 0
  PROVE  Inv'
<1>1. /\ pc[p] # "idle" /\ UNCHANGED <<runs, job>> /\ Auth!TypeOK' /\ NumberInv
      /\ \A q \in Proc \ {p} : pc'[q] = pc[q] /\ ref'[q] = ref[q] /\ cfg'[q] = cfg[q] /\ doc'[q] = doc[q]
  BY AuthFrame, AuthTypes DEF Inv
<1>2. "file" \in Auth!Backend /\ s \in Site
  BY <1>1, AuthKnows DEF Auth!Backend
<1>3. \A c \in Site : doc'[p][c] <= runs /\ \A b \in Auth!Backend : vault'[b][c] <= runs
  BY <1>1, <1>2 DEF NumberInv
<1>4. \A c \in Site \ crossed : pc'[p] \in {"saveWrite", "clearWrite"} => doc'[p][c] = vault'["file"][c]
  OBVIOUS
<1>5. Touches(p, s)
  BY <1>2 DEF Touches
<1>6. Found(s) => Found(s)'
  BY DEF Found, Stored, Pending, run, service
<1>7. Leaving(p, s)
  <2> SUFFICES ASSUME s \notin crossed
               PROVE  /\ vault'["keyring"][s] = vault'["file"][s] => vault'["file"][s] = 0
                      /\ s \notin torn' /\ config'.sites[s].ref \in Auth!Backend =>
                           Found(s)' \/ Loses(p, s)'
                      /\ \A b \in Auth!Backend : vault'[b][s] # 0 =>
                           config'.sites[s].ref = b \/ <<s, b>> \in residue' \/ Leaves(p, s, b)'
    BY DEF Leaving
  <2>1. /\ vault["keyring"][s] = vault["file"][s] => vault["file"][s] = 0
        /\ s \notin torn /\ config.sites[s].ref \in Auth!Backend => Found(s) \/ Loses(p, s)
        /\ \A b \in Auth!Backend : vault[b][s] # 0 =>
             config.sites[s].ref = b \/ <<s, b>> \in residue \/ Leaves(p, s, b)
    BY <1>1, AuthKnows
  <2> QED BY <1>2, <1>6, <2>1
<1> QED BY <1>1, <1>2, <1>3, <1>4, <1>5, <1>7, AuthKeeps

\* A step with the site's own promises and the rest in order.
LEMMA AuthActs ==
  ASSUME Inv, NEW p \in Proc, NEW s, s = job[p].arg, Auth!Step(p), Observe,
         UNCHANGED <<run, service, dropped, doc>>, pc'[p] \notin {"saveWrite", "clearWrite"},
         JobOf(p)', CopyOf(p)', SecretOf(p)', Touches(p, s), Leaving(p, s),
         \A c \in Site, b \in Auth!Backend :
           vault'[b][c] \in {vault[b][c], doc[p][c], job[p].login, 0}
  PROVE  Inv'
<1>1. /\ pc[p] # "idle" /\ UNCHANGED <<runs, job>> /\ Auth!TypeOK' /\ NumberInv /\ Auth!TypeOK
      /\ \A q \in Proc \ {p} : pc'[q] = pc[q] /\ ref'[q] = ref[q] /\ cfg'[q] = cfg[q] /\ doc'[q] = doc[q]
  BY AuthFrame, AuthTypes DEF Inv, TypeOK
<1>2. s \in Site
  BY <1>1, AuthKnows
<1>3. \A c \in Site : doc'[p][c] <= runs /\ \A b \in Auth!Backend : vault'[b][c] <= runs
  <2>1. 0 <= runs
    BY <1>1, CredentialsAssumption DEF Auth!TypeOK
  <2> QED BY <1>1, <2>1 DEF NumberInv
<1> QED BY <1>1, <1>2, <1>3, AuthKeeps

\* The steps of a command that write nothing.
LEMMA QuietSteps ==
  ASSUME Inv, NEW p \in Proc, Observe, UNCHANGED <<run, service, dropped>>,
         \/ Auth!KeyringRefuses(p) \/ Auth!LoadToSet(p) \/ Auth!LoadConfig(p) \/ Auth!Refuse(p)
         \/ Auth!ClearNothing(p) \/ Auth!LoadToDelete(p) \/ Auth!Stops(p)
  PROVE  Inv'
<1> DEFINE s == job[p].arg
<1>0. /\ Auth!Step(p) /\ pc[p] # "idle" /\ Auth!TypeOK /\ UNCHANGED <<job, runs, origin, spent>>
      /\ JobOf(p) /\ CopyOf(p) /\ SecretOf(p) /\ s \in Site /\ crossed \subseteq crossed'
  <2>1. Auth!Step(p)
    BY DEF Auth!Step
  <2> QED BY <2>1, AuthFrame, AuthKnows DEF Inv, service, Observe
<1>1. CASE Auth!KeyringRefuses(p)
  <2>1. /\ pc[p] = "secret" /\ pc'[p] = "saveLoad" /\ job[p].kind = "token"
        /\ UNCHANGED <<config, vault, torn, residue, cfg, doc, ref>>
    BY <1>0, <1>1 DEF Auth!KeyringRefuses, Auth!Goto, Auth!TypeOK, JobOf, Auth!disk,
       Auth!local, Auth!history
  <2>2. JobOf(p)' /\ CopyOf(p)' /\ SecretOf(p)'
    BY <1>0, <2>1 DEF JobOf, CopyOf, SecretOf, Auth!Unrecorded, Auth!Emptied
  <2>3. ~Loses(p, s) /\ \A b \in Auth!Backend : ~Leaves(p, s, b)
    BY <2>1 DEF Loses, Leaves, Auth!Replaced, Auth!Unrecorded, Auth!Emptied, Auth!Kept
  <2> QED BY <1>0, <2>1, <2>2, <2>3, AuthQuiet
<1>2. CASE Auth!LoadToSet(p)
  <2>1. /\ pc[p] = "saveLoad" /\ pc'[p] = "saveWrite" /\ job[p].kind = "token" /\ doc'[p] = vault["file"]
        /\ UNCHANGED <<config, vault, torn, residue, cfg, ref>>
    BY <1>0, <1>2 DEF Auth!LoadToSet, Auth!Goto, Auth!TypeOK, JobOf, Auth!disk, Auth!history
  <2>2. JobOf(p)' /\ CopyOf(p)' /\ SecretOf(p)'
    BY <1>0, <2>1 DEF JobOf, CopyOf, SecretOf, Auth!Unrecorded, Auth!Emptied
  <2>3. ~Loses(p, s) /\ \A b \in Auth!Backend : ~Leaves(p, s, b)
    BY <2>1 DEF Loses, Leaves, Auth!Replaced, Auth!Unrecorded, Auth!Emptied, Auth!Kept
  <2> QED BY <1>0, <2>1, <2>2, <2>3, AuthQuiet
<1>3. CASE Auth!LoadConfig(p)
  <2>1. /\ pc[p] = "load" /\ pc'[p] = (IF job[p].kind = "logout" THEN "clear" ELSE "write")
        /\ cfg'[p] = config /\ UNCHANGED <<config, vault, torn, residue, doc, ref>>
    BY <1>0, <1>3 DEF Auth!LoadConfig, Auth!Goto, Auth!TypeOK, Auth!disk, Auth!history
  <2>2. JobOf(p)' /\ CopyOf(p)' /\ SecretOf(p)'
    BY <1>0, <2>1 DEF JobOf, CopyOf, SecretOf, Auth!Unrecorded, Auth!Emptied
  <2>3. /\ Loses(p, s) => Loses(p, s)'
        /\ \A b \in Auth!Backend : Leaves(p, s, b) => Leaves(p, s, b)'
    BY <1>0, <2>1 DEF Loses, Leaves, Auth!Replaced, Auth!Unrecorded, Auth!Emptied, Auth!Kept
  <2> QED BY <1>0, <2>1, <2>2, <2>3, AuthQuiet
<1>4. CASE Auth!Refuse(p)
  <2>1. /\ pc[p] = "load" /\ pc'[p] = "idle" /\ job[p].kind = "logout"
        /\ UNCHANGED <<config, vault, torn, residue, cfg, doc, ref>>
    BY <1>0, <1>4 DEF Auth!Refuse, Auth!Applicable, Auth!Goto, Auth!TypeOK, JobOf,
       Auth!disk, Auth!local, Auth!history
  <2>2. JobOf(p)' /\ CopyOf(p)' /\ SecretOf(p)'
    BY <1>0, <2>1 DEF JobOf, CopyOf, SecretOf, Auth!Unrecorded, Auth!Emptied
  <2>3. ~Loses(p, s) /\ \A b \in Auth!Backend : ~Leaves(p, s, b)
    BY <2>1 DEF Loses, Leaves, Auth!Replaced, Auth!Unrecorded, Auth!Emptied, Auth!Kept
  <2> QED BY <1>0, <2>1, <2>2, <2>3, AuthQuiet
<1>5. CASE Auth!ClearNothing(p)
  <2>1. /\ pc[p] = "clear" /\ Auth!Former(p) = "env"
        /\ pc'[p] = (IF job[p].kind = "logout" THEN "write" ELSE "idle")
        /\ UNCHANGED <<config, vault, torn, residue, cfg, doc, ref>>
    BY <1>0, <1>5 DEF Auth!ClearNothing, Auth!Cleared, Auth!Goto, Auth!TypeOK, Auth!disk,
       Auth!local, Auth!history
  <2>2. JobOf(p)' /\ SecretOf(p)'
    BY <1>0, <2>1 DEF JobOf, SecretOf, Auth!Former, Auth!Backend, Auth!Unrecorded,
       Auth!Emptied
  <2>3. CopyOf(p)'
    BY <1>0, <2>1 DEF CopyOf
  <2>4. ~Loses(p, s) /\ \A b \in Auth!Backend : ~Leaves(p, s, b)
    BY <2>1 DEF Loses, Leaves, Auth!Backend, Auth!Replaced, Auth!Unrecorded,
       Auth!Emptied, Auth!Kept
  <2> QED BY <1>0, <2>1, <2>2, <2>3, <2>4, AuthQuiet
<1>6. CASE Auth!LoadToDelete(p)
  <2>1. /\ pc[p] = "clear" /\ Auth!Former(p) = "file" /\ doc'[p] = vault["file"]
        /\ pc'[p] = (IF vault["file"][s] # 0 THEN "clearWrite"
                     ELSE IF job[p].kind = "logout" THEN "write" ELSE "idle")
        /\ UNCHANGED <<config, vault, torn, residue, cfg, ref>>
    BY <1>0, <1>6 DEF Auth!LoadToDelete, Auth!Cleared, Auth!Goto, Auth!TypeOK, Auth!disk,
       Auth!history
  <2>2. JobOf(p)' /\ SecretOf(p)'
    BY <1>0, <2>1 DEF JobOf, SecretOf, Auth!Former, Auth!Backend, Auth!Unrecorded,
       Auth!Emptied
  <2>3. CopyOf(p)'
    BY <1>0, <2>1 DEF CopyOf
  <2>4. ~Loses(p, s) /\ \A b \in Auth!Backend : Leaves(p, s, b) => Leaves(p, s, b)' \/ vault[b][s] = 0
    BY <1>0, <2>1 DEF Loses, Leaves, Auth!Former, Auth!Replaced, Auth!Unrecorded,
       Auth!Emptied, Auth!Kept
  <2> QED BY <1>0, <2>1, <2>2, <2>3, <2>4, AuthQuiet
<1>7. CASE Auth!Stops(p)
  <2>1. /\ pc'[p] = "idle" /\ UNCHANGED <<config, vault, cfg, doc, ref>>
        /\ torn' = (IF Auth!Replaced(p) \/ Auth!Emptied(p) THEN torn \cup {s} ELSE torn)
        /\ residue' = residue \cup {<<s, b>> : b \in
             {c \in Auth!Backend : \/ Auth!Unrecorded(p) /\ c = ref[p]
                                   \/ Auth!Kept(p) /\ c = Auth!Former(p)}}
    BY <1>0, <1>7 DEF Auth!Stops, Auth!Goto, Auth!TypeOK, Auth!disk, Auth!local
  <2>2. JobOf(p)' /\ CopyOf(p)' /\ SecretOf(p)'
    BY <1>0, <2>1 DEF JobOf, CopyOf, SecretOf, Auth!Unrecorded, Auth!Emptied
  <2>3. /\ Loses(p, s) => s \in torn'
        /\ \A b \in Auth!Backend : Leaves(p, s, b) => <<s, b>> \in residue'
    BY <2>1 DEF Loses, Leaves
  <2>4. \A c \in Site : /\ c \in torn => c \in torn'
                        /\ c # s => (c \in torn <=> c \in torn')
                        /\ \A b \in Auth!Backend :
                             /\ <<c, b>> \in residue => <<c, b>> \in residue'
                             /\ c # s => (<<c, b>> \in residue <=> <<c, b>> \in residue')
    BY <2>1
  <2> QED BY <1>0, <2>1, <2>2, <2>3, <2>4, AuthQuiet
<1> QED BY <1>1, <1>2, <1>3, <1>4, <1>5, <1>6, <1>7

\* A login stores its secret, in either backend.
LEMMA StoreStep ==
  ASSUME Inv, NEW p \in Proc, Observe, UNCHANGED <<run, service, dropped>>,
         Auth!SetInKeyring(p) \/ Auth!SetInFile(p)
  PROVE  Inv'
<1> DEFINE s == job[p].arg
<1>0. /\ Auth!Step(p) /\ pc[p] # "idle" /\ Auth!TypeOK /\ UNCHANGED <<job, runs, origin, spent>>
      /\ JobOf(p) /\ CopyOf(p) /\ SecretOf(p) /\ s \in Site /\ crossed \subseteq crossed'
      /\ job[p].login # 0
  <2>1. Auth!Step(p)
    BY DEF Auth!Step
  <2> QED BY <2>1, AuthFrame, AuthKnows DEF Inv, service, Observe
<1>1. PICK b \in Auth!Backend :
        /\ pc[p] = (IF b = "keyring" THEN "secret" ELSE "saveWrite")
        /\ vault' = [vault EXCEPT ![b] =
                       [(IF b = "file" THEN doc[p] ELSE vault[b]) EXCEPT ![s] = job[p].login]]
        /\ ref' = [ref EXCEPT ![p] = b] /\ pc' = [pc EXCEPT ![p] = "load"]
        /\ UNCHANGED <<config, torn, residue, cfg, doc>>
  <2>1. CASE Auth!SetInKeyring(p)
    <3>1. "keyring" \in Auth!Backend /\ "keyring" # "file"
      BY DEF Auth!Backend
    <3>2. vault' = [vault EXCEPT !["keyring"] = [vault["keyring"] EXCEPT ![s] = job[p].login]]
      BY <1>0, <2>1, <3>1 DEF Auth!SetInKeyring, Auth!Stored, Auth!TypeOK
    <3> QED BY <2>1, <3>1, <3>2 DEF Auth!SetInKeyring, Auth!Goto, Auth!history
  <2>2. CASE Auth!SetInFile(p)
    <3>1. "file" \in Auth!Backend /\ "keyring" # "file"
      BY DEF Auth!Backend
    <3> QED BY <2>2, <3>1 DEF Auth!SetInFile, Auth!Goto, Auth!history
  <2> QED BY <2>1, <2>2
<1>2. /\ job[p].kind = "token" /\ pc'[p] = "load" /\ ref'[p] = b
      /\ UNCHANGED <<run, service, dropped, doc, config, torn, residue, cfg>>
  BY <1>0, <1>1 DEF JobOf, Auth!TypeOK, Auth!Backend
<1>3. /\ \A c \in Site : vault'[b][c] = (IF c = s THEN job[p].login
                                         ELSE IF b = "file" THEN doc[p][c] ELSE vault[b][c])
      /\ \A c \in Site, d \in Auth!Backend : d # b => vault'[d][c] = vault[d][c]
  BY <1>0, <1>1 DEF Auth!TypeOK
<1>4. \A c \in Site, d \in Auth!Backend :
        c \notin crossed /\ <<c, d>> # <<s, b>> => vault'[d][c] = vault[d][c]
  <2>1. \A c \in Site \ crossed, d \in Auth!Backend : pc[p] = "saveWrite" => doc[p][c] = vault["file"][c]
    BY <1>0, AuthKnows
  <2> QED BY <1>1, <1>3, <2>1 DEF Auth!Backend
<1>5. JobOf(p)' /\ CopyOf(p)' /\ SecretOf(p)'
  BY <1>0, <1>1, <1>2, <1>3 DEF JobOf, CopyOf, SecretOf, Auth!Unrecorded, Auth!Emptied
<1>6. Touches(p, s)
  BY <1>0, <1>1, <1>2, <1>4 DEF Touches, Auth!Backend
<1>7. ~Loses(p, s) /\ \A d \in Auth!Backend : ~Leaves(p, s, d)
  BY <1>1 DEF Loses, Leaves, Auth!Replaced, Auth!Unrecorded, Auth!Emptied, Auth!Kept
<1>8. ASSUME s \notin crossed
      PROVE  /\ vault'["keyring"][s] = vault'["file"][s] => vault'["file"][s] = 0
             /\ s \notin torn' /\ config'.sites[s].ref \in Auth!Backend => Found(s)' \/ Loses(p, s)'
             /\ \A d \in Auth!Backend : vault'[d][s] # 0 =>
                  config'.sites[s].ref = d \/ <<s, d>> \in residue' \/ Leaves(p, s, d)'
  <2>1. \A d \in Auth!Backend : vault[d][s] # job[p].login
    BY <1>0, <1>1, <1>8 DEF SecretOf
  <2>2. vault'["keyring"][s] = vault'["file"][s] => vault'["file"][s] = 0
    BY <1>0, <1>3, <1>4, <1>8, <2>1 DEF Auth!Backend
  <2>3. Auth!Unrecorded(p)' /\ (config.sites[s].ref = b => Auth!Replaced(p)')
    BY <1>0, <1>2 DEF Auth!Unrecorded, Auth!Replaced
  <2>4. ASSUME s \notin torn, config.sites[s].ref \in Auth!Backend, config.sites[s].ref # b PROVE Found(s)'
    <3>1. Found(s)
      BY <1>0, <1>7, <1>8, <2>4, AuthKnows
    <3> QED BY <1>0, <1>2, <1>4, <1>8, <2>4, <3>1 DEF Found, Stored, Pending, run, service
  <2>5. s \notin torn' /\ config'.sites[s].ref \in Auth!Backend => Found(s)' \/ Loses(p, s)'
    BY <1>0, <1>2, <2>3, <2>4 DEF Loses
  <2>6. ASSUME NEW d \in Auth!Backend, vault'[d][s] # 0
        PROVE  config'.sites[s].ref = d \/ <<s, d>> \in residue' \/ Leaves(p, s, d)'
    <3>1. CASE d = b
      BY <1>0, <1>2, <2>3, <3>1 DEF Leaves
    <3>2. CASE d # b
      <4>1. vault[d][s] # 0
        BY <1>0, <1>3, <2>6, <3>2
      <4> QED BY <1>0, <1>2, <1>7, <1>8, <4>1, AuthKnows
    <3> QED BY <3>1, <3>2
  <2> QED BY <2>2, <2>5, <2>6
<1>9. Leaving(p, s)
  BY <1>8 DEF Leaving
<1>10. \A c \in Site, d \in Auth!Backend : vault'[d][c] \in {vault[d][c], doc[p][c], job[p].login, 0}
  BY <1>3
<1> QED BY <1>0, <1>2, <1>5, <1>6, <1>9, <1>10, AuthActs

\* A secret is dropped, from either backend.
LEMMA DeleteStep ==
  ASSUME Inv, NEW p \in Proc, Observe, UNCHANGED <<run, service, dropped>>,
         Auth!DeleteFromKeyring(p) \/ Auth!DeleteFromFile(p)
  PROVE  Inv'
<1> DEFINE s == job[p].arg
           b == Auth!Former(p)
<1>0. /\ Auth!Step(p) /\ pc[p] # "idle" /\ Auth!TypeOK /\ UNCHANGED <<job, runs, origin, spent>>
      /\ JobOf(p) /\ CopyOf(p) /\ SecretOf(p) /\ s \in Site /\ crossed \subseteq crossed'
  <2>1. Auth!Step(p)
    BY DEF Auth!Step
  <2> QED BY <2>1, AuthFrame, AuthKnows DEF Inv, service, Observe
<1>1. /\ b \in Auth!Backend /\ pc[p] = (IF b = "keyring" THEN "clear" ELSE "clearWrite")
      /\ vault' = [vault EXCEPT ![b] = [(IF b = "file" THEN doc[p] ELSE vault[b]) EXCEPT ![s] = 0]]
      /\ pc' = [pc EXCEPT ![p] = IF job[p].kind = "logout" THEN "write" ELSE "idle"]
      /\ residue' = residue \ {<<s, b>>}
      /\ UNCHANGED <<config, torn, cfg, doc, ref>>
  <2>0. "keyring" \in Auth!Backend /\ "file" \in Auth!Backend /\ "keyring" # "file"
    BY DEF Auth!Backend
  <2>1. CASE Auth!DeleteFromKeyring(p)
    <3>1. b = "keyring"
      BY <2>1 DEF Auth!DeleteFromKeyring
    <3>2. vault' = [vault EXCEPT !["keyring"] = [vault["keyring"] EXCEPT ![s] = 0]]
      BY <1>0, <2>0, <2>1 DEF Auth!DeleteFromKeyring, Auth!Stored, Auth!TypeOK
    <3>3. UNCHANGED <<config, torn, cfg, doc, ref>>
      BY <2>1 DEF Auth!DeleteFromKeyring, Auth!local
    <3>4. residue' = residue \ {<<s, b>>}
      BY <2>1, <3>1 DEF Auth!DeleteFromKeyring
    <3> QED BY <2>0, <2>1, <3>1, <3>2, <3>3, <3>4
        DEF Auth!DeleteFromKeyring, Auth!Goto, Auth!Cleared
  <2>2. CASE Auth!DeleteFromFile(p)
    <3>1. pc[p] = "clearWrite" /\ b = "file"
      BY <1>0, <2>2 DEF Auth!DeleteFromFile, JobOf
    <3>2. UNCHANGED <<config, torn, cfg, doc, ref>> /\ residue' = residue \ {<<s, b>>}
      BY <2>2, <3>1 DEF Auth!DeleteFromFile, Auth!local
    <3> QED BY <2>0, <2>2, <3>1, <3>2 DEF Auth!DeleteFromFile, Auth!Goto, Auth!Cleared
  <2> QED BY <2>1, <2>2
<1>2. /\ pc'[p] = (IF job[p].kind = "logout" THEN "write" ELSE "idle")
      /\ UNCHANGED <<run, service, dropped, doc, config, torn, cfg, ref>> /\ Auth!Former(p)' = b
  BY <1>0, <1>1 DEF Auth!TypeOK, Auth!Former
<1> HIDE DEF b
<1>3. /\ \A c \in Site : vault'[b][c] = (IF c = s THEN 0
                                         ELSE IF b = "file" THEN doc[p][c] ELSE vault[b][c])
      /\ \A c \in Site, d \in Auth!Backend : d # b => vault'[d][c] = vault[d][c]
  BY <1>0, <1>1 DEF Auth!TypeOK
<1>4. \A c \in Site, d \in Auth!Backend :
        c \notin crossed /\ <<c, d>> # <<s, b>> => vault'[d][c] = vault[d][c]
  <2>1. \A c \in Site \ crossed, d \in Auth!Backend : pc[p] = "clearWrite" => doc[p][c] = vault["file"][c]
    BY <1>0, AuthKnows
  <2> QED BY <1>1, <1>3, <2>1 DEF Auth!Backend
<1>5. JobOf(p)' /\ CopyOf(p)' /\ SecretOf(p)'
  BY <1>0, <1>1, <1>2, <1>3 DEF JobOf, CopyOf, SecretOf, Auth!Unrecorded, Auth!Emptied
<1>6. Touches(p, s)
  BY <1>0, <1>1, <1>2, <1>4 DEF Touches, Auth!Backend
<1>7. ~Loses(p, s) /\ \A d \in Auth!Backend : Leaves(p, s, d) => d = b
  BY <1>1 DEF Loses, Leaves, Auth!Replaced, Auth!Unrecorded, Auth!Emptied, Auth!Kept, b
<1>8. ASSUME s \notin crossed
      PROVE  /\ vault'["keyring"][s] = vault'["file"][s] => vault'["file"][s] = 0
             /\ s \notin torn' /\ config'.sites[s].ref \in Auth!Backend => Found(s)' \/ Loses(p, s)'
             /\ \A d \in Auth!Backend : vault'[d][s] # 0 =>
                  config'.sites[s].ref = d \/ <<s, d>> \in residue' \/ Leaves(p, s, d)'
  <2>2. vault'["keyring"][s] = vault'["file"][s] => vault'["file"][s] = 0
    BY <1>0, <1>1, <1>3 DEF Auth!Backend
  <2>4. ASSUME s \notin torn, config.sites[s].ref \in Auth!Backend, job[p].kind # "logout" PROVE Found(s)'
    <3>1. Found(s)
      BY <1>0, <1>7, <1>8, <2>4, AuthKnows
    <3>2. config.sites[s].ref = ref[p] /\ ref[p] # b
      <4>1. ref[p] # b
        BY <1>0, <1>1, <2>4 DEF JobOf, b
      <4>2. config.sites = [cfg[p].sites EXCEPT ![s] = [ref |-> ref[p], login |-> job[p].login]]
        BY <1>0, <1>1, <2>4 DEF CopyOf
      <4> QED BY <1>0, <4>1, <4>2 DEF Auth!TypeOK, Auth!Config
    <3> QED BY <1>0, <1>2, <1>4, <1>8, <2>4, <3>1, <3>2
       DEF Found, Stored, Pending, run, service
  <2>5. s \notin torn' /\ config'.sites[s].ref \in Auth!Backend => Found(s)' \/ Loses(p, s)'
    <3>1. CASE job[p].kind = "logout"
      <4>1. Auth!Emptied(p)'
        BY <1>0, <1>1, <1>2, <3>1 DEF Auth!Emptied
      <4> QED BY <1>0, <4>1 DEF Loses
    <3> QED BY <1>2, <2>4, <3>1
  <2>6. ASSUME NEW d \in Auth!Backend, vault'[d][s] # 0
        PROVE  config'.sites[s].ref = d \/ <<s, d>> \in residue' \/ Leaves(p, s, d)'
    <3>1. d # b
      BY <1>0, <1>3, <2>6
    <3>2. vault[d][s] # 0
      BY <1>0, <1>3, <2>6, <3>1
    <3> QED BY <1>0, <1>1, <1>2, <1>7, <1>8, <3>1, <3>2, AuthKnows
  <2> QED BY <2>2, <2>5, <2>6
<1>9. Leaving(p, s)
  BY <1>8 DEF Leaving
<1>10. \A c \in Site, d \in Auth!Backend : vault'[d][c] \in {vault[d][c], doc[p][c], job[p].login, 0}
  BY <1>3
<1>11. pc'[p] \notin {"saveWrite", "clearWrite"}
  BY <1>2
<1> QED BY <1>0, <1>2, <1>5, <1>6, <1>9, <1>10, <1>11, AuthActs

\* The profile is written.
LEMMA WriteStep ==
  ASSUME Inv, NEW p \in Proc, Observe, UNCHANGED <<run, service, dropped>>, Auth!WriteConfig(p)
  PROVE  Inv'
<1> DEFINE s == job[p].arg
<1>0. /\ Auth!Step(p) /\ pc[p] # "idle" /\ Auth!TypeOK /\ UNCHANGED <<job, runs, origin, spent>>
      /\ JobOf(p) /\ CopyOf(p) /\ SecretOf(p) /\ s \in Site /\ crossed \subseteq crossed'
      /\ job[p].kind \in {"token", "env", "logout"} /\ job[p].login # 0
  <2>1. Auth!Step(p)
    BY DEF Auth!Step
  <2> QED BY <2>1, AuthFrame, AuthKnows DEF Inv, service, Observe
<1>1. /\ pc[p] = "write" /\ pc'[p] = (IF Auth!Supersedes(p) THEN "clear" ELSE "idle")
      /\ config' = Auth!Edited(job[p], cfg[p], ref[p]) /\ cfg[p] = config
      /\ torn' = torn \ {s}
      /\ residue' = (IF job[p].kind # "logout" THEN residue \ {<<s, ref[p]>>} ELSE residue)
      /\ UNCHANGED <<vault, cfg, doc, ref>>
  BY <1>0 DEF Auth!WriteConfig, Auth!Goto, Auth!TypeOK, Auth!local, Auth!Logins, CopyOf
<1>2. config'.sites = [config.sites EXCEPT ![s] =
        IF job[p].kind = "logout" THEN Auth!NoProfile ELSE [ref |-> ref[p], login |-> job[p].login]]
  <2>1. job[p] \in Auth!Jobs /\ cfg[p] \in Auth!Config /\ ref[p] \in Auth!Ref /\ job[p].login > 0
    BY <1>0 DEF Auth!TypeOK, JobOf
  <2>2. /\ job[p].kind = "logout" =>
             Auth!Edited(job[p], cfg[p], ref[p]).sites = [cfg[p].sites EXCEPT ![s] = Auth!NoProfile]
        /\ job[p].kind # "logout" => Auth!Edited(job[p], cfg[p], ref[p]).sites =
             [cfg[p].sites EXCEPT ![s] = [ref |-> ref[p], login |-> job[p].login]]
    BY <1>0, <2>1, EditedType
  <2> QED BY <1>1, <2>2
<1>3. /\ config'.sites[s] = (IF job[p].kind = "logout" THEN Auth!NoProfile
                             ELSE [ref |-> ref[p], login |-> job[p].login])
      /\ \A c \in Site \ {s} : config'.sites[c] = config.sites[c]
  BY <1>0, <1>2 DEF Auth!TypeOK, Auth!Config
<1>4. Auth!Supersedes(p) <=> job[p].kind # "logout" /\ config.sites[s].ref \notin {"none", ref[p]}
  BY <1>0, <1>1 DEF Auth!Supersedes, Auth!Former, Auth!Logins
<1>5. Auth!Former(p) = config.sites[s].ref /\ Auth!Former(p)' = config.sites[s].ref
  BY <1>0, <1>1 DEF Auth!Former
<1>6. JobOf(p)' /\ SecretOf(p)'
  BY <1>0, <1>1, <1>4, <1>5 DEF JobOf, SecretOf, Auth!Unrecorded, Auth!Emptied
<1>7. CopyOf(p)'
  BY <1>0, <1>1, <1>2, <1>4 DEF CopyOf
<1>8. Touches(p, s)
  BY <1>0, <1>1, <1>3 DEF Touches
<1>9. ASSUME s \notin crossed
      PROVE  /\ vault'["keyring"][s] = vault'["file"][s] => vault'["file"][s] = 0
             /\ s \notin torn' /\ config'.sites[s].ref \in Auth!Backend => Found(s)' \/ Loses(p, s)'
             /\ \A b \in Auth!Backend : vault'[b][s] # 0 =>
                  config'.sites[s].ref = b \/ <<s, b>> \in residue' \/ Leaves(p, s, b)'
  <2>1. vault["keyring"][s] = vault["file"][s] => vault["file"][s] = 0
    BY <1>0, <1>9, AuthKnows
  <2>2. ASSUME config'.sites[s].ref \in Auth!Backend PROVE Found(s)'
    <3>1. job[p].kind # "logout" /\ ref[p] \in Auth!Backend
      BY <1>3, <2>2 DEF Auth!NoProfile, Auth!Backend
    <3>2. job[p].kind = "token"
      BY <1>0, <3>1 DEF JobOf, Auth!Backend
    <3>3. vault[ref[p]][s] = job[p].login
      BY <1>0, <1>1, <1>9, <3>2 DEF SecretOf, Auth!Unrecorded
    <3>4. <<s, job[p].login>> \notin spent /\ origin[job[p].login] = job[p].login
      BY <1>0, <1>9, <3>2 DEF SecretOf, JobOf
    <3>5. Stored(s)' = job[p].login
      <4>1. config'.sites[s].ref = ref[p] /\ vault' = vault
        BY <1>1, <1>3, <3>1
      <4> QED BY <1>0, <3>3, <4>1 DEF Stored
    <3> QED BY <1>0, <1>3, <3>1, <3>4, <3>5 DEF Found
  <2>3. ASSUME NEW b \in Auth!Backend, vault[b][s] # 0
        PROVE  config'.sites[s].ref = b \/ <<s, b>> \in residue' \/ Leaves(p, s, b)'
    <3>1. config.sites[s].ref = b \/ <<s, b>> \in residue \/ Leaves(p, s, b)
      BY <1>0, <1>9, <2>3, AuthKnows
    <3>2. CASE job[p].kind = "logout"
      <4>1. config.sites[s].ref # b
        BY <1>0, <1>1, <1>5, <1>9, <2>3, <3>2 DEF SecretOf, Auth!Emptied
      <4>2. ~Leaves(p, s, b)
        BY <1>1, <3>2 DEF Leaves, Auth!Unrecorded, Auth!Kept
      <4> QED BY <1>1, <3>1, <3>2, <4>1, <4>2
    <3>3. CASE job[p].kind # "logout" /\ ref[p] = b
      BY <1>3, <3>3
    <3>4. CASE job[p].kind # "logout" /\ ref[p] # b
      <4>1. ~Leaves(p, s, b)
        BY <1>1, <3>4 DEF Leaves, Auth!Kept
      <4>2. CASE config.sites[s].ref = b
        <5>1. pc'[p] = "clear"
          BY <1>1, <1>4, <3>4, <4>2 DEF Auth!Backend
        <5> QED BY <1>0, <1>5, <3>4, <4>2, <5>1 DEF Leaves, Auth!Kept, Auth!Logins
      <4>3. CASE <<s, b>> \in residue
        BY <1>1, <3>4, <4>3
      <4> QED BY <3>1, <4>1, <4>2, <4>3
    <3> QED BY <3>2, <3>3, <3>4
  <2> QED BY <1>1, <2>1, <2>2, <2>3
<1>10. Leaving(p, s)
  BY <1>9 DEF Leaving
<1>11. \A c \in Site, d \in Auth!Backend : vault'[d][c] \in {vault[d][c], doc[p][c], job[p].login, 0}
  BY <1>1
<1>12. UNCHANGED <<run, service, dropped, doc>> /\ pc'[p] \notin {"saveWrite", "clearWrite"}
  BY <1>1
<1> QED BY <1>0, <1>6, <1>7, <1>8, <1>10, <1>11, <1>12, AuthActs

\* A command starts, when no other one runs.
LEMMA StartStep ==
  ASSUME Inv, NEW p \in Proc, NEW j \in Auth!Jobs, j.kind \in {"token", "env", "logout"},
         Auth!Start(p, j), Observe, UNCHANGED <<run, service, dropped>>
  PROVE  Inv'
<1>1. /\ TypeOK /\ Auth!TypeOK /\ NumberInv /\ JobInv /\ SoloInv /\ CopyInv /\ LockInv /\ CrossInv
      /\ DocInv /\ SecretInv /\ ApartInv /\ FoundInv /\ OwnedInv /\ RunInv /\ MetInv
  BY DEF Inv, TypeOK
<1>2. /\ UNCHANGED <<rpc, rsite, prof, token, rdoc, unlocked, spent, origin, dropped>>
      /\ crossed' = crossed \cup Crossing'
      /\ met' = [r \in Reader |-> rpc'[r] # "idle" /\ (met[r] \/ AuthOn(rsite[r])')]
      /\ crossed \subseteq crossed'
  BY DEF run, service, Observe
<1>3. /\ \A q \in Proc : pc[q] = "idle"
      /\ \A q \in Proc \ {p} : pc'[q] = "idle" /\ job'[q] = job[q]
      /\ pc'[p] = (IF j.kind = "token" THEN "secret" ELSE "load") /\ job'[p] = j /\ ref'[p] = "env"
      /\ j.login = runs + 1 /\ runs' = runs + 1 /\ runs < MaxRuns
      /\ UNCHANGED <<config, vault, cfg, doc, stops, torn, residue>>
  BY <1>1, CredentialsAssumption DEF Auth!Start, Auth!Goto, Auth!TypeOK, Auth!disk
<1>4. /\ runs \in Nat /\ runs + 1 \in Number /\ runs + 1 \in 0..MaxRuns
      /\ \A b \in Auth!Backend, s \in Site : vault[b][s] \in Nat
      /\ \A q \in Proc : job[q].login \in Nat /\ \A s \in Site : doc[q][s] \in Nat
      /\ \A r \in Reader : token[r] \in Nat /\ \A s \in Site : rdoc[r][s] \in Nat
      /\ \A u \in spent : u[2] \in Nat
      /\ j.arg \in Site
  <2>1. /\ runs \in Nat /\ runs + 1 \in Number /\ runs + 1 \in 0..MaxRuns
        /\ \A b \in Auth!Backend, s \in Site : vault[b][s] \in Nat
    BY <1>1, <1>3, CredentialsAssumption DEF Auth!TypeOK, Auth!Secret, Number
  <2>2. \A q \in Proc : job[q].login \in Nat /\ \A s \in Site : doc[q][s] \in Nat
    <3>1. \A q \in Proc : job[q] \in Auth!Jobs /\ doc[q] \in [Site -> Auth!Secret]
      BY <1>1 DEF Auth!TypeOK
    <3> QED BY <3>1, CredentialsAssumption DEF Auth!Secret, Auth!Jobs
  <2>3. \A r \in Reader : token[r] \in Nat /\ \A s \in Site : rdoc[r][s] \in Nat
    BY <1>1, CredentialsAssumption DEF TypeOK, Auth!Secret
  <2>4. \A u \in spent : u[2] \in Nat
    BY <1>1, CredentialsAssumption DEF TypeOK, Number
  <2>5. j.arg \in Site
    BY DEF Auth!Jobs
  <2> QED BY <2>1, <2>2, <2>3, <2>4, <2>5
<1>5. \A q \in Proc, s \in Site, b \in Auth!Backend : ~Loses(q, s) /\ ~Leaves(q, s, b)
  BY <1>3, IdleIsInnocent
<1>6. TypeOK'
  <2>1. Auth!TypeOK'
    <3>1. pc' \in [Proc -> Auth!PC] /\ job' \in [Proc -> Auth!Jobs] /\ ref' \in [Proc -> Auth!Ref]
      BY <1>1 DEF Auth!Start, Auth!Goto, Auth!TypeOK, Auth!PC, Auth!Ref
    <3>2. overlapped' \in BOOLEAN
      BY <1>1 DEF Auth!Start, Auth!TypeOK
    <3>3. \A q \in Proc : pc'[q] \notin {"clear", "clearWrite"}
      BY <1>3
    <3> QED BY <1>1, <1>3, <1>4, <3>1, <3>2, <3>3 DEF Auth!TypeOK
  <2>2. Crossing' \in SUBSET Site
    <3>1. AuthEditing' = {}
      BY <1>3 DEF AuthEditing
    <3>2. \A r \in Reader : rsite'[r] \in Site
      BY <1>1, <1>2 DEF TypeOK
    <3> QED BY <3>1, <3>2 DEF Crossing
  <2>3. met' \in [Reader -> BOOLEAN]
    BY <1>2
  <2> QED BY <1>1, <1>2, <2>1, <2>2, <2>3 DEF TypeOK
<1>7. NumberInv'
  <2>1. /\ \A b \in Auth!Backend, s \in Site : vault[b][s] <= runs + 1
        /\ \A q \in Proc : \A s \in Site : doc[q][s] <= runs + 1
        /\ \A r \in Reader : token[r] <= runs + 1 /\ \A s \in Site : rdoc[r][s] <= runs + 1
        /\ \A u \in spent : u[2] <= runs + 1
        /\ \A n \in Number : n > runs + 1 => origin[n] = n
    BY <1>1, <1>4 DEF NumberInv, Number
  <2>2. \A q \in Proc : job'[q].login <= runs + 1
    BY <1>1, <1>3, <1>4 DEF NumberInv
  <2> QED BY <1>2, <1>3, <2>1, <2>2 DEF NumberInv
<1>8. JobInv'
  <2>1. origin[runs + 1] = runs + 1
    BY <1>1, <1>4 DEF NumberInv
  <2>2. JobOf(p)'
    BY <1>2, <1>3, <1>4, <2>1 DEF JobOf
  <2> QED BY <1>3, <2>2 DEF JobInv, JobOf
<1>9. SoloInv' /\ CopyInv' /\ LockInv' /\ CrossInv' /\ DocInv'
  BY <1>1, <1>2, <1>3 DEF SoloInv, CopyInv, CopyOf, LockInv, CrossInv, DocInv
<1>10. SecretInv'
  <2>1. \A b \in Auth!Backend : vault[b][j.arg] # runs + 1
    BY <1>1, <1>4 DEF NumberInv
  <2>2. <<j.arg, runs + 1>> \notin spent
    BY <1>1, <1>4 DEF NumberInv
  <2>3. SecretOf(p)'
    BY <1>2, <1>3, <2>1, <2>2 DEF SecretOf, Auth!Unrecorded, Auth!Emptied
  <2>4. \A q \in Proc \ {p} : SecretOf(q)'
    BY <1>3 DEF SecretOf, Auth!Unrecorded, Auth!Emptied
  <2> QED BY <2>3, <2>4 DEF SecretInv, SecretOf
<1>11. ApartInv'
  BY <1>1, <1>2, <1>3 DEF ApartInv
<1>12. FoundInv'
  <2>1. \A s \in Site \ (torn \cup crossed) : config.sites[s].ref \in Auth!Backend => Found(s)
    BY <1>1, <1>5 DEF FoundInv
  <2>2. ASSUME NEW s \in Site, Found(s) PROVE Found(s)'
    BY <1>2, <1>3, <2>2 DEF Found, Stored, Pending
  <2> QED BY <1>2, <1>3, <2>1, <2>2 DEF FoundInv
<1>13. OwnedInv'
  <2>1. \A s \in Site \ crossed, b \in Auth!Backend : vault[b][s] # 0 =>
          config.sites[s].ref = b \/ <<s, b>> \in residue
    BY <1>1, <1>5 DEF OwnedInv
  <2> QED BY <1>2, <1>3, <2>1 DEF OwnedInv
<1>14. RunInv'
  BY <1>1, <1>2, <1>3 DEF RunInv, RunOf, RefreshOf, Has, Entry
<1>15. MetInv'
  <2> SUFFICES ASSUME NEW r \in Reader, rpc[r] # "idle", ~met'[r]
               PROVE  MetOf(r)'
    BY <1>2 DEF MetInv, MetOf
  <2>1. ~met[r] /\ ~AuthOn(rsite[r])'
    BY <1>2
  <2>2. MetOf(r)
    BY <1>1 DEF MetInv
  <2> QED BY <1>2, <1>3, <2>1, <2>2 DEF MetOf, Has
<1> QED BY <1>6, <1>7, <1>8, <1>9, <1>10, <1>11, <1>12, <1>13, <1>14, <1>15 DEF Inv

\* Whatever an auth command does, the invariant stays.
LEMMA AuthStepKeeps == Inv /\ AuthStep /\ Observe => Inv'
<1> SUFFICES ASSUME Inv, AuthStep, Observe PROVE Inv'
  OBVIOUS
<1>1. PICK p \in Proc :
        /\ \/ Auth!Step(p)
           \/ \E j \in Auth!Jobs : j.kind \in {"token", "env", "logout"} /\ Auth!Start(p, j)
        /\ UNCHANGED <<run, service, dropped>>
  BY DEF AuthStep
<1>2. CASE Auth!Step(p)
  BY <1>1, <1>2, QuietSteps, StoreStep, DeleteStep, WriteStep DEF Auth!Step
<1>3. CASE \E j \in Auth!Jobs : j.kind \in {"token", "env", "logout"} /\ Auth!Start(p, j)
  BY <1>1, <1>3, StartStep
<1> QED BY <1>1, <1>2, <1>3

-----------------------------------------------------------------------------
(* Steps of a product run. *)

\* The runs other than r stay as they are.
OthersStay(r) ==
  \A q \in Reader \ {r} :
    rpc'[q] = rpc[q] /\ rsite'[q] = rsite[q] /\ prof'[q] = prof[q] /\ token'[q] = token[q]
      /\ rdoc'[q] = rdoc[q] /\ (q \in unlocked' <=> q \in unlocked)

\* Is the run about to store the pair that the profile of its site waits for?
Pends(r) == rpc[r] \in {"save", "write"} /\ prof[r].ref = config.sites[rsite[r]].ref

\* Two refreshes that met have been noted.
LEMMA Apart ==
  ASSUME LockInv, CrossInv, NEW r \in Reader, NEW q \in Reader, q # r
  PROVE  /\ rpc[r] \in {"sent", "save", "write"} /\ rpc[q] \in {"sent", "save", "write"}
              /\ rsite[r] = rsite[q] => rsite[r] \in crossed
         /\ rpc[r] = "write" /\ rpc[q] = "write" =>
              rsite[r] \in crossed /\ rsite[q] \in crossed
<1>1. ASSUME rpc[r] \in {"sent", "save", "write"}, rpc[q] \in {"sent", "save", "write"},
             rsite[r] = rsite[q] \/ (rpc[r] = "write" /\ rpc[q] = "write")
      PROVE  rsite[r] \in crossed /\ rsite[q] \in crossed
  <2>1. Together(r, q) /\ Together(q, r)
    BY <1>1 DEF Together, LockInv, Refreshing
  <2>2. rsite[r] \in Crossing /\ rsite[q] \in Crossing
    BY <2>1 DEF Crossing
  <2> QED BY <2>2 DEF CrossInv
<1> QED BY <1>1

\* What is at hand at a step of a run.
LEMMA RunKnows ==
  ASSUME Inv, NEW r \in Reader
  PROVE  /\ rsite[r] \in Site /\ RunOf(r) /\ RefreshOf(r) /\ MetOf(r)
         /\ token[r] \in 0..MaxRuns /\ token[r] <= runs /\ runs \in 0..MaxRuns
         /\ prof[r] \in Auth!Profile /\ config \in Auth!Config
         /\ config.sites[rsite[r]] \in Auth!Profile
         /\ prof[r].ref \in Auth!Backend => Entry(r) \in 0..MaxRuns /\ Entry(r) <= runs
         /\ \A s \in Site \ (torn \cup crossed) :
              config.sites[s].ref \in Auth!Backend /\ ~AuthOn(s) => Found(s)
         /\ rpc[r] \in Refreshing => \A q \in Reader \ {r} :
              rpc[q] \in Refreshing => r \in unlocked \/ q \in unlocked
         /\ rsite[r] \notin crossed /\ rpc[r] \in {"sent", "save", "write"} => \A q \in Reader \ {r} :
              rpc[q] \in {"sent", "save", "write"} => rsite[q] # rsite[r]
         /\ rpc[r] = "write" => \A q \in Reader \ {r} : rpc[q] = "write" =>
              rsite[r] \in crossed /\ rsite[q] \in crossed
<1>1. /\ TypeOK /\ Auth!TypeOK /\ NumberInv /\ LockInv /\ CrossInv /\ FoundInv /\ RunInv /\ MetInv
  BY DEF Inv, TypeOK
<1>2. /\ rsite[r] \in Site /\ token[r] \in 0..MaxRuns /\ runs \in 0..MaxRuns
      /\ prof[r] \in Auth!Profile /\ config \in Auth!Config
  BY <1>1 DEF TypeOK, Auth!TypeOK, Auth!Secret
<1>3. config.sites[rsite[r]] \in Auth!Profile
  BY <1>2 DEF Auth!Config
<1>4. prof[r].ref \in Auth!Backend => Entry(r) \in 0..MaxRuns /\ Entry(r) <= runs
  BY <1>1, <1>2 DEF Entry, Auth!TypeOK, Auth!Secret, NumberInv
<1>5. ASSUME NEW s \in Site \ (torn \cup crossed), config.sites[s].ref \in Auth!Backend, ~AuthOn(s)
      PROVE  Found(s)
  <2>1. \A p \in Proc : ~Loses(p, s)
    BY <1>5 DEF Loses, AuthOn, Auth!Replaced, Auth!Unrecorded, Auth!Emptied
  <2> QED BY <1>1, <1>5, <2>1 DEF FoundInv
<1>6. RunOf(r) /\ RefreshOf(r) /\ MetOf(r) /\ token[r] <= runs
  BY <1>1 DEF RunInv, MetInv, NumberInv
<1>7. rpc[r] \in Refreshing => \A q \in Reader \ {r} :
        rpc[q] \in Refreshing => r \in unlocked \/ q \in unlocked
  BY <1>1 DEF LockInv
<1>8. /\ rsite[r] \notin crossed /\ rpc[r] \in {"sent", "save", "write"} => \A q \in Reader \ {r} :
           rpc[q] \in {"sent", "save", "write"} => rsite[q] # rsite[r]
      /\ rpc[r] = "write" => \A q \in Reader \ {r} : rpc[q] = "write" =>
           rsite[r] \in crossed /\ rsite[q] \in crossed
  BY <1>1, Apart
<1> QED BY <1>2, <1>3, <1>4, <1>5, <1>6, <1>7, <1>8

\* A step that changes no document, uses up no pair, and gives up none without noting it.
LEMMA RunQuiet ==
  ASSUME Inv, NEW r \in Reader, Observe, UNCHANGED <<stores, vault, runs, service>>,
         OthersStay(r), stops' \in 0..MaxStops,
         dropped \subseteq dropped', dropped' \subseteq Site \X Number,
         /\ rpc' \in [Reader -> {"idle", "get", "acquire", "use", "refused"} \cup Refreshing]
         /\ rsite' \in [Reader -> Site] /\ prof' \in [Reader -> Auth!Profile]
         /\ token' \in [Reader -> Auth!Secret] /\ rdoc' \in [Reader -> [Site -> Auth!Secret]]
         /\ unlocked' \in SUBSET Reader,
         token'[r] <= runs, \A s \in Site : rdoc'[r][s] <= runs,
         rpc'[r] = "write" => rdoc'[r] = vault["file"],
         rpc'[r] \in Refreshing => \A q \in Reader \ {r} :
           rpc[q] \in Refreshing => r \in unlocked' \/ q \in unlocked,
         RunOf(r)', RefreshOf(r)', MetOf(r)',
         Pends(r) /\ rsite[r] \notin crossed /\ Found(rsite[r]) =>
           \/ Pends(r)' /\ rsite'[r] = rsite[r]
           \/ <<rsite[r], config.sites[rsite[r]].login>> \in dropped'
  PROVE  Inv'
<1>1. /\ TypeOK /\ Auth!TypeOK /\ NumberInv /\ JobInv /\ SoloInv /\ CopyInv /\ LockInv /\ CrossInv
      /\ DocInv /\ SecretInv /\ ApartInv /\ FoundInv /\ OwnedInv /\ RunInv /\ MetInv
  BY DEF Inv, TypeOK
<1>2. /\ UNCHANGED <<config, pc, job, cfg, doc, ref, overlapped, torn, residue, vault, runs, spent, origin>>
      /\ crossed' = crossed \cup Crossing'
      /\ met' = [q \in Reader |-> rpc'[q] # "idle" /\ (met[q] \/ AuthOn(rsite[q])')]
      /\ crossed \subseteq crossed'
  BY DEF stores, service, Observe
<1>3. \A s \in Site : AuthOn(s)' <=> AuthOn(s)
  BY <1>2 DEF AuthOn
<1>4. TypeOK'
  <2>1. Auth!TypeOK'
    BY <1>1, <1>2 DEF Auth!TypeOK, Auth!Former
  <2>2. Crossing' \in SUBSET Site
    <3>1. RunEditing' \subseteq Site /\ \A q \in Reader : rsite'[q] \in Site
      BY DEF RunEditing
    <3>2. AuthEditing' \subseteq Site
      <4>1. ASSUME NEW p \in Proc, pc[p] \in {"saveWrite", "clearWrite"} PROVE job[p].arg \in Site
        BY <4>1, AuthKnows
      <4> QED BY <1>2, <4>1 DEF AuthEditing
    <3> QED BY <3>1, <3>2 DEF Crossing
  <2>3. met' \in [Reader -> BOOLEAN]
    BY <1>2
  <2> QED BY <1>1, <1>2, <2>1, <2>2, <2>3 DEF TypeOK
<1>5. NumberInv'
  <2>1. \A q \in Reader : token'[q] <= runs /\ \A s \in Site : rdoc'[q][s] <= runs
    BY <1>1 DEF NumberInv, OthersStay
  <2> QED BY <1>1, <1>2, <2>1 DEF NumberInv
<1>6. JobInv' /\ SoloInv' /\ CopyInv' /\ CrossInv'
  BY <1>1, <1>2 DEF JobInv, JobOf, SoloInv, CopyInv, CopyOf, CrossInv, Auth!Former
<1>7. LockInv'
  BY <1>1 DEF LockInv, OthersStay
<1>8. DocInv'
  <2>1. ASSUME NEW c \in Site \ crossed, NEW q \in Reader, rpc'[q] = "write"
        PROVE  rdoc'[q][c] = vault["file"][c]
    <3>1. CASE q = r
      BY <2>1, <3>1
    <3>2. CASE q # r
      BY <1>1, <2>1, <3>2 DEF DocInv, OthersStay
    <3> QED BY <3>1, <3>2
  <2> QED BY <1>1, <1>2, <2>1 DEF DocInv
<1>9. SecretInv' /\ ApartInv'
  BY <1>1, <1>2 DEF SecretInv, SecretOf, ApartInv, Auth!Unrecorded, Auth!Emptied,
     Auth!Former
<1>10. FoundInv'
  <2>1. ASSUME NEW s \in Site \ (torn \cup crossed), Found(s) PROVE Found(s)'
    <3>1. CASE \E q \in Reader : rsite[q] = s /\ Pends(q)
      <4>1. PICK q \in Reader : rsite[q] = s /\ Pends(q)
        BY <3>1
      <4>2. CASE q = r
        <5>1. \/ Pends(r)' /\ rsite'[r] = rsite[r]
              \/ <<s, config.sites[s].login>> \in dropped'
          BY <2>1, <4>1, <4>2
        <5> QED BY <1>2, <2>1, <4>1, <4>2, <5>1 DEF Found, Stored, Pending, Pends
      <4>3. CASE q # r
        <5>1. Pends(q)' /\ rsite'[q] = s
          BY <1>2, <4>1, <4>3 DEF Pends, OthersStay
        <5>2. Pending(s)'
          BY <5>1 DEF Pending, Pends
        <5> QED BY <1>2, <2>1, <5>2 DEF Found, Stored
      <4> QED BY <4>2, <4>3
    <3>2. CASE ~\E q \in Reader : rsite[q] = s /\ Pends(q)
      <4>1. ~Pending(s)
        BY <3>2 DEF Pending, Pends
      <4> QED BY <1>2, <2>1, <4>1 DEF Found, Stored
    <3> QED BY <3>1, <3>2
  <2>2. \A p \in Proc, s \in Site : Loses(p, s)' <=> Loses(p, s)
    BY <1>2 DEF Loses, Auth!Replaced, Auth!Unrecorded, Auth!Emptied, Auth!Former
  <2> QED BY <1>1, <1>2, <2>1, <2>2 DEF FoundInv
<1>11. OwnedInv'
  <2>1. \A p \in Proc, s \in Site, b \in Auth!Backend : Leaves(p, s, b)' <=> Leaves(p, s, b)
    BY <1>2 DEF Leaves, Auth!Unrecorded, Auth!Kept, Auth!Former
  <2> QED BY <1>1, <1>2, <2>1 DEF OwnedInv
<1>12. RunInv'
  <2>1. ASSUME NEW q \in Reader, q # r PROVE RunOf(q)' /\ RefreshOf(q)'
    <3>1. RunOf(q) /\ RefreshOf(q) /\ Entry(q)' = Entry(q)
      BY <1>1, <1>2, <2>1 DEF RunInv, Entry, OthersStay
    <3> QED BY <1>2, <2>1, <3>1 DEF RunOf, RefreshOf, Has, OthersStay
  <2> QED BY <2>1 DEF RunInv
<1>13. MetInv'
  <2>1. ASSUME NEW q \in Reader, q # r, rpc[q] # "idle", ~met'[q] PROVE MetOf(q)'
    <3>1. ~met[q] /\ MetOf(q) /\ rsite[q] \in Site
      BY <1>1, <1>2, <2>1 DEF MetInv, OthersStay, TypeOK
    <3>2. ~AuthOn(rsite[q])' /\ rsite'[q] = rsite[q]
      BY <1>2, <1>3, <2>1, <3>1 DEF MetOf, OthersStay
    <3> QED BY <1>2, <2>1, <3>1, <3>2 DEF MetOf, Has, OthersStay
  <2>2. ASSUME NEW q \in Reader, q # r PROVE MetOf(q)'
    BY <2>1, <2>2 DEF MetOf, OthersStay
  <2> QED BY <2>2 DEF MetInv
<1> QED BY <1>4, <1>5, <1>6, <1>7, <1>8, <1>9, <1>10, <1>11, <1>12, <1>13 DEF Inv

\* What any step of a run leaves alone, and its types.
LEMMA RunFrame ==
  ASSUME Inv, NEW r \in Reader, RunStep(r)
  PROVE  /\ UNCHANGED stores /\ OthersStay(r) /\ stops' \in 0..MaxStops
         /\ dropped \subseteq dropped' /\ dropped' \subseteq Site \X Number
         /\ rpc' \in [Reader -> {"idle", "get", "acquire", "use", "refused"} \cup Refreshing]
         /\ rsite' \in [Reader -> Site] /\ prof' \in [Reader -> Auth!Profile]
         /\ token' \in [Reader -> Auth!Secret] /\ rdoc' \in [Reader -> [Site -> Auth!Secret]]
         /\ unlocked' \in SUBSET Reader
<1>1. /\ TypeOK /\ Auth!TypeOK /\ RunOf(r)
      /\ rsite[r] \in Site /\ token[r] \in 0..MaxRuns /\ runs \in 0..MaxRuns /\ stops \in 0..MaxStops
      /\ prof[r].ref \in Auth!Backend => Entry(r) \in 0..MaxRuns
  BY RunKnows DEF Inv, TypeOK, Auth!TypeOK
<1>2. /\ \A s \in Site : config.sites[s] \in Auth!Profile
      /\ Auth!NoProfile \in Auth!Profile /\ 0 \in 0..MaxRuns
      /\ [s \in Site |-> 0] \in [Site -> 0..MaxRuns] /\ vault["file"] \in [Site -> 0..MaxRuns]
      /\ Auth!Secret = 0..MaxRuns
  <2>1. Auth!NoProfile \in Auth!Profile
    BY BlankTypes
  <2>2. "file" \in Auth!Backend
    BY DEF Auth!Backend
  <2> QED BY <1>1, <2>1, <2>2, CredentialsAssumption
     DEF Auth!TypeOK, Auth!Config, Auth!Secret
<1>3. MaxRuns \in Nat /\ MaxStops \in Nat
  BY CredentialsAssumption
<1>4. ASSUME Exit(r), UNCHANGED rsite
      PROVE  /\ OthersStay(r)
             /\ rpc' \in [Reader -> {"idle", "get", "acquire", "use", "refused"} \cup Refreshing]
             /\ unlocked' \in SUBSET Reader
             /\ prof' \in [Reader -> Auth!Profile]
             /\ token' \in [Reader -> Auth!Secret] /\ rdoc' \in [Reader -> [Site -> Auth!Secret]]
  BY <1>1, <1>2, <1>4 DEF TypeOK, Exit, Goto, OthersStay
<1>5. ASSUME NEW l \in {"idle", "get", "acquire", "use", "refused"} \cup Refreshing, Goto(r, l)
      PROVE  /\ rpc' \in [Reader -> {"idle", "get", "acquire", "use", "refused"} \cup Refreshing]
             /\ unlocked' \in SUBSET Reader
             /\ \A q \in Reader \ {r} : rpc'[q] = rpc[q] /\ (q \in unlocked' <=> q \in unlocked)
  BY <1>1, <1>5 DEF TypeOK, Goto
<1>6. ASSUME NEW s \in Site, StartRun(r, s)
      PROVE  UNCHANGED <<stores, stops, dropped>> /\ OthersStay(r)
             /\ rpc' \in [Reader -> {"idle", "get", "acquire", "use", "refused"} \cup Refreshing]
             /\ unlocked' \in SUBSET Reader
             /\ rsite' \in [Reader -> Site] /\ prof' \in [Reader -> Auth!Profile]
             /\ token' = token /\ rdoc' = rdoc
  BY <1>1, <1>2, <1>5, <1>6 DEF StartRun, OthersStay, TypeOK
<1>7. ASSUME Missing(r) \/ Acquire(r) \/ Bypass(r) \/ Rejected(r) \/ UseAgain(r) \/ SaveKeyring(r)
      PROVE  UNCHANGED <<stores, stops, dropped, rsite, prof, token, rdoc>> /\ OthersStay(r)
             /\ rpc' \in [Reader -> {"idle", "get", "acquire", "use", "refused"} \cup Refreshing]
             /\ unlocked' \in SUBSET Reader
  BY <1>1, <1>5, <1>7 DEF Missing, Acquire, Bypass, Rejected, UseAgain, SaveKeyring, OthersStay,
     Refreshing, TypeOK
<1>8. ASSUME Get(r) \/ Reread(r)
      PROVE  UNCHANGED <<stores, stops, dropped, rsite, prof, rdoc>> /\ OthersStay(r)
             /\ rpc' \in [Reader -> {"idle", "get", "acquire", "use", "refused"} \cup Refreshing]
             /\ unlocked' \in SUBSET Reader
             /\ token' \in [Reader -> Auth!Secret]
  <2>1. Entry(r) \in Auth!Secret
    BY <1>1, <1>2, <1>8 DEF RunOf, Get, Reread
  <2>2. token' = [token EXCEPT ![r] = Entry(r)]
    BY <1>8 DEF Get, Reread, UnderLock
  <2>3. \E l \in {"use", "acquire", "sent"} : Goto(r, l)
    BY <1>8 DEF Get, Reread
  <2> QED BY <1>1, <1>5, <1>8, <2>1, <2>2, <2>3
     DEF Get, Reread, OthersStay, TypeOK, Refreshing
<1>9. ASSUME Refreshed(r)
      PROVE  UNCHANGED <<stores, stops, dropped, rsite, prof, rdoc>> /\ OthersStay(r)
             /\ rpc' \in [Reader -> {"idle", "get", "acquire", "use", "refused"} \cup Refreshing]
             /\ unlocked' \in SUBSET Reader
             /\ token' \in [Reader -> Auth!Secret]
  <2>1. runs + 1 \in Auth!Secret
    BY <1>1, <1>2, <1>3, <1>9 DEF Refreshed, Rotate
  <2> QED BY <1>1, <1>5, <1>9, <2>1 DEF Refreshed, OthersStay, TypeOK, Refreshing
<1>10. ASSUME LoadFile(r) \/ WriteFile(r)
      PROVE  UNCHANGED <<stores, stops, dropped, rsite, prof, token>> /\ OthersStay(r)
             /\ rpc' \in [Reader -> {"idle", "get", "acquire", "use", "refused"} \cup Refreshing]
             /\ unlocked' \in SUBSET Reader
             /\ rdoc' \in [Reader -> [Site -> Auth!Secret]]
  BY <1>1, <1>2, <1>5, <1>10 DEF LoadFile, WriteFile, OthersStay, TypeOK, Refreshing
<1>11. ASSUME RefreshLost(r) \/ RunStops(r)
      PROVE  /\ UNCHANGED <<stores, rsite>> /\ stops' \in 0..MaxStops
             /\ dropped \subseteq dropped' /\ dropped' \subseteq Site \X Number
  <2>1. stops' \in 0..MaxStops
    BY <1>1, <1>3, <1>11 DEF RefreshLost, RunStops
  <2>2. token[r] # 0 => origin[token[r]] \in Number
    BY <1>1, <1>3 DEF TypeOK, Number
  <2>3. Has(r) => token[r] # 0
    BY <1>1 DEF RunOf
  <2>4. RefreshLost(r) \/ rpc[r] \in {"save", "write"} => Has(r)
    BY DEF RefreshLost, Rotate, Has, Refreshing
  <2>5. dropped' \in {dropped, dropped \cup {<<rsite[r], origin[token[r]]>>}}
        /\ (dropped' # dropped => RefreshLost(r) \/ rpc[r] \in {"save", "write"})
    BY <1>11 DEF RefreshLost, RunStops
  <2>6. dropped \subseteq Site \X Number
    BY <1>1 DEF TypeOK
  <2> QED BY <1>1, <1>11, <2>1, <2>2, <2>3, <2>4, <2>5, <2>6 DEF RefreshLost, RunStops
<1>12. dropped \subseteq Site \X Number
  BY <1>1 DEF TypeOK
<1>13. CASE \E s \in Site : StartRun(r, s)
  BY <1>1, <1>6, <1>12, <1>13 DEF TypeOK
<1>14. CASE RefreshLost(r) \/ RunStops(r)
  BY <1>1, <1>4, <1>11, <1>14 DEF RefreshLost, RunStops, TypeOK
<1>15. CASE End(r)
  BY <1>1, <1>4, <1>12, <1>15 DEF End, TypeOK
<1>16. CASE \/ Missing(r) \/ Acquire(r) \/ Bypass(r) \/ Rejected(r) \/ UseAgain(r) \/ SaveKeyring(r) \/ Get(r)
            \/ Reread(r) \/ Refreshed(r) \/ LoadFile(r) \/ WriteFile(r)
  BY <1>1, <1>7, <1>8, <1>9, <1>10, <1>12, <1>16 DEF TypeOK
<1> QED BY <1>13, <1>14, <1>15, <1>16 DEF RunStep

\* The steps of a run that neither rotate nor store a pair.
LEMMA QuietRunSteps ==
  ASSUME Inv, NEW r \in Reader, Observe,
         \/ \E s \in Site : StartRun(r, s)
         \/ Missing(r) \/ Get(r) \/ Acquire(r) \/ Bypass(r) \/ Reread(r) \/ Rejected(r) \/ LoadFile(r)
         \/ UseAgain(r) \/ End(r) \/ RunStops(r)
  PROVE  Inv'
<1>0. RunStep(r)
  BY DEF RunStep
<1>1. /\ UNCHANGED stores /\ OthersStay(r) /\ stops' \in 0..MaxStops
      /\ dropped \subseteq dropped' /\ dropped' \subseteq Site \X Number
      /\ rpc' \in [Reader -> {"idle", "get", "acquire", "use", "refused"} \cup Refreshing]
      /\ rsite' \in [Reader -> Site] /\ prof' \in [Reader -> Auth!Profile]
      /\ token' \in [Reader -> Auth!Secret] /\ rdoc' \in [Reader -> [Site -> Auth!Secret]]
      /\ unlocked' \in SUBSET Reader
  BY <1>0, RunFrame
<1>2. /\ UNCHANGED <<config, pc, job, residue, torn, vault, runs, spent, origin>>
      /\ UNCHANGED <<vault, runs, service>>
  <2>1. UNCHANGED <<vault, runs, service>>
    BY DEF StartRun, Missing, Get, Acquire, Bypass, Reread, Rejected, LoadFile, UseAgain, End,
       RunStops
  <2> QED BY <1>1, <2>1 DEF stores, service
<1>3. /\ TypeOK /\ Auth!TypeOK /\ NumberInv /\ LockInv /\ CrossInv /\ OwnedInv
      /\ crossed' = crossed \cup Crossing' /\ crossed \subseteq crossed'
      /\ \A q \in Reader : ~met'[q] /\ rpc'[q] # "idle" => ~met[q] /\ ~AuthOn(rsite[q])'
  BY DEF Inv, TypeOK, Observe
<1>4. /\ rsite[r] \in Site /\ RunOf(r) /\ RefreshOf(r) /\ MetOf(r)
      /\ token[r] \in 0..MaxRuns /\ token[r] <= runs /\ runs \in 0..MaxRuns
      /\ prof[r].ref \in Auth!Backend => Entry(r) \in 0..MaxRuns /\ Entry(r) <= runs
      /\ \A s \in Site \ (torn \cup crossed) :
           config.sites[s].ref \in Auth!Backend /\ ~AuthOn(s) => Found(s)
      /\ rpc[r] \in Refreshing => \A q \in Reader \ {r} :
           rpc[q] \in Refreshing => r \in unlocked \/ q \in unlocked
  BY RunKnows
<1>5. /\ \A s \in Site : AuthOn(s)' <=> AuthOn(s)
      /\ \A s \in Site : rdoc[r][s] <= runs /\ vault["file"][s] <= runs
      /\ 0 <= runs
  <2>1. "file" \in Auth!Backend
    BY DEF Auth!Backend
  <2> QED BY <1>2, <1>3, <1>4, <2>1, CredentialsAssumption DEF AuthOn, NumberInv
\* What a run without an auth command on its site finds.
<1>6. ASSUME rpc[r] # "idle", ~met[r], rsite[r] \notin torn \cup crossed
      PROVE  Found(rsite[r]) /\ Stored(rsite[r]) = Entry(r) /\ prof[r] = config.sites[rsite[r]]
  BY <1>4, <1>6 DEF MetOf, RunOf, Entry, Stored
<1>7. ASSUME NEW s \in Site, StartRun(r, s) PROVE Inv'
  <2>1. /\ rpc[r] = "idle" /\ rpc'[r] = "get" /\ rsite'[r] = s /\ prof'[r] = config.sites[s]
        /\ config.sites[s].ref \in Auth!Backend /\ token'[r] = token[r] /\ rdoc'[r] = rdoc[r]
    BY <1>3, <1>7 DEF StartRun, Goto, TypeOK
  <2>2. RunOf(r)' /\ RefreshOf(r)'
    BY <2>1 DEF RunOf, RefreshOf, Has, Refreshing
  <2>3. MetOf(r)'
    <3>1. ~met'[r] => ~AuthOn(rsite[r])'
      BY <1>3, <2>1 DEF Observe
    <3> QED BY <1>2, <2>1, <3>1 DEF MetOf, Has, Refreshing
  <2>4. ~Pends(r) /\ rpc'[r] \notin Refreshing
    BY <2>1 DEF Pends, Refreshing
  <2> QED BY <1>1, <1>2, <1>4, <1>5, <2>1, <2>2, <2>3, <2>4, RunQuiet
<1>8. ASSUME Missing(r) PROVE Inv'
  <2>1. /\ rpc[r] \in {"get", "reread"} /\ Entry(r) = 0 /\ rpc'[r] = "refused"
        /\ rsite'[r] = rsite[r] /\ prof'[r] = prof[r] /\ token'[r] = token[r] /\ rdoc'[r] = rdoc[r]
    BY <1>3, <1>8 DEF Missing, Goto, TypeOK
  <2>2. RunOf(r)' /\ RefreshOf(r)'
    BY <1>4, <2>1 DEF RunOf, RefreshOf, Has, Refreshing
  <2>3. ~met[r] => rsite[r] \in torn \cup crossed
    BY <1>6, <2>1 DEF Found
  <2>4. MetOf(r)'
    BY <1>2, <1>3, <1>4, <1>5, <2>1, <2>3 DEF MetOf
  <2>5. ~Pends(r) /\ rpc'[r] \notin Refreshing
    BY <2>1 DEF Pends, Refreshing
  <2> QED BY <1>1, <1>2, <1>4, <1>5, <2>1, <2>2, <2>4, <2>5, RunQuiet
<1>9. ASSUME Get(r) PROVE Inv'
  <2>1. /\ rpc[r] = "get" /\ Entry(r) # 0 /\ rpc'[r] \in {"use", "acquire"} /\ token'[r] = Entry(r)
        /\ rsite'[r] = rsite[r] /\ prof'[r] = prof[r] /\ rdoc'[r] = rdoc[r]
    BY <1>3, <1>9 DEF Get, Goto, TypeOK
  <2>2. RunOf(r)' /\ RefreshOf(r)'
    BY <1>4, <2>1 DEF RunOf, RefreshOf, Has, Refreshing
  <2>3. ~met[r] /\ rsite[r] \notin torn \cup crossed => origin[Entry(r)] = prof[r].login
    BY <1>6, <2>1 DEF Found
  <2>4. MetOf(r)'
    BY <1>2, <1>3, <1>4, <1>5, <2>1, <2>3 DEF MetOf
  <2>5. ~Pends(r) /\ rpc'[r] \notin Refreshing /\ Entry(r) <= runs
    BY <1>4, <2>1 DEF Pends, Refreshing, RunOf
  <2> QED BY <1>1, <1>2, <1>4, <1>5, <2>1, <2>2, <2>4, <2>5, RunQuiet
<1>10. ASSUME Acquire(r) \/ Bypass(r) PROVE Inv'
  <2>1. /\ rpc[r] = "acquire" /\ rpc'[r] = "reread" /\ (~Locked(r) \/ r \in unlocked')
        /\ rsite'[r] = rsite[r] /\ prof'[r] = prof[r] /\ token'[r] = token[r] /\ rdoc'[r] = rdoc[r]
    BY <1>3, <1>10 DEF Acquire, Bypass, Goto, TypeOK
  <2>2. RunOf(r)' /\ RefreshOf(r)' /\ Has(r) /\ Has(r)'
    BY <1>4, <2>1 DEF RunOf, RefreshOf, Has, Refreshing
  <2>3. MetOf(r)'
    BY <1>2, <1>3, <1>4, <1>5, <2>1, <2>2 DEF MetOf
  <2>4. /\ ~Pends(r)
        /\ r \in unlocked' \/ \A q \in Reader : rpc[q] \in Refreshing => q \in unlocked
    BY <2>1 DEF Pends, Locked
  <2> QED BY <1>1, <1>2, <1>4, <1>5, <2>1, <2>2, <2>3, <2>4, RunQuiet
<1>11. ASSUME Reread(r) PROVE Inv'
  <2>1. /\ rpc[r] = "reread" /\ Entry(r) # 0 /\ rpc'[r] \in {"use", "sent"} /\ token'[r] = Entry(r)
        /\ rsite'[r] = rsite[r] /\ prof'[r] = prof[r] /\ rdoc'[r] = rdoc[r]
        /\ rpc'[r] = "sent" => unlocked' = unlocked
    BY <1>3, <1>11 DEF Reread, UnderLock, Goto, TypeOK, Refreshing
  <2>2. rpc[r] \in Refreshing /\ "use" \notin Refreshing
    BY <2>1 DEF Refreshing
  <2>3. RunOf(r)'
    BY <1>4, <2>1 DEF RunOf, Has, Refreshing
  <2>4. RefreshOf(r)'
    <3> SUFFICES ASSUME rpc'[r] = "sent", rsite[r] \notin crossed'
                 PROVE  config.sites[rsite[r]].ref = prof[r].ref \/ <<rsite[r], prof[r].ref>> \in residue
      BY <1>2, <2>1 DEF RefreshOf, Entry
    <3>1. RefreshOn(rsite[r])'
      BY <2>1 DEF RefreshOn
    <3>2. ~AuthOn(rsite[r])
      BY <1>3, <1>4, <1>5, <2>1, <3>1 DEF Crossing
    <3>3. \A p \in Proc, b \in Auth!Backend : ~Leaves(p, rsite[r], b)
      BY <3>2 DEF AuthOn, Leaves, Auth!Unrecorded, Auth!Kept
    <3>4. vault[prof[r].ref][rsite[r]] # 0 /\ prof[r].ref \in Auth!Backend /\ rsite[r] \notin crossed
      BY <1>3, <1>4, <2>1 DEF Entry, RunOf
    <3> QED BY <1>3, <1>4, <3>3, <3>4 DEF OwnedInv
  <2>5. rpc'[r] = "sent" /\ rsite[r] \notin crossed' => ~Pending(rsite[r])
    <3> SUFFICES ASSUME rpc'[r] = "sent", NEW q \in Reader, rsite[q] = rsite[r],
                        rpc[q] \in {"save", "write"}
                 PROVE  rsite[r] \in crossed'
      BY DEF Pending
    <3>1. /\ q # r /\ rpc'[q] = rpc[q] /\ rsite'[q] = rsite[r] /\ rsite'[r] = rsite[r]
          /\ unlocked' = unlocked /\ (r \in unlocked \/ q \in unlocked)
      BY <1>1, <1>4, <2>1, <2>2 DEF OthersStay, Refreshing
    <3>2. Together(r, q)'
      BY <3>1 DEF Together
    <3> QED BY <1>3, <3>1, <3>2 DEF Crossing
  <2>6. ~met[r] /\ rsite[r] \notin torn \cup crossed =>
          /\ origin[Entry(r)] = prof[r].login
          /\ rpc'[r] = "sent" /\ rsite[r] \notin crossed' /\ <<rsite[r], Entry(r)>> \in spent =>
               <<rsite[r], prof[r].login>> \in dropped
    BY <1>6, <2>1, <2>5 DEF Found
  <2>7. MetOf(r)'
    BY <1>1, <1>2, <1>3, <1>4, <1>5, <2>1, <2>6 DEF MetOf
  <2>8. ~Pends(r) /\ Entry(r) <= runs
    BY <1>4, <2>1 DEF Pends, RunOf
  <2> QED BY <1>1, <1>2, <1>4, <1>5, <2>1, <2>2, <2>3, <2>4, <2>7, <2>8, RunQuiet
<1>12. ASSUME Rejected(r) PROVE Inv'
  <2>1. /\ rpc[r] = "sent" /\ rpc'[r] = "refused" /\ MayReject(r)
        /\ rsite'[r] = rsite[r] /\ prof'[r] = prof[r] /\ token'[r] = token[r] /\ rdoc'[r] = rdoc[r]
    BY <1>3, <1>12 DEF Rejected, Goto, TypeOK
  <2>2. RunOf(r)' /\ RefreshOf(r)' /\ Has(r)
    BY <1>4, <2>1 DEF RunOf, RefreshOf, Has, Refreshing
  <2>3. ~met[r] /\ rsite[r] \notin torn \cup crossed => <<rsite[r], prof[r].login>> \in dropped
    BY <1>4, <2>1, <2>2 DEF MetOf, MayReject, MayAccept
  <2>4. MetOf(r)'
    BY <1>1, <1>2, <1>3, <1>4, <1>5, <2>1, <2>3 DEF MetOf, Has, Refreshing
  <2>5. ~Pends(r) /\ rpc'[r] \notin Refreshing
    BY <2>1 DEF Pends, Refreshing
  <2> QED BY <1>1, <1>2, <1>4, <1>5, <2>1, <2>2, <2>4, <2>5, RunQuiet
<1>13. ASSUME LoadFile(r) PROVE Inv'
  <2>1. /\ rpc[r] = "save" /\ prof[r].ref = "file" /\ rpc'[r] = "write" /\ rdoc'[r] = vault["file"]
        /\ rsite'[r] = rsite[r] /\ prof'[r] = prof[r] /\ token'[r] = token[r]
        /\ unlocked' = unlocked
    BY <1>3, <1>13 DEF LoadFile, Home, Goto, TypeOK, Refreshing
  <2>2. rpc[r] \in Refreshing /\ Has(r) /\ Has(r)'
    BY <2>1 DEF Refreshing, Has
  <2>3. RunOf(r)' /\ RefreshOf(r)'
    BY <1>2, <1>3, <1>4, <2>1, <2>2 DEF RunOf, RefreshOf, Entry
  <2>4. MetOf(r)'
    BY <1>2, <1>3, <1>4, <1>5, <2>1, <2>2 DEF MetOf
  <2>5. Pends(r) => Pends(r)'
    BY <1>2, <2>1 DEF Pends
  <2> QED BY <1>1, <1>2, <1>4, <1>5, <2>1, <2>2, <2>3, <2>4, <2>5, RunQuiet
<1>14. ASSUME UseAgain(r) PROVE Inv'
  <2>1. /\ rpc[r] = "use" /\ rpc'[r] = "get"
        /\ rsite'[r] = rsite[r] /\ prof'[r] = prof[r] /\ token'[r] = token[r] /\ rdoc'[r] = rdoc[r]
    BY <1>3, <1>14 DEF UseAgain, Goto, TypeOK
  <2>2. RunOf(r)' /\ RefreshOf(r)'
    BY <1>4, <2>1 DEF RunOf, RefreshOf, Has, Refreshing
  <2>3. MetOf(r)'
    BY <1>2, <1>3, <1>4, <1>5, <2>1 DEF MetOf, Has, Refreshing
  <2>4. ~Pends(r) /\ rpc'[r] \notin Refreshing
    BY <2>1 DEF Pends, Refreshing
  <2> QED BY <1>1, <1>2, <1>4, <1>5, <2>1, <2>2, <2>3, <2>4, RunQuiet
<1>15. ASSUME End(r) \/ RunStops(r) PROVE Inv'
  <2>1. /\ rpc'[r] = "idle" /\ token'[r] = 0 /\ rdoc'[r] = [s \in Site |-> 0] /\ rsite'[r] = rsite[r]
        /\ End(r) => rpc[r] \in {"use", "refused"}
        /\ RunStops(r) /\ rpc[r] \in {"save", "write"} =>
             dropped' = dropped \cup {<<rsite[r], origin[token[r]]>>}
    BY <1>3, <1>15 DEF End, RunStops, Exit, Goto, TypeOK
  <2>2. RunOf(r)' /\ RefreshOf(r)' /\ MetOf(r)' /\ rpc'[r] \notin Refreshing
    BY <2>1 DEF RunOf, RefreshOf, MetOf, Has, Refreshing
  <2>3. ASSUME Pends(r), rsite[r] \notin crossed, Found(rsite[r])
        PROVE  <<rsite[r], config.sites[rsite[r]].login>> \in dropped'
    <3>1. dropped' = dropped \cup {<<rsite[r], origin[token[r]]>>}
      BY <1>15, <2>1, <2>3 DEF Pends
    <3>2. origin[token[r]] = origin[Entry(r)] /\ Entry(r) = Stored(rsite[r])
      BY <1>4, <2>3 DEF RefreshOf, Pends, Entry, Stored
    <3> QED BY <2>3, <3>1, <3>2 DEF Found
  <2>4. token'[r] <= runs /\ (\A s \in Site : rdoc'[r][s] <= runs) /\ rpc'[r] # "write"
    BY <1>5, <2>1
  <2> QED BY <1>1, <1>2, <2>2, <2>3, <2>4, RunQuiet
<1> QED BY <1>7, <1>8, <1>9, <1>10, <1>11, <1>12, <1>13, <1>14, <1>15

\* The token endpoint rotates the pair, whether the run learns of it or not.
LEMMA RotateSteps ==
  ASSUME Inv, NEW r \in Reader, Observe, Refreshed(r) \/ RefreshLost(r)
  PROVE  Inv'
<1> DEFINE s == rsite[r]
           t == token[r]
<1>0. RunStep(r)
  BY DEF RunStep
<1>1. /\ UNCHANGED stores /\ OthersStay(r) /\ stops' \in 0..MaxStops
      /\ dropped \subseteq dropped' /\ dropped' \subseteq Site \X Number
      /\ rpc' \in [Reader -> {"idle", "get", "acquire", "use", "refused"} \cup Refreshing]
      /\ rsite' \in [Reader -> Site] /\ prof' \in [Reader -> Auth!Profile]
      /\ token' \in [Reader -> Auth!Secret] /\ rdoc' \in [Reader -> [Site -> Auth!Secret]]
      /\ unlocked' \in SUBSET Reader
  BY <1>0, RunFrame
<1>2. /\ TypeOK /\ Auth!TypeOK /\ NumberInv /\ JobInv /\ SoloInv /\ CopyInv /\ LockInv /\ CrossInv
      /\ DocInv /\ SecretInv /\ ApartInv /\ FoundInv /\ OwnedInv /\ RunInv /\ MetInv
      /\ crossed' = crossed \cup Crossing' /\ crossed \subseteq crossed'
      /\ met' = [q \in Reader |-> rpc'[q] # "idle" /\ (met[q] \/ AuthOn(rsite[q])')]
  BY DEF Inv, TypeOK, Observe
<1>3. /\ s \in Site /\ RunOf(r) /\ RefreshOf(r) /\ MetOf(r)
      /\ t \in 0..MaxRuns /\ t <= runs /\ runs \in 0..MaxRuns
      /\ rpc[r] = "sent" /\ MayAccept(r) /\ runs < MaxRuns
      /\ \A q \in Reader \ {r} : rpc[q] \in Refreshing => r \in unlocked \/ q \in unlocked
      /\ s \notin crossed =>
           \A q \in Reader \ {r} : rpc[q] \in {"sent", "save", "write"} => rsite[q] # s
  <2>1. rpc[r] = "sent" /\ MayAccept(r) /\ runs < MaxRuns
    BY DEF Refreshed, RefreshLost, Rotate
  <2>2. rpc[r] \in Refreshing
    BY <2>1 DEF Refreshing
  <2> QED BY <2>1, <2>2, RunKnows
<1>4. /\ t # 0 /\ t \in Number /\ runs + 1 \in Number /\ runs + 1 \in 0..MaxRuns /\ runs \in Nat
      /\ prof[r].ref \in Auth!Backend /\ origin[t] \in Number
  <2>1. t # 0 /\ prof[r].ref \in Auth!Backend
    BY <1>3 DEF RunOf, Has, Refreshing
  <2>2. t \in Number /\ runs + 1 \in Number /\ runs + 1 \in 0..MaxRuns /\ runs \in Nat
    BY <1>3, <2>1, CredentialsAssumption DEF Number
  <2> QED BY <1>2, <2>1, <2>2 DEF TypeOK
<1>5. /\ UNCHANGED <<config, pc, job, cfg, doc, ref, overlapped, torn, residue, vault>>
      /\ runs' = runs + 1 /\ spent' = spent \cup {<<s, t>>}
      /\ origin' = [origin EXCEPT ![runs + 1] = origin[t]]
      /\ rsite'[r] = s
  <2>1. UNCHANGED vault /\ UNCHANGED rsite /\ Rotate(r)
    BY DEF Refreshed, RefreshLost
  <2> QED BY <1>1, <2>1 DEF Rotate, stores
<1>6. /\ \/ /\ rpc'[r] = "save" /\ token'[r] = runs + 1 /\ prof'[r] = prof[r] /\ rdoc'[r] = rdoc[r]
            /\ dropped' = dropped /\ unlocked' = unlocked
         \/ /\ rpc'[r] = "idle" /\ token'[r] = 0 /\ rdoc'[r] = [c \in Site |-> 0]
            /\ dropped' = dropped \cup {<<s, origin[t]>>}
  <2>1. CASE Refreshed(r)
    BY <1>2, <2>1 DEF Refreshed, Goto, TypeOK, Refreshing
  <2>2. CASE RefreshLost(r)
    BY <1>2, <2>2 DEF RefreshLost, Exit, Goto, TypeOK
  <2> QED BY <2>1, <2>2
\* The numbers in use are as they were.
<1>7. /\ \A n \in Number : n <= runs => origin'[n] = origin[n]
      /\ origin'[runs + 1] = origin[t] /\ origin' \in [Number -> Number]
  BY <1>2, <1>4, <1>5 DEF TypeOK, Number
<1>8. /\ \A b \in Auth!Backend, c \in Site : vault[b][c] <= runs /\ vault[b][c] \in 0..MaxRuns
      /\ \A q \in Reader : token[q] <= runs /\ token[q] \in 0..MaxRuns
      /\ \A n \in 0..MaxRuns : n # 0 => n \in Number
  BY <1>2, <1>4, CredentialsAssumption DEF NumberInv, Auth!TypeOK, TypeOK, Auth!Secret,
     Number
<1>9. /\ \A c \in Site : AuthOn(c)' <=> AuthOn(c)
      /\ RefreshOn(s) /\ (s \notin crossed => ~AuthOn(s))
  <2>1. RefreshOn(s)
    BY <1>3 DEF RefreshOn
  <2> QED BY <1>2, <1>3, <1>5, <2>1 DEF AuthOn, CrossInv, Crossing
<1> HIDE DEF s, t
<1>10. TypeOK'
  <2>1. Auth!TypeOK'
    BY <1>1, <1>2, <1>4, <1>5 DEF Auth!TypeOK, Auth!Former
  <2>2. Crossing' \in SUBSET Site
    <3>1. RunEditing' \subseteq Site /\ \A q \in Reader : rsite'[q] \in Site
      BY <1>1 DEF RunEditing
    <3>2. AuthEditing' \subseteq Site
      <4>1. ASSUME NEW p \in Proc, pc[p] \in {"saveWrite", "clearWrite"} PROVE job[p].arg \in Site
        BY <4>1, AuthKnows
      <4> QED BY <1>5, <4>1 DEF AuthEditing
    <3> QED BY <3>1, <3>2 DEF Crossing
  <2>3. met' \in [Reader -> BOOLEAN]
    BY <1>2
  <2>4. spent' \subseteq Site \X Number
    BY <1>2, <1>3, <1>4, <1>5 DEF TypeOK
  <2> QED BY <1>1, <1>2, <1>5, <1>7, <2>1, <2>2, <2>3, <2>4 DEF TypeOK
<1>11. NumberInv'
  <2>1. /\ \A b \in Auth!Backend, c \in Site : vault[b][c] <= runs + 1
        /\ \A p \in Proc : job[p].login <= runs + 1 /\ \A c \in Site : doc[p][c] <= runs + 1
    <3>1. \A p \in Proc : job[p] \in Auth!Jobs /\ doc[p] \in [Site -> Auth!Secret]
      BY <1>2 DEF Auth!TypeOK
    <3>2. \A p \in Proc : job[p].login \in 0..MaxRuns /\ \A c \in Site : doc[p][c] \in 0..MaxRuns
      BY <3>1 DEF Auth!Secret, Auth!Jobs
    <3> QED BY <1>2, <1>4, <1>8, <3>2, CredentialsAssumption DEF NumberInv
  <2>2. ASSUME NEW q \in Reader
        PROVE  token'[q] <= runs + 1 /\ \A c \in Site : rdoc'[q][c] <= runs + 1
    <3>1. \A c \in Site : rdoc[q][c] <= runs /\ rdoc[q][c] \in 0..MaxRuns
      BY <1>2 DEF NumberInv, TypeOK, Auth!Secret
    <3>2. CASE q # r
      BY <1>1, <1>4, <1>8, <3>1, <3>2, CredentialsAssumption DEF OthersStay
    <3>3. CASE q = r
      BY <1>4, <1>6, <3>1, <3>3, CredentialsAssumption
    <3> QED BY <3>2, <3>3
  <2>3. \A u \in spent' : u[2] <= runs + 1
    <3>1. \A u \in spent : u[2] <= runs /\ u[2] \in Number
      BY <1>2 DEF NumberInv, TypeOK
    <3>2. \A n \in Number : n <= runs => n <= runs + 1
      BY <1>4, CredentialsAssumption DEF Number
    <3> QED BY <1>3, <1>4, <1>5, <3>1, <3>2
  <2>4. \A n \in Number : n > runs + 1 => origin'[n] = n
    <3> SUFFICES ASSUME NEW n \in Number, n > runs + 1 PROVE origin'[n] = n
      OBVIOUS
    <3>1. n > runs /\ n # runs + 1
      BY <1>4, CredentialsAssumption DEF Number
    <3>2. origin[n] = n /\ origin \in [Number -> Number]
      BY <1>2, <3>1 DEF NumberInv, TypeOK
    <3> QED BY <1>5, <3>1, <3>2
  <2> QED BY <1>5, <2>1, <2>2, <2>3, <2>4 DEF NumberInv
<1>12. JobInv'
  <2>1. ASSUME NEW p \in Proc, pc[p] # "idle", job[p].kind = "token"
        PROVE  origin'[job[p].login] = job[p].login
    <3>1. job[p].login \in Auth!Secret /\ job[p].login # 0 /\ job[p].login <= runs /\ JobOf(p)
      BY <2>1, AuthKnows
    <3>2. job[p].login \in Number
      BY <1>8, <3>1 DEF Auth!Secret
    <3> QED BY <1>7, <2>1, <3>1, <3>2 DEF JobOf
  <2> QED BY <1>2, <1>5, <2>1 DEF JobInv, JobOf, Auth!Former
<1>13. SoloInv' /\ CopyInv' /\ CrossInv' /\ ApartInv'
  BY <1>2, <1>5 DEF SoloInv, CopyInv, CopyOf, CrossInv, ApartInv
<1>14. LockInv'
  <2>1. \A q \in Reader \ {r} : rpc'[q] = rpc[q] /\ (q \in unlocked' <=> q \in unlocked)
    BY <1>1 DEF OthersStay
  <2>2. rpc'[r] \in Refreshing => rpc[r] \in Refreshing /\ unlocked' = unlocked
    BY <1>3, <1>6 DEF Refreshing
  <2> QED BY <1>2, <2>1, <2>2 DEF LockInv
<1>15. DocInv'
  <2>1. \A q \in Reader : rpc'[q] = "write" => rpc[q] = "write" /\ rdoc'[q] = rdoc[q]
    BY <1>1, <1>3, <1>6 DEF OthersStay
  <2> QED BY <1>2, <1>5, <2>1 DEF DocInv
<1>16. SecretInv'
  <2>1. ASSUME NEW p \in Proc, job[p].arg \notin crossed, pc[p] # "idle", job[p].kind = "token"
        PROVE  <<job[p].arg, job[p].login>> \notin spent'
    <3>1. job[p].arg # s
      BY <1>9, <2>1 DEF AuthOn
    <3> QED BY <1>2, <1>5, <2>1, <3>1 DEF SecretInv, SecretOf
  <2> QED BY <1>2, <1>5, <2>1 DEF SecretInv, SecretOf, Auth!Unrecorded, Auth!Emptied,
     Auth!Former
<1>17. FoundInv'
  <2>1. \A p \in Proc, c \in Site : Loses(p, c)' <=> Loses(p, c)
    BY <1>5 DEF Loses, Auth!Replaced, Auth!Unrecorded, Auth!Emptied, Auth!Former
  <2>2. \A c \in Site : Pending(c) => Pending(c)'
    <3>1. ASSUME NEW q \in Reader, rpc[q] \in {"save", "write"}
          PROVE  rpc'[q] = rpc[q] /\ rsite'[q] = rsite[q] /\ prof'[q] = prof[q]
      BY <1>1, <1>3, <3>1 DEF OthersStay
    <3> QED BY <1>5, <3>1 DEF Pending
  <2>3. ASSUME NEW c \in Site, c \notin torn, c \notin crossed, config.sites[c].ref \in Auth!Backend,
               Found(c)
        PROVE  Found(c)'
    <3>1. /\ Stored(c)' = Stored(c) /\ Stored(c) # 0 /\ Stored(c) \in Number /\ Stored(c) <= runs
          /\ config'.sites[c] = config.sites[c] /\ origin[Stored(c)] = config.sites[c].login
      BY <1>5, <1>8, <2>3 DEF Found, Stored
    <3>2. origin'[Stored(c)] = config.sites[c].login
      BY <1>7, <3>1
    <3>3. CASE <<c, Stored(c)>> \in spent
      BY <1>1, <2>2, <2>3, <3>1, <3>2, <3>3 DEF Found
    <3>4. CASE <<c, Stored(c)>> # <<s, t>> /\ <<c, Stored(c)>> \notin spent
      <4>1. <<c, Stored(c)>> \notin spent'
        BY <1>5, <3>4
      <4> QED BY <3>1, <3>2, <4>1 DEF Found
    <3>5. CASE c = s /\ Stored(c) = t
      <4>1. t = Entry(r) /\ config.sites[s].ref = prof[r].ref
        <5>1. /\ t = Entry(r)
              /\ config.sites[s].ref = prof[r].ref \/ <<s, prof[r].ref>> \in residue
          BY <1>3, <2>3, <3>5 DEF RefreshOf, s, t
        <5>2. vault["keyring"][s] # vault["file"][s] \/ vault["file"][s] = 0
          BY <1>2, <1>3, <2>3, <3>5 DEF ApartInv
        <5> QED BY <1>4, <2>3, <3>5, <5>1, <5>2 DEF Entry, Stored, Auth!Backend, s
      <4>2. CASE rpc'[r] = "save"
        <5>1. Pending(s)'
          <6>1. rsite'[r] = s /\ prof'[r].ref = config'.sites[s].ref /\ s' = s
            BY <1>5, <1>6, <4>1, <4>2 DEF s
          <6> QED BY <4>2, <6>1 DEF Pending
        <5>2. s' = s
          BY <1>5 DEF s
        <5> QED BY <3>1, <3>2, <3>5, <5>1, <5>2 DEF Found, Pending
      <4>3. CASE rpc'[r] = "idle"
        <5>1. <<c, config.sites[c].login>> \in dropped'
          BY <1>6, <3>1, <3>5, <4>3
        <5> QED BY <3>1, <3>2, <5>1 DEF Found
      <4> QED BY <1>6, <4>2, <4>3
    <3> QED BY <3>3, <3>4, <3>5
  <2> QED BY <1>2, <1>5, <2>1, <2>3 DEF FoundInv
<1>18. OwnedInv'
  <2>1. \A p \in Proc, c \in Site, b \in Auth!Backend : Leaves(p, c, b)' <=> Leaves(p, c, b)
    BY <1>5 DEF Leaves, Auth!Unrecorded, Auth!Kept, Auth!Former
  <2> QED BY <1>2, <1>5, <2>1 DEF OwnedInv
<1>19. RunInv'
  <2>1. ASSUME NEW q \in Reader, q # r PROVE RunOf(q)' /\ RefreshOf(q)'
    <3>1. /\ RunOf(q) /\ RefreshOf(q) /\ rsite[q] \in Site
          /\ rpc'[q] = rpc[q] /\ rsite'[q] = rsite[q] /\ prof'[q] = prof[q] /\ token'[q] = token[q]
      BY <1>1, <1>2, <2>1 DEF RunInv, TypeOK, OthersStay
    <3>2. RunOf(q)'
      BY <3>1 DEF RunOf, Has
    <3>3. ASSUME rpc[q] \in {"sent", "save", "write"}, rsite[q] \notin crossed
          PROVE  RefreshOf(q)'
      <4>1. rsite[q] # s
        BY <1>3, <2>1, <3>3
      <4>2. prof[q].ref \in Auth!Backend /\ token[q] # 0 /\ Entry(q) # 0 /\ Entry(q)' = Entry(q)
        BY <1>5, <3>1, <3>3 DEF RunOf, RefreshOf, Has, Refreshing, Entry
      <4>3. origin'[token[q]] = origin[token[q]] /\ origin'[Entry(q)] = origin[Entry(q)]
        BY <1>7, <1>8, <3>1, <4>2 DEF Entry
      <4> QED BY <1>5, <3>1, <3>3, <4>1, <4>2, <4>3 DEF RefreshOf
    <3>4. CASE rpc[q] \notin {"sent", "save", "write"} \/ rsite[q] \in crossed
      <4>1. rsite[q] \in crossed => rsite[q] \in crossed'
        BY <1>2
      <4>2. ~(rpc'[q] \in {"sent", "save", "write"} /\ rsite'[q] \notin crossed')
        BY <3>1, <3>4, <4>1
      <4> QED BY <3>2, <4>2 DEF RefreshOf
    <3> QED BY <3>2, <3>3, <3>4
  <2>2. RunOf(r)'
    BY <1>4, <1>6 DEF RunOf, Has, Refreshing
  <2>3. RefreshOf(r)'
    <3> SUFFICES ASSUME rpc'[r] = "save", s \notin crossed
                 PROVE  RefreshOf(r)'
      BY <1>2, <1>5, <1>6 DEF RefreshOf
    <3>1. /\ token'[r] = runs + 1 /\ prof'[r] = prof[r] /\ Entry(r)' = Entry(r)
      BY <1>5, <1>6 DEF Entry, s
    <3>2. /\ config.sites[s].ref = prof[r].ref \/ <<s, prof[r].ref>> \in residue
          /\ Entry(r) # 0 /\ t = Entry(r)
      BY <1>3 DEF RefreshOf, s, t
    <3>3. <<s, runs + 1>> \notin spent'
      BY <1>2, <1>3, <1>4, <1>5 DEF NumberInv
    <3>4. origin'[runs + 1] = origin'[Entry(r)]
      BY <1>3, <1>4, <1>7, <3>2
    <3>5. \A b \in Auth!Backend : vault[b][s] # runs + 1
      BY <1>3, <1>4, <1>8
    <3> QED BY <1>5, <3>1, <3>2, <3>3, <3>4, <3>5 DEF RefreshOf
  <2> QED BY <2>1, <2>2, <2>3 DEF RunInv
<1>20. MetInv'
  <2>1. ASSUME NEW q \in Reader, q # r PROVE MetOf(q)'
    <3> SUFFICES ASSUME rpc[q] # "idle", ~met'[q] PROVE MetOf(q)'
      BY <1>1, <2>1 DEF MetOf, OthersStay
    <3>1. ~met[q] /\ MetOf(q) /\ RunOf(q) /\ ~AuthOn(rsite[q])' /\ rsite'[q] = rsite[q]
      BY <1>1, <1>2, <2>1 DEF MetInv, RunInv, OthersStay
    <3>2. rpc[q] = "sent" /\ rsite[q] \notin crossed' => rsite[q] # s
      BY <1>2, <1>3, <2>1
    <3>3. Has(q) => origin'[token[q]] = origin[token[q]]
      BY <1>7, <1>8, <3>1 DEF RunOf
    <3>4. rpc'[q] = rpc[q] /\ prof'[q] = prof[q] /\ token'[q] = token[q]
      BY <1>1, <2>1 DEF OthersStay
    <3>5. rpc[q] = "sent" /\ rsite[q] \notin crossed' =>
            (<<rsite[q], token[q]>> \in spent' <=> <<rsite[q], token[q]>> \in spent)
      BY <1>5, <3>2
    <3> QED BY <1>1, <1>2, <1>5, <3>1, <3>3, <3>4, <3>5 DEF MetOf, Has
  <2>2. MetOf(r)'
    <3> SUFFICES ASSUME rpc'[r] = "save", ~met'[r] PROVE MetOf(r)'
      BY <1>6 DEF MetOf
    <3>1. ~met[r] /\ ~AuthOn(rsite[r])' /\ Has(r)
      BY <1>2, <1>3 DEF Has, Refreshing
    <3>2. prof[r] = config.sites[s] /\ (s \notin torn \cup crossed => origin[t] = prof[r].login)
      BY <1>3, <3>1 DEF MetOf, s, t
    <3> QED BY <1>2, <1>5, <1>6, <1>7, <3>1, <3>2 DEF MetOf
  <2> QED BY <2>1, <2>2 DEF MetInv
<1> QED BY <1>10, <1>11, <1>12, <1>13, <1>14, <1>15, <1>16, <1>17, <1>18, <1>19, <1>20
   DEF Inv

\* The run stores the new pair, in either backend.
LEMMA SaveSteps ==
  ASSUME Inv, NEW r \in Reader, Observe, SaveKeyring(r) \/ WriteFile(r)
  PROVE  Inv'
<1> DEFINE s == rsite[r]
           t == token[r]
           h == prof[r].ref
<1>0. RunStep(r)
  BY DEF RunStep
<1>1. /\ UNCHANGED stores /\ OthersStay(r) /\ stops' \in 0..MaxStops
      /\ rpc' \in [Reader -> {"idle", "get", "acquire", "use", "refused"} \cup Refreshing]
      /\ rsite' \in [Reader -> Site] /\ prof' \in [Reader -> Auth!Profile]
      /\ token' \in [Reader -> Auth!Secret] /\ rdoc' \in [Reader -> [Site -> Auth!Secret]]
      /\ unlocked' \in SUBSET Reader
  BY <1>0, RunFrame
<1>2. /\ TypeOK /\ Auth!TypeOK /\ NumberInv /\ JobInv /\ SoloInv /\ CopyInv /\ LockInv /\ CrossInv
      /\ DocInv /\ SecretInv /\ ApartInv /\ FoundInv /\ OwnedInv /\ RunInv /\ MetInv
      /\ crossed' = crossed \cup Crossing' /\ crossed \subseteq crossed'
      /\ met' = [q \in Reader |-> rpc'[q] # "idle" /\ (met[q] \/ AuthOn(rsite[q])')]
  BY DEF Inv, TypeOK, Observe
<1>3. /\ s \in Site /\ RunOf(r) /\ RefreshOf(r) /\ MetOf(r)
      /\ t \in Auth!Secret /\ t <= runs /\ rpc[r] \in {"save", "write"} /\ t # 0 /\ h \in Auth!Backend
      /\ \A q \in Reader \ {r} : rpc[q] \in Refreshing => r \in unlocked \/ q \in unlocked
      /\ s \notin crossed =>
           \A q \in Reader \ {r} : rpc[q] \in {"sent", "save", "write"} => rsite[q] # s
      /\ rpc[r] = "write" => \A q \in Reader \ {r} : rpc[q] = "write" => s \in crossed
  <2>1. rpc[r] \in {"save", "write"}
    BY DEF SaveKeyring, WriteFile
  <2>2. rpc[r] \in Refreshing /\ Has(r) /\ rpc[r] # "idle"
    BY <2>1 DEF Refreshing, Has
  <2> QED BY <2>1, <2>2, RunKnows DEF RunOf, Auth!Secret
<1>4. /\ UNCHANGED <<config, pc, job, cfg, doc, ref, overlapped, torn, residue>>
      /\ UNCHANGED <<runs, stops, spent, origin, dropped, rsite, prof, token>>
      /\ rpc'[r] = "use"
      /\ rdoc'[r] \in {rdoc[r], [c \in Site |-> 0]}
      /\ rpc[r] = (IF h = "keyring" THEN "save" ELSE "write")
      /\ vault' = [vault EXCEPT ![h] = [(IF h = "file" THEN rdoc[r] ELSE vault[h]) EXCEPT ![s] = t]]
  <2>1. CASE SaveKeyring(r)
    <3>1. h = "keyring" /\ vault' = [vault EXCEPT ![h] = [vault[h] EXCEPT ![s] = t]]
      BY <1>2, <1>3, <2>1 DEF SaveKeyring, Home, Auth!TypeOK
    <3> QED BY <1>1, <1>2, <2>1, <3>1 DEF SaveKeyring, Goto, stores, service, TypeOK
  <2>2. CASE WriteFile(r)
    <3>1. h = "file" /\ vault' = [vault EXCEPT ![h] = [rdoc[r] EXCEPT ![s] = t]]
      BY <1>3, <2>2 DEF WriteFile, RunOf
    <3> QED BY <1>1, <1>2, <2>2, <3>1 DEF WriteFile, Goto, stores, service, TypeOK
  <2> QED BY <2>1, <2>2
<1>5. /\ \A c \in Site : vault'[h][c] = (IF c = s THEN t
                                         ELSE IF h = "file" THEN rdoc[r][c] ELSE vault[h][c])
      /\ \A c \in Site, b \in Auth!Backend : b # h => vault'[b][c] = vault[b][c]
      /\ vault' \in [Auth!Backend -> [Site -> Auth!Secret]]
  BY <1>2, <1>3, <1>4 DEF Auth!TypeOK, TypeOK
<1>6. \A c \in Site \ crossed, b \in Auth!Backend : <<c, b>> # <<s, h>> => vault'[b][c] = vault[b][c]
  <2>1. \A c \in Site \ crossed : rpc[r] = "write" => rdoc[r][c] = vault["file"][c]
    BY <1>2 DEF DocInv
  <2> QED BY <1>3, <1>4, <1>5, <2>1 DEF Auth!Backend
<1>7. /\ \A c \in Site : AuthOn(c)' <=> AuthOn(c)
      /\ RefreshOn(s) /\ (s \notin crossed => ~AuthOn(s))
  <2>1. RefreshOn(s)
    BY <1>3 DEF RefreshOn
  <2> QED BY <1>2, <1>3, <1>4, <2>1 DEF AuthOn, CrossInv, Crossing
<1>8. s \notin crossed =>
        /\ config.sites[s].ref = h \/ <<s, h>> \in residue
        /\ vault[h][s] # 0 /\ <<s, t>> \notin spent /\ origin[t] = origin[vault[h][s]]
        /\ \A b \in Auth!Backend : vault[b][s] # t
  BY <1>3 DEF RefreshOf, Entry
<1>9. s' = s /\ t' = t /\ h' = h
  BY <1>4
<1> HIDE DEF s, t, h
<1>10. TypeOK'
  <2>1. Auth!TypeOK'
    BY <1>1, <1>2, <1>4, <1>5 DEF Auth!TypeOK, Auth!Former
  <2>2. Crossing' \in SUBSET Site
    <3>1. RunEditing' \subseteq Site /\ \A q \in Reader : rsite'[q] \in Site
      BY <1>1 DEF RunEditing
    <3>2. AuthEditing' \subseteq Site
      <4>1. ASSUME NEW p \in Proc, pc[p] \in {"saveWrite", "clearWrite"} PROVE job[p].arg \in Site
        BY <4>1, AuthKnows
      <4> QED BY <1>4, <4>1 DEF AuthEditing
    <3> QED BY <3>1, <3>2 DEF Crossing
  <2>3. met' \in [Reader -> BOOLEAN]
    BY <1>2
  <2> QED BY <1>1, <1>2, <1>4, <2>1, <2>2, <2>3 DEF TypeOK
<1>11. NumberInv'
  <2>1. 0 <= runs
    BY <1>2, CredentialsAssumption DEF Auth!TypeOK
  <2>2. \A b \in Auth!Backend, c \in Site : vault'[b][c] <= runs
    <3>1. \A c \in Site : rdoc[r][c] <= runs
      BY <1>2 DEF NumberInv
    <3> QED BY <1>2, <1>3, <1>5, <3>1 DEF NumberInv
  <2>3. ASSUME NEW q \in Reader PROVE \A c \in Site : rdoc'[q][c] <= runs
    <3>1. \A c \in Site : rdoc[q][c] <= runs
      BY <1>2 DEF NumberInv
    <3>2. CASE q = r
      BY <1>4, <2>1, <3>1, <3>2
    <3>3. CASE q # r
      BY <1>1, <3>1, <3>3 DEF OthersStay
    <3> QED BY <3>2, <3>3
  <2> QED BY <1>2, <1>4, <2>2, <2>3 DEF NumberInv
<1>12. JobInv' /\ SoloInv' /\ CopyInv' /\ CrossInv'
  BY <1>2, <1>4 DEF JobInv, JobOf, SoloInv, CopyInv, CopyOf, CrossInv, Auth!Former
<1>13. LockInv'
  <2>1. \A q \in Reader \ {r} : rpc'[q] = rpc[q] /\ (q \in unlocked' <=> q \in unlocked)
    BY <1>1 DEF OthersStay
  <2>2. rpc'[r] \notin Refreshing
    BY <1>4 DEF Refreshing
  <2> QED BY <1>2, <2>1, <2>2 DEF LockInv
<1>14. DocInv'
  <2>1. ASSUME NEW c \in Site \ crossed, NEW p \in Proc, pc[p] \in {"saveWrite", "clearWrite"}
        PROVE  doc[p][c] = vault'["file"][c]
    <3>1. doc[p][c] = vault["file"][c] /\ "file" \in Auth!Backend
      BY <1>2, <2>1 DEF DocInv, Auth!Backend
    <3>2. CASE h = "file"
      <4>1. s \in crossed
        <5>1. job[p].arg \in AuthEditing
          BY <2>1 DEF AuthEditing
        <5>2. s \in RunEditing
          BY <1>3, <1>4, <3>2 DEF RunEditing, s
        <5> QED BY <1>2, <5>1, <5>2 DEF CrossInv, Crossing
      <4> QED BY <1>6, <2>1, <3>1, <4>1
    <3>3. CASE h # "file"
      BY <1>6, <2>1, <3>1, <3>3
    <3> QED BY <3>2, <3>3
  <2>2. ASSUME NEW c \in Site \ crossed, NEW q \in Reader, rpc'[q] = "write"
        PROVE  rdoc'[q][c] = vault'["file"][c]
    <3>1. q # r /\ rpc[q] = "write" /\ rdoc'[q] = rdoc[q]
      BY <1>1, <1>4, <2>2 DEF OthersStay
    <3>2. rdoc[q][c] = vault["file"][c] /\ "file" \in Auth!Backend
      BY <1>2, <2>2, <3>1 DEF DocInv, Auth!Backend
    <3>3. <<c, "file">> # <<s, h>>
      BY <1>3, <1>4, <2>2, <3>1
    <3> QED BY <1>6, <2>2, <3>1, <3>2, <3>3
  <2> QED BY <1>2, <1>4, <2>1, <2>2 DEF DocInv
<1>15. SecretInv'
  <2>1. ASSUME NEW p \in Proc, job[p].arg \notin crossed, pc[p] # "idle"
        PROVE  SecretOf(p)'
    <3>1. job[p].arg # s /\ job[p].arg \in Site /\ SecretOf(p) /\ JobOf(p) /\ Auth!TypeOK
      BY <1>7, <2>1, AuthKnows DEF AuthOn
    <3>2. \A b \in Auth!Backend : vault'[b][job[p].arg] = vault[b][job[p].arg]
      BY <1>6, <2>1, <3>1
    <3>3. Auth!Unrecorded(p) => ref[p] \in Auth!Backend
      BY <3>1 DEF JobOf, Auth!Unrecorded
    <3>4. Auth!Emptied(p) => Auth!Former(p) \in Auth!Backend
      BY DEF Auth!Emptied
    <3> QED BY <1>4, <2>1, <3>1, <3>2, <3>3, <3>4
        DEF SecretOf, Auth!Unrecorded, Auth!Emptied, Auth!Former
  <2>2. ASSUME NEW p \in Proc PROVE SecretOf(p)'
    <3>1. CASE pc[p] = "idle"
      BY <1>4, <3>1 DEF SecretOf, Auth!Unrecorded, Auth!Emptied
    <3>2. CASE job[p].arg \in crossed
      BY <1>2, <1>4, <3>2 DEF SecretOf
    <3> QED BY <2>1, <3>1, <3>2
  <2> QED BY <2>2 DEF SecretInv, SecretOf
<1>16. ApartInv'
  <2>1. ASSUME NEW c \in Site \ crossed, vault'["keyring"][c] = vault'["file"][c]
        PROVE  vault'["file"][c] = 0
    <3>1. CASE c = s
      BY <1>3, <1>5, <1>8, <2>1, <3>1 DEF Auth!Backend
    <3>2. CASE c # s
      <4>1. vault'["keyring"][c] = vault["keyring"][c] /\ vault'["file"][c] = vault["file"][c]
        BY <1>6, <3>2 DEF Auth!Backend
      <4> QED BY <1>2, <2>1, <4>1 DEF ApartInv
    <3> QED BY <3>1, <3>2
  <2> QED BY <1>2, <2>1 DEF ApartInv
<1>17. FoundInv'
  <2>1. \A p \in Proc, c \in Site : Loses(p, c)' <=> Loses(p, c)
    BY <1>4 DEF Loses, Auth!Replaced, Auth!Unrecorded, Auth!Emptied, Auth!Former
  <2>2. ASSUME NEW c \in Site, c \notin torn, c \notin crossed, config.sites[c].ref \in Auth!Backend,
               Found(c)
        PROVE  Found(c)'
    <3>1. CASE c = s /\ config.sites[s].ref = h
      <4>1. Stored(c)' = t /\ Stored(c) = vault[h][s]
        BY <1>3, <1>4, <1>5, <3>1 DEF Stored
      <4> QED BY <1>3, <1>4, <1>8, <2>2, <3>1, <4>1 DEF Found
    <3>2. CASE c # s \/ config.sites[s].ref # h
      <4>1. Stored(c)' = Stored(c)
        <5>1. <<c, config.sites[c].ref>> # <<s, h>>
          BY <3>2
        <5>2. vault'[config.sites[c].ref][c] = vault[config.sites[c].ref][c]
          BY <1>6, <2>2, <5>1
        <5> QED BY <1>4, <5>2 DEF Stored
      <4>2. Pending(c) => Pending(c)'
        <5>1. ASSUME NEW q \in Reader, rpc[q] \in {"save", "write"}, rsite[q] = c,
                     prof[q].ref = config.sites[c].ref
              PROVE  rpc'[q] = rpc[q]
          BY <1>1, <3>2, <5>1 DEF OthersStay, s, h
        <5> QED BY <1>4, <5>1 DEF Pending
      <4> QED BY <1>4, <2>2, <4>1, <4>2 DEF Found
    <3> QED BY <3>1, <3>2
  <2> QED BY <1>2, <1>4, <2>1, <2>2 DEF FoundInv
<1>18. OwnedInv'
  <2>1. \A p \in Proc, c \in Site, b \in Auth!Backend : Leaves(p, c, b)' <=> Leaves(p, c, b)
    BY <1>4 DEF Leaves, Auth!Unrecorded, Auth!Kept, Auth!Former
  <2>2. ASSUME NEW c \in Site \ crossed, NEW b \in Auth!Backend, vault'[b][c] # 0
        PROVE  config.sites[c].ref = b \/ <<c, b>> \in residue \/ \E p \in Proc : Leaves(p, c, b)
    <3>1. CASE <<c, b>> = <<s, h>>
      BY <1>8, <3>1
    <3>2. CASE <<c, b>> # <<s, h>>
      BY <1>2, <1>6, <2>2, <3>2 DEF OwnedInv
    <3> QED BY <3>1, <3>2
  <2> QED BY <1>2, <1>4, <2>1, <2>2 DEF OwnedInv
<1>19. RunInv'
  <2>1. ASSUME NEW q \in Reader, q # r PROVE RunOf(q)' /\ RefreshOf(q)'
    <3>1. /\ RunOf(q) /\ RefreshOf(q) /\ rsite[q] \in Site /\ rpc'[q] = rpc[q]
      BY <1>1, <1>2, <2>1 DEF RunInv, TypeOK, OthersStay
    <3>2. RunOf(q)'
      BY <1>4, <3>1 DEF RunOf, Has
    <3>3. ASSUME rpc[q] \in {"sent", "save", "write"}, rsite[q] \notin crossed
          PROVE  RefreshOf(q)'
      <4>1. rsite[q] # s /\ prof[q].ref \in Auth!Backend
        BY <1>3, <2>1, <3>1, <3>3 DEF RunOf
      <4>2. \A b \in Auth!Backend : vault'[b][rsite[q]] = vault[b][rsite[q]]
        BY <1>6, <3>1, <3>3, <4>1
      <4>3. Entry(q)' = Entry(q)
        BY <1>4, <4>1, <4>2 DEF Entry
      <4> QED BY <1>4, <3>1, <3>3, <4>1, <4>2, <4>3 DEF RefreshOf
    <3>4. CASE rpc[q] \notin {"sent", "save", "write"} \/ rsite[q] \in crossed
      <4>1. rsite'[q] = rsite[q] /\ (rsite[q] \in crossed => rsite[q] \in crossed')
        BY <1>2, <1>4
      <4>2. ~(rpc'[q] \in {"sent", "save", "write"} /\ rsite'[q] \notin crossed')
        BY <3>1, <3>4, <4>1
      <4> QED BY <3>2, <4>2 DEF RefreshOf
    <3> QED BY <3>2, <3>3, <3>4
  <2>2. RunOf(r)' /\ RefreshOf(r)'
    BY <1>3, <1>4, <1>9 DEF RunOf, RefreshOf, Has, Refreshing, h, t
  <2> QED BY <2>1, <2>2 DEF RunInv
<1>20. MetInv'
  <2>1. ASSUME NEW q \in Reader PROVE MetOf(q)'
    <3> SUFFICES ASSUME rpc'[q] # "idle", ~met'[q] PROVE MetOf(q)'
      BY DEF MetOf
    <3>1. rpc[q] # "idle" /\ ~met[q] /\ (Has(q)' => Has(q)) /\ rpc'[q] \in {rpc[q], "use"}
      BY <1>1, <1>2, <1>3, <1>4 DEF OthersStay, Has, Refreshing
    <3>2. MetOf(q) /\ ~AuthOn(rsite[q])' /\ rsite'[q] = rsite[q]
      BY <1>2, <1>4, <3>1 DEF MetInv
    <3> QED BY <1>2, <1>4, <3>1, <3>2 DEF MetOf
  <2> QED BY <2>1 DEF MetInv
<1> QED BY <1>10, <1>11, <1>12, <1>13, <1>14, <1>15, <1>16, <1>17, <1>18, <1>19, <1>20
   DEF Inv

-----------------------------------------------------------------------------
(* Secrets only get newer, but for sites that were crossed. *)

\* A profile is of a login that began, and not after the one under way.
LoginInv ==
  /\ \A s \in Site : config.sites[s].login <= runs
  /\ \A r \in Reader : prof[r].login <= runs
  /\ \A p \in Proc : pc[p] # "idle" =>
       /\ \A s \in Site : config.sites[s].login <= job[p].login
       /\ \A r \in Reader : prof[r].login <= job[p].login

\* The secret stored there goes back to login n or to a later one.
Newer(s, b, n) == vault[b][s] # 0 => origin[vault[b][s]] >= n

\* That is so of the place a profile names, that one a run has read names, and of what
\* the run has read there.
AgeInv ==
  /\ \A s \in Site \ crossed, b \in Auth!Backend :
       config.sites[s].ref = b => Newer(s, b, config.sites[s].login)
  /\ \A r \in Reader : rpc[r] # "idle" /\ rsite[r] \notin crossed =>
       /\ Newer(rsite[r], prof[r].ref, prof[r].login)
       /\ Has(r) => origin[token[r]] >= prof[r].login

\* Of a site that is not crossed, an auth command changes no secret but its own site's:
\* it stores a new one or removes what was there.
LEMMA AuthRenews ==
  ASSUME Inv, NEW p \in Proc, Auth!Step(p)
  PROVE  /\ \A s \in Site \ crossed, b \in Auth!Backend :
              \/ vault'[b][s] \in {vault[b][s], 0}
              \/ s = job[p].arg /\ job[p].kind = "token" /\ vault'[b][s] = job[p].login
         /\ config' = config \/ Auth!WriteConfig(p)
<1>1. /\ pc[p] # "idle" /\ Auth!TypeOK /\ job[p].arg \in Site /\ JobOf(p)
      /\ \A c \in Site \ crossed, b \in Auth!Backend :
           pc[p] \in {"saveWrite", "clearWrite"} => doc[p][c] = vault["file"][c]
  BY AuthFrame, AuthKnows DEF Inv, TypeOK
<1>2. CASE Auth!SetInKeyring(p)
  BY <1>1, <1>2 DEF Auth!SetInKeyring, Auth!Stored, Auth!TypeOK, Auth!Backend, JobOf
<1>3. CASE Auth!SetInFile(p)
  BY <1>1, <1>3 DEF Auth!SetInFile, Auth!TypeOK, Auth!Backend, JobOf
<1>4. CASE Auth!DeleteFromKeyring(p)
  BY <1>1, <1>4 DEF Auth!DeleteFromKeyring, Auth!Stored, Auth!TypeOK, Auth!Backend
<1>5. CASE Auth!DeleteFromFile(p)
  BY <1>1, <1>5 DEF Auth!DeleteFromFile, Auth!TypeOK, Auth!Backend
<1>6. CASE Auth!WriteConfig(p)
  BY <1>6 DEF Auth!WriteConfig
<1>7. CASE \/ Auth!KeyringRefuses(p) \/ Auth!LoadToSet(p) \/ Auth!LoadConfig(p) \/ Auth!Refuse(p)
           \/ Auth!ClearNothing(p) \/ Auth!LoadToDelete(p) \/ Auth!Stops(p)
  BY <1>7 DEF Auth!KeyringRefuses, Auth!LoadToSet, Auth!LoadConfig, Auth!Refuse,
     Auth!ClearNothing, Auth!LoadToDelete, Auth!Stops, Auth!disk
<1> QED BY <1>2, <1>3, <1>4, <1>5, <1>6, <1>7 DEF Auth!Step

\* The profile a command writes is that of its own login, or none.
LEMMA WritesOwn ==
  ASSUME Inv, NEW p \in Proc, Auth!WriteConfig(p)
  PROVE  \A s \in Site :
           \/ config'.sites[s] = config.sites[s]
           \/ s = job[p].arg /\ config'.sites[s] = Auth!NoProfile
           \/ /\ s = job[p].arg /\ job[p].kind \in {"token", "env"}
              /\ config'.sites[s] = [ref |-> ref[p], login |-> job[p].login]
<1>1. /\ pc[p] = "write" /\ config' = Auth!Edited(job[p], cfg[p], ref[p])
      /\ job[p].arg \in Site /\ Auth!TypeOK /\ CopyOf(p) /\ JobOf(p)
  <2>1. pc[p] = "write" /\ config' = Auth!Edited(job[p], cfg[p], ref[p]) /\ pc[p] # "idle"
    BY DEF Auth!WriteConfig
  <2> QED BY <2>1, AuthKnows
<1>2. /\ cfg[p] = config /\ config \in Auth!Config /\ job[p] \in Auth!Jobs /\ ref[p] \in Auth!Ref
      /\ job[p].login > 0 /\ job[p].kind \in {"token", "env", "logout"}
  BY <1>1 DEF CopyOf, JobOf, Auth!TypeOK
<1>3. /\ job[p].kind = "logout" =>
           Auth!Edited(job[p], cfg[p], ref[p]).sites =
             [cfg[p].sites EXCEPT ![job[p].arg] = Auth!NoProfile]
      /\ job[p].kind # "logout" =>
           Auth!Edited(job[p], cfg[p], ref[p]).sites =
             [cfg[p].sites EXCEPT ![job[p].arg] = [ref |-> ref[p], login |-> job[p].login]]
  BY <1>2, EditedType
<1>4. \/ config'.sites = [config.sites EXCEPT ![job[p].arg] = Auth!NoProfile]
      \/ /\ job[p].kind \in {"token", "env"}
         /\ config'.sites =
              [config.sites EXCEPT ![job[p].arg] = [ref |-> ref[p], login |-> job[p].login]]
  BY <1>1, <1>2, <1>3
<1> QED BY <1>1, <1>2, <1>4 DEF Auth!Config

\* Numbers can be compared.
LEMMA Numbers ==
  ASSUME Inv
  PROVE  /\ runs \in Nat /\ MaxRuns \in Nat
         /\ \A s \in Site : config.sites[s].login \in Nat
         /\ \A r \in Reader : prof[r].login \in Nat /\ token[r] \in 0..MaxRuns /\ token[r] <= runs
         /\ \A p \in Proc : job[p].login \in Nat
         /\ \A s \in Site, b \in Auth!Backend : vault[b][s] \in 0..MaxRuns /\ vault[b][s] <= runs
         /\ \A n \in 0..MaxRuns : n # 0 => n \in Number /\ origin[n] \in Nat
<1>1. TypeOK /\ Auth!TypeOK /\ NumberInv
  BY DEF Inv, TypeOK
<1>2. MaxRuns \in Nat
  BY CredentialsAssumption
<1>3. /\ \A s \in Site : config.sites[s] \in Auth!Profile
      /\ \A r \in Reader : prof[r] \in Auth!Profile /\ token[r] \in 0..MaxRuns
      /\ \A p \in Proc : job[p] \in Auth!Jobs
  BY <1>1 DEF TypeOK, Auth!TypeOK, Auth!Config, Auth!Secret
<1>4. /\ \A s \in Site : config.sites[s].login \in 0..MaxRuns
      /\ \A r \in Reader : prof[r].login \in 0..MaxRuns
  BY <1>3, BlankTypes
<1>5. \A p \in Proc : job[p].login \in 0..MaxRuns
  BY <1>3 DEF Auth!Jobs
<1>6. \A n \in 0..MaxRuns : n # 0 => n \in Number /\ origin[n] \in Nat
  BY <1>1, <1>2 DEF TypeOK, Number
<1> QED BY <1>1, <1>2, <1>3, <1>4, <1>5, <1>6 DEF Auth!TypeOK, Auth!Secret, NumberInv

\* An auth command keeps both.
LEMMA AuthAges == Inv /\ LoginInv /\ AgeInv /\ AuthStep /\ Observe => LoginInv' /\ AgeInv'
<1> SUFFICES ASSUME Inv, LoginInv, AgeInv, AuthStep, Observe PROVE LoginInv' /\ AgeInv'
  OBVIOUS
<1>1. PICK p \in Proc :
        /\ \/ Auth!Step(p)
           \/ \E j \in Auth!Jobs : j.kind \in {"token", "env", "logout"} /\ Auth!Start(p, j)
        /\ UNCHANGED <<run, service, dropped>>
  BY DEF AuthStep
<1>2. UNCHANGED <<rpc, rsite, prof, token, origin>> /\ crossed \subseteq crossed'
  BY <1>1 DEF run, service, Observe
<1>3. ASSUME Auth!Step(p) PROVE LoginInv' /\ AgeInv'
  <2>1. /\ pc[p] # "idle" /\ UNCHANGED <<runs, job>> /\ \A q \in Proc \ {p} : pc'[q] = "idle"
        /\ job[p].arg \in Site /\ job[p].login <= runs /\ JobOf(p) /\ SecretOf(p)
    BY <1>3, AuthFrame, AuthKnows DEF Inv
  <2>2. \A s \in Site :
          \/ config'.sites[s] = config.sites[s]
          \/ s = job[p].arg /\ config'.sites[s] = Auth!NoProfile
          \/ /\ Auth!WriteConfig(p) /\ s = job[p].arg /\ job[p].kind \in {"token", "env"}
             /\ config'.sites[s] = [ref |-> ref[p], login |-> job[p].login]
    BY <1>3, AuthRenews, WritesOwn
  <2>3. \A s \in Site : config'.sites[s].login <= job[p].login /\ config'.sites[s].login <= runs
    BY <2>1, <2>2, Numbers DEF LoginInv, Auth!NoProfile
  <2>4. LoginInv'
    BY <1>2, <2>1, <2>3 DEF LoginInv
  \* what is stored stays, goes, or gives way to the newest
  <2>5. ASSUME NEW s \in Site \ crossed, NEW b \in Auth!Backend, NEW n \in Nat,
               n <= job[p].login, Newer(s, b, n)
        PROVE  Newer(s, b, n)'
    BY <1>2, <1>3, <2>1, <2>5, AuthRenews DEF Newer, JobOf
  <2>6. ASSUME NEW s \in Site \ crossed, NEW b \in Auth!Backend, config'.sites[s].ref = b
        PROVE  Newer(s, b, config.sites[s].login)'
    <3>1. CASE config'.sites[s] = config.sites[s]
      <4>1. Newer(s, b, config.sites[s].login) /\ config.sites[s].login <= job[p].login
        BY <2>1, <2>6, <3>1 DEF AgeInv, LoginInv
      <4>2. (vault'[b][s] # 0 => origin'[vault'[b][s]] >= config.sites[s].login)
        BY <2>5, <4>1, Numbers DEF Newer
      <4> QED BY <3>1, <4>2 DEF Newer
    <3>2. CASE config'.sites[s] = Auth!NoProfile
      BY <2>6, <3>2 DEF Auth!NoProfile, Auth!Backend
    <3>3. CASE /\ Auth!WriteConfig(p) /\ s = job[p].arg /\ job[p].kind \in {"token", "env"}
               /\ config'.sites[s] = [ref |-> ref[p], login |-> job[p].login]
      <4>1. pc[p] = "write" /\ vault' = vault /\ ref[p] = b /\ config'.sites[s].login = job[p].login
        BY <2>6, <3>3 DEF Auth!WriteConfig
      <4>2. job[p].kind = "token"
        BY <2>1, <3>3, <4>1 DEF JobOf, Auth!Backend
      <4>3. vault[b][s] = job[p].login /\ origin[job[p].login] = job[p].login
        BY <2>1, <3>3, <4>1, <4>2 DEF SecretOf, JobOf, Auth!Unrecorded
      <4> QED BY <1>2, <4>1, <4>3, Numbers DEF Newer
    <3> QED BY <2>2, <3>1, <3>2, <3>3
  <2>7. ASSUME NEW r \in Reader, rpc[r] # "idle", rsite[r] \notin crossed
        PROVE  Newer(rsite[r], prof[r].ref, prof[r].login)'
    <3>1. /\ rsite[r] \in Site \ crossed /\ prof[r].ref \in Auth!Backend /\ prof[r].login <= job[p].login
          /\ Newer(rsite[r], prof[r].ref, prof[r].login) /\ prof[r].login \in Nat
      BY <2>1, <2>7, RunKnows, Numbers DEF AgeInv, LoginInv, RunOf
    <3> QED BY <1>2, <2>5, <3>1 DEF Newer
  <2>8. AgeInv'
    BY <1>2, <2>6, <2>7 DEF AgeInv, Has
  <2> QED BY <2>4, <2>8
<1>4. ASSUME NEW j \in Auth!Jobs, Auth!Start(p, j) PROVE LoginInv' /\ AgeInv'
  <2>1. /\ \A q \in Proc \ {p} : pc'[q] = "idle"
        /\ job'[p].login = runs + 1 /\ runs' = runs + 1 /\ UNCHANGED <<config, vault>>
    <3>1. \A q \in Proc : pc[q] = "idle"
      BY <1>4, CredentialsAssumption DEF Auth!Start
    <3> QED BY <1>4, <3>1 DEF Auth!Start, Auth!Goto, Auth!disk, Inv, TypeOK, Auth!TypeOK
  <2>2. LoginInv'
    BY <1>2, <2>1, Numbers DEF LoginInv
  <2>3. AgeInv'
    BY <1>2, <2>1 DEF AgeInv, Newer, Has
  <2> QED BY <2>2, <2>3
<1> QED BY <1>1, <1>3, <1>4

\* A run stores nothing but its refreshed pair, where the old one was.
LEMMA RunStores ==
  ASSUME Inv, NEW r \in Reader, RunStep(r)
  PROVE  \A s \in Site \ crossed, b \in Auth!Backend :
           \/ vault'[b][s] = vault[b][s]
           \/ /\ s = rsite[r] /\ b = prof[r].ref /\ vault'[b][s] = token[r]
              /\ vault[b][s] # 0 /\ token[r] # 0 /\ origin[token[r]] = origin[vault[b][s]]
              /\ origin' = origin
<1>1. /\ Auth!TypeOK /\ rsite[r] \in Site /\ RunOf(r) /\ RefreshOf(r)
      /\ rdoc[r] \in [Site -> Auth!Secret]
      /\ \A c \in Site \ crossed : rpc[r] = "write" => rdoc[r][c] = vault["file"][c]
  BY RunKnows DEF Inv, TypeOK, DocInv
<1>2. CASE SaveKeyring(r)
  <2>1. /\ rpc[r] = "save" /\ prof[r].ref = "keyring" /\ origin' = origin
        /\ vault' = [vault EXCEPT !["keyring"][rsite[r]] = token[r]]
    BY <1>2 DEF SaveKeyring, Home, service
  <2>2. token[r] # 0 /\ (rsite[r] \notin crossed => Entry(r) # 0 /\ origin[token[r]] = origin[Entry(r)])
    BY <1>1, <2>1 DEF RunOf, RefreshOf, Has, Refreshing
  <2> QED BY <1>1, <2>1, <2>2 DEF Auth!TypeOK, Auth!Backend, Entry
<1>3. CASE WriteFile(r)
  <2>1. /\ rpc[r] = "write" /\ origin' = origin
        /\ vault' = [vault EXCEPT !["file"] = [rdoc[r] EXCEPT ![rsite[r]] = token[r]]]
    BY <1>3 DEF WriteFile, service
  <2>2. /\ token[r] # 0 /\ prof[r].ref = "file"
        /\ rsite[r] \notin crossed => Entry(r) # 0 /\ origin[token[r]] = origin[Entry(r)]
    BY <1>1, <2>1 DEF RunOf, RefreshOf, Has, Refreshing
  <2> QED BY <1>1, <2>1, <2>2 DEF Auth!TypeOK, Auth!Backend, Entry
<1>4. CASE \/ \E s \in Site : StartRun(r, s)
           \/ Missing(r) \/ Get(r) \/ Acquire(r) \/ Bypass(r) \/ Reread(r) \/ Refreshed(r)
           \/ RefreshLost(r) \/ Rejected(r) \/ LoadFile(r) \/ UseAgain(r) \/ End(r) \/ RunStops(r)
  BY <1>4 DEF StartRun, Missing, Get, Acquire, Bypass, Reread, Refreshed, RefreshLost, Rejected,
     LoadFile, UseAgain, End, RunStops
<1> QED BY <1>2, <1>3, <1>4 DEF RunStep

\* Only the token endpoint gives a new number an origin, that of the pair it replaces.
LEMMA RunNumbers ==
  ASSUME Inv, NEW r \in Reader, RunStep(r)
  PROVE  /\ runs' \in Nat /\ runs <= runs'
         /\ \A n \in Number : n <= runs => origin'[n] = origin[n]
         /\ origin' = origin \/ Refreshed(r) \/ RefreshLost(r)
<1>1. TypeOK /\ runs \in Nat
  BY Numbers DEF Inv
<1>2. CASE Refreshed(r) \/ RefreshLost(r)
  <2>1. runs' = runs + 1 /\ origin' = [origin EXCEPT ![runs + 1] = origin[token[r]]]
    BY <1>2 DEF Refreshed, RefreshLost, Rotate
  <2>2. \A n \in Number : n <= runs => n # runs + 1
    BY <1>1, CredentialsAssumption DEF Number
  <2> QED BY <1>1, <1>2, <2>1, <2>2 DEF TypeOK
<1>3. CASE \/ \E s \in Site : StartRun(r, s)
           \/ Missing(r) \/ Get(r) \/ Acquire(r) \/ Bypass(r) \/ Reread(r) \/ SaveKeyring(r)
           \/ WriteFile(r) \/ Rejected(r) \/ LoadFile(r) \/ UseAgain(r) \/ End(r) \/ RunStops(r)
  BY <1>1, <1>3 DEF StartRun, Missing, Get, Acquire, Bypass, Reread, SaveKeyring, WriteFile,
     Rejected, LoadFile, UseAgain, End, RunStops, service
<1> QED BY <1>2, <1>3 DEF RunStep

\* What a run has in hand after a step: its profile and token are as before, or it has
\* just read one, or the token is the successor of the one it had, or it has ended.
LEMMA RunReads ==
  ASSUME Inv, NEW r \in Reader, RunStep(r)
  PROVE  \/ /\ rpc[r] = "idle" /\ rpc'[r] = "get" /\ rsite'[r] \in Site
            /\ prof'[r] = config.sites[rsite'[r]] /\ prof'[r].ref \in Auth!Backend
         \/ rpc'[r] = "idle" /\ prof'[r].login = 0
         \/ /\ rpc[r] # "idle" /\ rsite'[r] = rsite[r] /\ prof'[r] = prof[r]
            /\ \/ ~Has(r)'
               \/ Has(r) /\ token'[r] = token[r]
               \/ token'[r] = Entry(r) /\ Entry(r) # 0 /\ vault' = vault
               \/ Has(r) /\ token'[r] = runs + 1 /\ origin'[runs + 1] = origin[token[r]]
<1>1. TypeOK /\ runs \in Nat /\ MaxRuns \in Nat /\ rsite[r] \in Site
  BY RunKnows, Numbers DEF Inv
<1>2. CASE \E s \in Site : StartRun(r, s)
  BY <1>1, <1>2 DEF StartRun, Goto, TypeOK
<1>3. CASE End(r) \/ RunStops(r) \/ RefreshLost(r)
  BY <1>1, <1>3 DEF End, RunStops, RefreshLost, Exit, Goto, TypeOK, Auth!NoProfile
<1>4. CASE Missing(r) \/ Rejected(r) \/ UseAgain(r)
  BY <1>1, <1>4 DEF Missing, Rejected, UseAgain, Goto, TypeOK, Has, Refreshing
<1>5. CASE Get(r) \/ Reread(r)
  BY <1>1, <1>5 DEF Get, Reread, UnderLock, TypeOK
<1>6. CASE Acquire(r) \/ Bypass(r) \/ SaveKeyring(r) \/ LoadFile(r) \/ WriteFile(r)
  BY <1>6 DEF Acquire, Bypass, SaveKeyring, LoadFile, WriteFile, Has, Refreshing
<1>7. CASE Refreshed(r)
  <2>1. /\ rpc[r] = "sent" /\ token' = [token EXCEPT ![r] = runs + 1] /\ runs + 1 \in Number
        /\ origin' = [origin EXCEPT ![runs + 1] = origin[token[r]]]
    BY <1>1, <1>7 DEF Refreshed, Rotate, Number
  <2> QED BY <1>1, <1>7, <2>1 DEF Refreshed, TypeOK, Has, Refreshing
<1> QED BY <1>2, <1>3, <1>4, <1>5, <1>6, <1>7 DEF RunStep

\* A run keeps both.
LEMMA RunAges ==
  ASSUME Inv, LoginInv, AgeInv, NEW r \in Reader, RunStep(r), Observe
  PROVE  LoginInv' /\ AgeInv'
<1>1. /\ UNCHANGED <<config, pc, job>> /\ OthersStay(r) /\ crossed \subseteq crossed'
      /\ runs' \in Nat /\ runs <= runs'
      /\ \A n \in Number : n <= runs => origin'[n] = origin[n]
  BY RunFrame, RunNumbers DEF stores, Observe
<1>2. LoginInv'
  <2>1. \A q \in Reader : \/ prof'[q].login = prof[q].login
                         \/ prof'[q].login = 0
                         \/ \E s \in Site : prof'[q] = config.sites[s]
    BY <1>1, RunReads DEF OthersStay
  <2>2. \A q \in Reader : /\ prof'[q].login <= runs'
                         /\ \A p \in Proc : pc[p] # "idle" => prof'[q].login <= job[p].login
    BY <1>1, <2>1, Numbers DEF LoginInv
  <2>3. \A s \in Site : config.sites[s].login <= runs'
    BY <1>1, Numbers DEF LoginInv
  <2> QED BY <1>1, <2>2, <2>3 DEF LoginInv
\* What is stored keeps its origin, or gives way to its successor.
<1>3. ASSUME NEW s \in Site \ crossed, NEW b \in Auth!Backend, NEW n \in Nat, Newer(s, b, n)
      PROVE  Newer(s, b, n)'
  <2>1. CASE vault'[b][s] = vault[b][s]
    BY <1>1, <1>3, <2>1, Numbers DEF Newer
  <2>2. CASE vault'[b][s] # vault[b][s]
    BY <1>1, <1>3, <2>2, RunStores, Numbers DEF Newer
  <2> QED BY <2>1, <2>2
<1>4. ASSUME NEW s \in Site \ crossed', NEW b \in Auth!Backend, config.sites[s].ref = b
      PROVE  Newer(s, b, config.sites[s].login)'
  <2>1. Newer(s, b, config.sites[s].login) /\ config.sites[s].login \in Nat /\ s \in Site \ crossed
    BY <1>1, <1>4, Numbers DEF AgeInv
  <2>2. \A n \in Nat : Newer(s, b, n) => (vault'[b][s] # 0 => origin'[vault'[b][s]] >= n)
    BY <1>3, <2>1 DEF Newer
  <2> QED BY <1>1, <2>1, <2>2 DEF Newer
<1>5. ASSUME NEW q \in Reader, q # r, rpc'[q] # "idle", rsite'[q] \notin crossed'
      PROVE  /\ Newer(rsite[q], prof[q].ref, prof[q].login)'
             /\ Has(q)' => origin'[token'[q]] >= prof'[q].login
  <2>1. /\ rpc'[q] = rpc[q] /\ rsite'[q] = rsite[q] /\ prof'[q] = prof[q] /\ token'[q] = token[q]
        /\ rsite[q] \in Site \ crossed /\ RunOf(q)
    BY <1>1, <1>5, RunKnows DEF OthersStay
  <2>2. /\ Newer(rsite[q], prof[q].ref, prof[q].login) /\ prof[q].ref \in Auth!Backend
        /\ prof[q].login \in Nat /\ (Has(q) => origin[token[q]] >= prof[q].login /\ token[q] # 0)
    BY <1>5, <2>1, Numbers DEF AgeInv, RunOf
  <2>3. vault'[prof[q].ref][rsite[q]] # 0 => origin'[vault'[prof[q].ref][rsite[q]]] >= prof[q].login
    BY <1>3, <2>1, <2>2 DEF Newer
  <2>4. Has(q) => origin'[token[q]] = origin[token[q]]
    BY <1>1, <2>2, Numbers
  <2> QED BY <2>1, <2>2, <2>3, <2>4 DEF Newer, Has
<1>6. ASSUME rpc'[r] # "idle", rsite'[r] \notin crossed'
      PROVE  /\ Newer(rsite[r], prof[r].ref, prof[r].login)'
             /\ Has(r)' => origin'[token'[r]] >= prof'[r].login
  <2>1. CASE rpc[r] = "idle"
    <3>1. /\ rpc'[r] = "get" /\ rsite'[r] \in Site /\ prof'[r] = config.sites[rsite'[r]]
          /\ prof'[r].ref \in Auth!Backend
      BY <1>6, <2>1, RunReads
    <3>2. Newer(rsite[r], prof[r].ref, prof[r].login)'
      <4>1. \A s \in Site, b \in Auth!Backend : s \notin crossed' /\ config.sites[s].ref = b =>
              (vault'[b][s] # 0 => origin'[vault'[b][s]] >= config.sites[s].login)
        BY <1>1, <1>4 DEF Newer
      <4> QED BY <1>6, <3>1, <4>1 DEF Newer
    <3> QED BY <3>1, <3>2 DEF Has, Refreshing
  <2>2. CASE rpc[r] # "idle"
    <3>1. /\ rsite'[r] = rsite[r] /\ prof'[r] = prof[r]
          /\ \/ ~Has(r)'
             \/ Has(r) /\ token'[r] = token[r]
             \/ token'[r] = Entry(r) /\ Entry(r) # 0 /\ vault' = vault
             \/ Has(r) /\ token'[r] = runs + 1 /\ origin'[runs + 1] = origin[token[r]]
      BY <1>6, <2>2, RunReads
    <3>2. /\ rsite[r] \in Site \ crossed /\ RunOf(r)
      BY <1>1, <1>6, <3>1, RunKnows
    <3>3. /\ Newer(rsite[r], prof[r].ref, prof[r].login) /\ prof[r].ref \in Auth!Backend
          /\ prof[r].login \in Nat /\ (Has(r) => origin[token[r]] >= prof[r].login /\ token[r] # 0)
      BY <2>2, <3>2, Numbers DEF AgeInv, RunOf
    <3>4. vault'[prof[r].ref][rsite[r]] # 0 => origin'[vault'[prof[r].ref][rsite[r]]] >= prof[r].login
      BY <1>3, <3>2, <3>3 DEF Newer
    <3>5. Has(r) => origin'[token[r]] = origin[token[r]]
      BY <1>1, <3>3, Numbers
    <3> QED BY <3>1, <3>3, <3>4, <3>5 DEF Newer, Entry
  <2> QED BY <2>1, <2>2
<1>7. AgeInv'
  BY <1>1, <1>4, <1>5, <1>6 DEF AgeInv
<1> QED BY <1>2, <1>7

\* Nothing is older than login 1 to begin with.
LEMMA InitAges == Init => LoginInv /\ AgeInv
<1> SUFFICES ASSUME Init PROVE LoginInv /\ AgeInv
  OBVIOUS
<1>1. PICK sites \in [Site -> {Auth!NoProfile} \cup [ref: Auth!Backend, login: {1}]] :
        /\ config = [sites |-> sites, default |-> None, aliases |-> {}]
        /\ vault = [b \in Auth!Backend |-> [s \in Site |->
                      IF sites[s].ref = b THEN sites[s].login ELSE 0]]
  BY DEF Init
<1>2. /\ runs = 1 /\ origin = [n \in Number |-> n] /\ 1 \in Number
      /\ \A p \in Proc : pc[p] = "idle"
      /\ \A r \in Reader : rpc[r] = "idle" /\ prof[r].login = 0
  BY CredentialsAssumption DEF Init, Number, Auth!NoProfile
<1>3. \A s \in Site : config.sites[s].login \in {0, 1} /\ config.sites[s] = sites[s]
  BY <1>1 DEF Auth!NoProfile
<1>4. LoginInv
  BY <1>2, <1>3 DEF LoginInv
<1>5. \A s \in Site, b \in Auth!Backend : config.sites[s].ref = b => Newer(s, b, config.sites[s].login)
  BY <1>1, <1>2, <1>3 DEF Newer
<1> QED BY <1>2, <1>4, <1>5 DEF AgeInv

-----------------------------------------------------------------------------
(* The theorems. *)

\* Nothing has happened: every profile that refers to a stored secret has its own.
LEMMA InitInv == Init => Inv
<1> SUFFICES ASSUME Init PROVE Inv
  OBVIOUS
<1>1. TypeOK
  BY InitType
<1>2. PICK sites \in [Site -> {Auth!NoProfile} \cup [ref: Auth!Backend, login: {1}]] :
        /\ config = [sites |-> sites, default |-> None, aliases |-> {}]
        /\ vault = [b \in Auth!Backend |-> [s \in Site |->
                      IF sites[s].ref = b THEN sites[s].login ELSE 0]]
  BY DEF Init
<1>3. /\ runs = 1 /\ spent = {} /\ crossed = {} /\ origin = [n \in Number |-> n]
      /\ \A p \in Proc : pc[p] = "idle" /\ job[p].login = 0 /\ \A s \in Site : doc[p][s] = 0
      /\ \A r \in Reader : rpc[r] = "idle" /\ token[r] = 0 /\ \A s \in Site : rdoc[r][s] = 0
      /\ 1 \in Number
  BY CredentialsAssumption DEF Init, Auth!NoJob, Number
<1>4. \A s \in Site : \/ sites[s].ref = "none" /\ sites[s].login = 0
                      \/ sites[s].ref \in Auth!Backend /\ sites[s].login = 1
  BY DEF Auth!NoProfile
<1>5. \A s \in Site, b \in Auth!Backend :
        /\ vault[b][s] = (IF sites[s].ref = b THEN 1 ELSE 0)
        /\ config.sites[s] = sites[s]
  <2>1. \A b \in Auth!Backend : b # "none"
    BY DEF Auth!Backend
  <2> QED BY <1>2, <1>4, <2>1
<1>6. NumberInv
  BY <1>3, <1>5 DEF NumberInv, Number
<1>7. JobInv /\ SoloInv /\ CopyInv /\ LockInv /\ DocInv /\ SecretInv
  BY <1>3 DEF JobInv, JobOf, SoloInv, CopyInv, CopyOf, LockInv, Refreshing, DocInv,
     SecretInv, SecretOf,
     Auth!Unrecorded, Auth!Emptied
<1>8. CrossInv
  BY <1>3 DEF CrossInv, Crossing, AuthOn, AuthEditing, Together
<1>9. ApartInv /\ OwnedInv
  BY <1>3, <1>5 DEF ApartInv, OwnedInv, Auth!Backend
<1>10. FoundInv
  <2>1. ASSUME NEW s \in Site, config.sites[s].ref \in Auth!Backend PROVE Found(s)
    <3>1. Stored(s) = 1 /\ config.sites[s].login = 1
      BY <1>4, <1>5, <2>1 DEF Stored, Auth!Backend
    <3> QED BY <1>3, <3>1 DEF Found
  <2> QED BY <2>1 DEF FoundInv
<1>11. RunInv /\ MetInv
  BY <1>3 DEF RunInv, RunOf, RefreshOf, MetInv, MetOf, Has, Refreshing
<1> QED BY <1>1, <1>6, <1>7, <1>8, <1>9, <1>10, <1>11 DEF Inv

\* So does a step that changes nothing.
LEMMA Idles == Inv /\ UNCHANGED vars => Inv'
<1> SUFFICES ASSUME Inv, UNCHANGED vars PROVE Inv'
  OBVIOUS
<1>1. /\ UNCHANGED <<config, pc, job, cfg, doc, ref, overlapped, torn, residue>>
      /\ UNCHANGED <<vault, runs, stops, rpc, rsite, prof, token, rdoc, unlocked, spent, origin, dropped, met, crossed>>
  BY DEF vars, stores, run, service, observed
<1>2. TypeOK' /\ NumberInv'
  BY <1>1 DEF Inv, TypeOK, Auth!TypeOK, Auth!Former, NumberInv
<1>3. JobInv' /\ SoloInv' /\ CopyInv' /\ LockInv' /\ DocInv'
  BY <1>1 DEF Inv, JobInv, JobOf, SoloInv, CopyInv, CopyOf, LockInv, DocInv, Auth!Former
<1>4. CrossInv'
  BY <1>1 DEF Inv, CrossInv, Crossing, AuthOn, RefreshOn, AuthEditing, RunEditing, Together
<1>5. SecretInv' /\ ApartInv'
  BY <1>1 DEF Inv, SecretInv, SecretOf, ApartInv, Auth!Unrecorded, Auth!Emptied, Auth!Former
<1>6. FoundInv'
  <2>1. \A s \in Site : Found(s)' <=> Found(s)
    BY <1>1 DEF Found, Stored, Pending
  <2>2. \A p \in Proc, s \in Site : Loses(p, s)' <=> Loses(p, s)
    BY <1>1 DEF Loses, Auth!Replaced, Auth!Unrecorded, Auth!Emptied, Auth!Former
  <2> QED BY <1>1, <2>1, <2>2 DEF Inv, FoundInv
<1>7. OwnedInv'
  <2>1. \A p \in Proc, s \in Site, b \in Auth!Backend : Leaves(p, s, b)' <=> Leaves(p, s, b)
    BY <1>1 DEF Leaves, Auth!Unrecorded, Auth!Kept, Auth!Former
  <2> QED BY <1>1, <2>1 DEF Inv, OwnedInv
<1>8. RunInv'
  BY <1>1 DEF Inv, RunInv, RunOf, RefreshOf, Has, Entry
<1>9. MetInv'
  BY <1>1 DEF Inv, MetInv, MetOf, Has, AuthOn
<1> QED BY <1>2, <1>3, <1>4, <1>5, <1>6, <1>7, <1>8, <1>9 DEF Inv

\* Auth commands and runs together keep the invariant.
LEMMA StepInv == Inv /\ [Next]_vars => Inv'
<1> SUFFICES ASSUME Inv, [Next]_vars PROVE Inv'
  OBVIOUS
<1>1. CASE Next
  BY <1>1, AuthStepKeeps, QuietRunSteps, RotateSteps, SaveSteps DEF Next, RunStep
<1>2. CASE UNCHANGED vars
  BY <1>2, Idles
<1> QED BY <1>1, <1>2

\* The invariant holds in every reachable state.
LEMMA Always == Spec => []Inv
BY InitInv, StepInv, PTL DEF Spec

\* And secrets only get newer.
LEMMA AlwaysNewer == Spec => [](Inv /\ LoginInv /\ AgeInv)
<1>1. ASSUME Inv, LoginInv, AgeInv, [Next]_vars PROVE Inv' /\ LoginInv' /\ AgeInv'
  <2>1. CASE Next
    BY <1>1, <2>1, AuthAges, RunAges, StepInv DEF Next
  <2>2. CASE UNCHANGED vars
    <3>1. /\ UNCHANGED <<config, vault, pc, job, runs, rpc, rsite, prof, token, origin, crossed>>
      BY <2>2 DEF vars, stores, run, service, observed
    <3>2. LoginInv' /\ AgeInv'
      BY <1>1, <3>1 DEF LoginInv, AgeInv, Newer, Has
    <3> QED BY <1>1, <3>2, StepInv
  <2> QED BY <1>1, <2>1, <2>2
<1> QED BY <1>1, InitInv, InitAges, PTL DEF Spec

\* Every variable of the commands, the runs, the documents and the service has its type,
\* whatever the number of sites, runs, failures and refreshes.
THEOREM TypeCorrect == Spec => []TypeOK
BY Always, PTL DEF Inv

\* However logins, logouts and refreshes of any sites interleave, and whether the lock
\* holds or not, a profile keeps finding the live secret of its own login. Excepted are
\* sites in torn (a login or logout got half-way) and in crossed (two writers of their
\* secret met, be it two refreshes one of which went without the lock), and grants in
\* dropped (secrets.go 192-266, oauth_provider.go 82-171).
THEOREM GrantsStay == Spec => []GrantStays
<1>1. ASSUME Inv, NEW s \in Site, s \notin torn, s \notin crossed, config.sites[s].ref \in Auth!Backend,
             ~AuthOn(s), ~RefreshOn(s)
      PROVE  /\ Stored(s) # 0 /\ origin[Stored(s)] = config.sites[s].login
             /\ <<s, Stored(s)>> \in spent => <<s, config.sites[s].login>> \in dropped
  <2>1. \A p \in Proc : ~Loses(p, s)
    BY <1>1 DEF Loses, AuthOn, Auth!Replaced, Auth!Unrecorded, Auth!Emptied
  <2>2. Found(s)
    BY <1>1, <2>1 DEF Inv, FoundInv
  <2>3. ~Pending(s)
    BY <1>1 DEF Pending, RefreshOn
  <2> QED BY <2>2, <2>3 DEF Found
<1>2. Inv => GrantStays
  BY <1>1 DEF GrantStays
<1> QED BY <1>2, Always, PTL

\* A request never carries a token older than the login its address is of, and a newer
\* one only in a run that met a login or logout of its site, or if one had got half-way
\* (torn). Excepted are sites in crossed (client.go 103, oauth_provider.go 72).
THEOREM UsesMatch == Spec => []UseMatches
<1>1. ASSUME Inv, AgeInv, NEW r \in Reader, rpc[r] = "use", rsite[r] \notin crossed
      PROVE  \/ origin[token[r]] = prof[r].login
             \/ origin[token[r]] > prof[r].login /\ (met[r] \/ rsite[r] \in torn)
  <2>1. Has(r) /\ rpc[r] # "idle"
    BY <1>1 DEF Has
  <2>2. origin[token[r]] >= prof[r].login
    BY <1>1, <2>1 DEF AgeInv
  <2>3. origin[token[r]] \in Nat /\ prof[r].login \in Nat
    BY <1>1, <2>1, RunKnows, Numbers DEF RunOf
  <2>4. ~met[r] /\ rsite[r] \notin torn => origin[token[r]] = prof[r].login
    BY <1>1, <2>1, RunKnows DEF MetOf
  <2> QED BY <2>2, <2>3, <2>4
<1>2. Inv /\ AgeInv => UseMatches
  BY <1>1 DEF UseMatches
<1> QED BY <1>2, AlwaysNewer, PTL

\* A run that met no login or logout of its site is refused only if the grant's rotated
\* pair was lost before it. Excepted are sites in torn and in crossed, as above
\* (oauth_provider.go 72-103, 131-171).
THEOREM RefusalsAreHonest == Spec => []HonestRefusal
<1>1. Inv => HonestRefusal
  BY DEF Inv, MetInv, MetOf, HonestRefusal
<1> QED BY <1>1, Always, PTL

\* No refresh, login or logout brings back a removed secret, or leaves one behind. Excepted
\* are sites in crossed, as above, and what a login or logout that got half-way, or its
\* failed clean-up, left (residue) (secrets.go 192-266, auth.go 466-475).
THEOREM NothingComesBack == Spec => []NothingReturns
<1>1. ASSUME Inv, NEW s \in Site, s \notin crossed, NEW b \in Auth!Backend, ~AuthOn(s), vault[b][s] # 0,
             <<s, b>> \notin residue
      PROVE  config.sites[s].ref = b
  <2>1. \A p \in Proc : ~Leaves(p, s, b)
    BY <1>1 DEF Leaves, AuthOn, Auth!Unrecorded, Auth!Kept
  <2> QED BY <1>1, <2>1 DEF Inv, OwnedInv
<1>2. Inv => NothingReturns
  BY <1>1 DEF NothingReturns
<1> QED BY <1>2, Always, PTL
=============================================================================
