-------------------------- MODULE AuthStoreProofs --------------------------
(***************************************************************************)
(* Proofs about AuthStore for any sites, aliases and number of commands,   *)
(* failures and crashes.                                                   *)
(***************************************************************************)
EXTENDS AuthStore, TLAPS

\* Which command can be where, and what it knows there.
JobOf(p) ==
  /\ pc[p] \in {"secret", "saveLoad", "saveWrite"} => job[p].kind = "token"
  /\ pc[p] \in {"clear", "clearWrite"} => job[p].kind \in Logins \cup {"logout"}
  /\ pc[p] # "idle" /\ job[p].kind = "env" => ref[p] = "env"
  /\ pc[p] \in {"load", "write", "clear", "clearWrite"} /\ job[p].kind = "token"
       => ref[p] \in Backend
  /\ pc[p] \in {"clear", "clearWrite"} /\ job[p].kind \in Logins => Former(p) # ref[p]
  /\ pc[p] = "clearWrite" => Former(p) = "file"
  /\ pc[p] = "write" => Applicable(job[p], cfg[p])
  /\ pc[p] # "idle" => job[p].login > 0

JobInv == \A p \in Proc : JobOf(p)

\* A default site, where there is one, is configured.
Sound(c) == c.default # None => c.sites[c.default] # NoProfile

\* Every copy of config.json is sound.
SoundInv == Sound(config) /\ \A p \in Proc : Sound(cfg[p])

\* While commands have not overlapped, at most one is under way ...
SoloInv == \A p, q \in Proc : pc[p] # "idle" /\ pc[q] # "idle" => p = q

\* ... its copies are those on disk ...
CopyOf(p) ==
  /\ pc[p] = "write" => cfg[p] = config
  /\ pc[p] \in {"clear", "clearWrite"} =>
       config = IF job[p].kind = "logout" THEN cfg[p]
                ELSE Edited(job[p], cfg[p], ref[p])
  /\ pc[p] \in {"saveWrite", "clearWrite"} => doc[p] = vault["file"]

\* ... and it knows the secret it has stored or deleted.
SecretOf(p) ==
  /\ Unrecorded(p) => vault[ref[p]][job[p].arg] = job[p].login
  /\ Emptied(p) => vault[Former(p)][job[p].arg] = 0

\* The profile of s finds its secret.
Found(s) ==
  config.sites[s].ref \in Backend => vault[config.sites[s].ref][s] = config.sites[s].login

\* What backend b stores for s has its profile.
Owned(s, b) ==
  vault[b][s] # 0 => config.sites[s].ref = b \/ <<s, b>> \in residue

\* The exceptions are the work of the command under way.
LosesOf(p, s) == job[p].arg = s /\ (Replaced(p) \/ Emptied(p))
LeavesOf(p, s, b) ==
  /\ job[p].arg = s
  /\ \/ Unrecorded(p) /\ ref[p] = b
     \/ Kept(p) /\ Former(p) = b

FoundInv == \A s \in Site \ torn : Found(s) \/ \E p \in Proc : LosesOf(p, s)
OwnedInv == \A s \in Site, b \in Backend : Owned(s, b) \/ \E p \in Proc : LeavesOf(p, s, b)

SoloStateInv == \A p \in Proc : CopyOf(p) /\ SecretOf(p)

SerialInv == SoloInv /\ SoloStateInv /\ FoundInv /\ OwnedInv

IInv ==
  TypeOK /\ JobInv /\ SoundInv /\ (~overlapped => SerialInv) /\ (~Overlap => ~overlapped)

-----------------------------------------------------------------------------
(* What the edits of config.json produce. *)

\* The blank values are of their types; an empty profile is no profile.
LEMMA BlankTypes ==
  /\ NoProfile \in Profile /\ NoConfig \in Config /\ NoJob \in Jobs
  /\ \A x \in Profile : x.ref = "none" <=> x = NoProfile
<1>1. NoProfile \in Profile /\ \A x \in Profile : x.ref = "none" <=> x = NoProfile
  BY DEF NoProfile, Profile, Ref, Backend
<1>2. NoConfig \in Config
  BY <1>1 DEF NoConfig, Config
<1>3. NoJob \in Jobs
  BY AuthAssumption DEF NoJob, Jobs
<1>4. QED
  BY <1>1, <1>2, <1>3

\* The edited document is a document.
LEMMA EditedType ==
  ASSUME NEW j \in Jobs, NEW c \in Config, NEW r \in Ref, j.login > 0
  PROVE  Edited(j, c, r) \in Config
<1>1. [ref |-> r, login |-> j.login] \in Profile
  BY AuthAssumption DEF Profile, Jobs
<1>2. CASE j.kind \in Logins
  BY <1>1, <1>2 DEF Edited, Config, Jobs, Logins
<1>3. CASE j.kind = "logout"
  BY <1>3, BlankTypes DEF Edited, WithoutSite, Config, Jobs, Logins
<1>4. CASE j.kind = "default"
  BY <1>4 DEF Edited, Config, Jobs, Logins
<1>5. CASE j.kind = "clear"
  BY <1>5 DEF Edited, Config, Jobs, Logins
<1>6. CASE j.kind = "alias"
  BY <1>6 DEF Edited, Config, Jobs, Logins
<1>7. CASE j.kind = "unalias"
  BY <1>7 DEF Edited, Config, Jobs, Logins
<1>8. QED
  BY <1>2, <1>3, <1>4, <1>5, <1>6, <1>7 DEF Jobs, Logins

\* An edit that applies to a sound document leaves a sound one.
LEMMA EditedSound ==
  ASSUME NEW j \in Jobs, NEW c \in Config, NEW r \in Ref, j.login > 0,
         Sound(c), Applicable(j, c)
  PROVE  Sound(Edited(j, c, r))
<1>1. [ref |-> r, login |-> j.login] # NoProfile
  BY DEF NoProfile, Ref, Backend
<1>2. CASE j.kind \in Logins
  BY <1>1, <1>2 DEF Edited, Config, Jobs, Logins, Sound
<1>3. CASE j.kind = "logout"
  BY <1>3 DEF Edited, WithoutSite, Config, Jobs, Logins, Sound
<1>4. CASE j.kind = "default"
  BY <1>4 DEF Edited, Config, Jobs, Logins, Sound, Applicable
<1>5. CASE j.kind = "clear"
  BY <1>5 DEF Edited, Config, Jobs, Logins, Sound
<1>6. CASE j.kind = "alias"
  BY <1>6 DEF Edited, Config, Jobs, Logins, Sound
<1>7. CASE j.kind = "unalias"
  BY <1>7 DEF Edited, Config, Jobs, Logins, Sound
<1>8. QED
  BY <1>2, <1>3, <1>4, <1>5, <1>6, <1>7 DEF Jobs, Logins

-----------------------------------------------------------------------------
(* Types. *)

\* Every variable has its type initially.
LEMMA TypeInit == Init => TypeOK
<1> SUFFICES ASSUME Init PROVE TypeOK
  OBVIOUS
<1> USE AuthAssumption DEF Init
<1>1. config \in Config /\ cfg \in [Proc -> Config] /\ job \in [Proc -> Jobs]
  BY BlankTypes
<1>2. vault \in [Backend -> [Site -> Secret]] /\ doc \in [Proc -> [Site -> Secret]]
  BY DEF Secret
<1>3. ref \in [Proc -> Ref] /\ pc \in [Proc -> PC]
  BY DEF Ref, PC
<1>4. \A p \in Proc : pc[p] \notin {"clear", "clearWrite"}
  OBVIOUS
<1>5. runs \in 0..MaxRuns /\ stops \in 0..MaxStops
  OBVIOUS
<1>6. overlapped \in BOOLEAN /\ torn \in SUBSET Site
      /\ residue \in SUBSET (Site \X Backend)
  OBVIOUS
<1> HIDE DEF Init
<1>7. QED
  BY <1>1, <1>2, <1>3, <1>4, <1>5, <1>6, Zenon DEF TypeOK

\* A new secret is a secret.
LEMMA SecretTypes ==
  ASSUME TypeOK, NEW p \in Proc
  PROVE  job[p].login \in Secret /\ 0 \in Secret
BY AuthAssumption DEF TypeOK, Jobs, Secret

\* Every step keeps every variable in its type.
LEMMA TypeStep == TypeOK /\ JobInv /\ [Next]_vars => TypeOK'
<1> SUFFICES ASSUME TypeOK, JobInv, [Next]_vars PROVE TypeOK'
  OBVIOUS
<1> USE AuthAssumption
    DEF PC, Goto, Ref, Backend, disk, local, history, Former
<1>1. ASSUME NEW p \in Proc, NEW j \in Jobs, Start(p, j) PROVE TypeOK'
  BY <1>1 DEF Start, TypeOK
<1>2. ASSUME NEW p \in Proc, SetInKeyring(p) PROVE TypeOK'
  <2>1. job[p].arg \in Site
    BY <1>2 DEF SetInKeyring, JobInv, JobOf, TypeOK, Jobs
  <2>2. vault' \in [Backend -> [Site -> Secret]]
    BY <1>2, <2>1, SecretTypes DEF SetInKeyring, Stored, TypeOK
  <2>3. QED
    BY <1>2, <2>2 DEF SetInKeyring, TypeOK
<1>3. ASSUME NEW p \in Proc, KeyringRefuses(p) PROVE TypeOK'
  BY <1>3 DEF KeyringRefuses, TypeOK
<1>4. ASSUME NEW p \in Proc, LoadToSet(p) PROVE TypeOK'
  BY <1>4 DEF LoadToSet, TypeOK
<1>5. ASSUME NEW p \in Proc, SetInFile(p) PROVE TypeOK'
  <2>1. vault' \in [Backend -> [Site -> Secret]]
    BY <1>5, SecretTypes DEF SetInFile, TypeOK
  <2>2. QED
    BY <1>5, <2>1 DEF SetInFile, TypeOK
<1>6. ASSUME NEW p \in Proc, LoadConfig(p) PROVE TypeOK'
  <2>1. job[p].kind = "logout" => config.sites[job[p].arg].ref # "none"
    BY <1>6, BlankTypes DEF LoadConfig, Applicable, TypeOK, Config, Jobs
  <2>2. QED
    BY <1>6, <2>1 DEF LoadConfig, TypeOK
<1>7. ASSUME NEW p \in Proc, Refuse(p) PROVE TypeOK'
  BY <1>7 DEF Refuse, TypeOK
<1>8. ASSUME NEW p \in Proc, WriteConfig(p) PROVE TypeOK'
  <2>1. config' \in Config
    BY <1>8, EditedType DEF WriteConfig, TypeOK, JobInv, JobOf
  <2>2. torn' \in SUBSET Site /\ residue' \in SUBSET (Site \X Backend)
    BY <1>8 DEF WriteConfig, TypeOK
  <2>3. Supersedes(p) => Former(p) # "none"
    BY DEF Supersedes
  <2>4. QED
    BY <1>8, <2>1, <2>2, <2>3 DEF WriteConfig, TypeOK
<1>9. ASSUME NEW p \in Proc, ClearNothing(p) PROVE TypeOK'
  BY <1>9 DEF ClearNothing, Cleared, TypeOK
<1>10. ASSUME NEW p \in Proc, DeleteFromKeyring(p) PROVE TypeOK'
  <2>1. vault' \in [Backend -> [Site -> Secret]]
    BY <1>10, SecretTypes DEF DeleteFromKeyring, Stored, TypeOK
  <2>2. QED
    BY <1>10, <2>1 DEF DeleteFromKeyring, Cleared, TypeOK
<1>11. ASSUME NEW p \in Proc, LoadToDelete(p) PROVE TypeOK'
  BY <1>11 DEF LoadToDelete, Cleared, TypeOK
<1>12. ASSUME NEW p \in Proc, DeleteFromFile(p) PROVE TypeOK'
  <2>1. vault' \in [Backend -> [Site -> Secret]]
    BY <1>12, SecretTypes DEF DeleteFromFile, TypeOK
  <2>2. QED
    BY <1>12, <2>1 DEF DeleteFromFile, Cleared, TypeOK
<1>13. ASSUME NEW p \in Proc, Stops(p) PROVE TypeOK'
  <2>1. Replaced(p) \/ Emptied(p) => job[p].arg \in Site
    BY DEF Replaced, Unrecorded, Emptied, TypeOK, Jobs
  <2>2. Unrecorded(p) \/ Kept(p) => job[p].arg \in Site
    BY DEF Unrecorded, Kept, Logins, TypeOK, Jobs
  <2>3. torn' \in SUBSET Site
    BY <1>13, <2>1 DEF Stops, TypeOK
  <2>4. residue' \in SUBSET (Site \X Backend)
    BY <1>13, <2>2 DEF Stops, TypeOK
  <2>5. QED
    BY <1>13, <2>3, <2>4 DEF Stops, TypeOK
<1>14. CASE UNCHANGED vars
  BY <1>14 DEF vars, TypeOK
<1>15. QED
  BY <1>1, <1>2, <1>3, <1>4, <1>5, <1>6, <1>7, <1>8, <1>9, <1>10, <1>11, <1>12,
     <1>13, <1>14 DEF Next, Step

-----------------------------------------------------------------------------
(* Commands one by one. *)

\* A step of one command leaves the others where they are.
LEMMA OthersKeep ==
  ASSUME TypeOK, NEW p \in Proc, NEW q \in Proc, q # p,
         Step(p) \/ \E j \in Jobs : Start(p, j)
  PROVE  /\ pc'[q] = pc[q] /\ job'[q] = job[q] /\ ref'[q] = ref[q]
         /\ cfg'[q] = cfg[q] /\ doc'[q] = doc[q]
BY DEF Step, Start, SetInKeyring, KeyringRefuses, LoadToSet, SetInFile, LoadConfig,
       Refuse, WriteConfig, ClearNothing, DeleteFromKeyring, LoadToDelete,
       DeleteFromFile, Stops, Goto, Cleared, TypeOK, disk, local, history

\* JobInv holds initially.
LEMMA JobInit == Init => JobInv
BY DEF Init, JobInv, JobOf

\* A command that clears a stored secret as a logout has an applicable copy.
LEMMA LogoutApplies ==
  ASSUME TypeOK, NEW p \in Proc, pc[p] \in {"clear", "clearWrite"},
         job[p].kind = "logout"
  PROVE  Applicable(job[p], cfg[p])
<1>1. job[p].arg \in Site
  BY DEF TypeOK, Jobs
<1>2. cfg[p].sites[job[p].arg].ref # "none"
  BY DEF TypeOK, Former
<1>3. QED
  BY <1>1, <1>2 DEF Applicable, NoProfile

\* A command knows what it should after each of its steps.
LEMMA JobStep == TypeOK /\ JobInv /\ [Next]_vars => JobInv'
<1> SUFFICES ASSUME TypeOK, JobInv, [Next]_vars PROVE JobInv'
  OBVIOUS
<1> USE AuthAssumption DEF JobOf, Former, Backend, Logins, Goto
<1>1. ASSUME NEW p \in Proc, Step(p) \/ \E j \in Jobs : Start(p, j), JobOf(p)'
      PROVE  JobInv'
  <2>1. ASSUME NEW q \in Proc, q # p PROVE JobOf(q)'
    BY <1>1, <2>1, OthersKeep DEF JobInv
  <2>2. QED
    BY <1>1, <2>1 DEF JobInv
<1>2. ASSUME NEW p \in Proc, NEW j \in Jobs, Start(p, j) PROVE JobOf(p)'
  BY <1>2 DEF Start, TypeOK, Jobs
<1>3. ASSUME NEW p \in Proc, SetInKeyring(p) PROVE JobOf(p)'
  BY <1>3 DEF SetInKeyring, TypeOK, JobInv
<1>4. ASSUME NEW p \in Proc, KeyringRefuses(p) PROVE JobOf(p)'
  BY <1>4 DEF KeyringRefuses, TypeOK, JobInv, local
<1>5. ASSUME NEW p \in Proc, LoadToSet(p) PROVE JobOf(p)'
  BY <1>5 DEF LoadToSet, TypeOK, JobInv
<1>6. ASSUME NEW p \in Proc, SetInFile(p) PROVE JobOf(p)'
  BY <1>6 DEF SetInFile, TypeOK, JobInv
<1>7. ASSUME NEW p \in Proc, LoadConfig(p) PROVE JobOf(p)'
  BY <1>7 DEF LoadConfig, TypeOK, JobInv, Jobs
<1>8. ASSUME NEW p \in Proc, Refuse(p) PROVE JobOf(p)'
  BY <1>8 DEF Refuse, TypeOK, JobInv, local
<1>9. ASSUME NEW p \in Proc, WriteConfig(p) PROVE JobOf(p)'
  BY <1>9 DEF WriteConfig, Supersedes, TypeOK, JobInv, local
<1>10. ASSUME NEW p \in Proc, ClearNothing(p) PROVE JobOf(p)'
  BY <1>10, LogoutApplies DEF ClearNothing, Cleared, TypeOK, JobInv, local
<1>11. ASSUME NEW p \in Proc, DeleteFromKeyring(p) PROVE JobOf(p)'
  BY <1>11, LogoutApplies DEF DeleteFromKeyring, Cleared, TypeOK, JobInv, local
<1>12. ASSUME NEW p \in Proc, LoadToDelete(p) PROVE JobOf(p)'
  BY <1>12, LogoutApplies DEF LoadToDelete, Cleared, TypeOK, JobInv
<1>13. ASSUME NEW p \in Proc, DeleteFromFile(p) PROVE JobOf(p)'
  BY <1>13, LogoutApplies DEF DeleteFromFile, Cleared, TypeOK, JobInv, local
<1>14. ASSUME NEW p \in Proc, Stops(p) PROVE JobOf(p)'
  BY <1>14 DEF Stops, TypeOK, JobInv, local
<1>15. CASE UNCHANGED vars
  BY <1>15 DEF vars, local, JobInv
<1>16. QED
  BY <1>1, <1>2, <1>3, <1>4, <1>5, <1>6, <1>7, <1>8, <1>9, <1>10, <1>11, <1>12,
     <1>13, <1>14, <1>15 DEF Next, Step

\* No step makes a copy of config.json unsound.
LEMMA SoundStep == TypeOK /\ JobInv /\ SoundInv /\ [Next]_vars => SoundInv'
<1> SUFFICES ASSUME TypeOK, JobInv, SoundInv, [Next]_vars PROVE SoundInv'
  OBVIOUS
<1>1. ASSUME NEW p \in Proc, LoadConfig(p) PROVE SoundInv'
  <2>1. \A q \in Proc : cfg'[q] \in {config, cfg[q]}
    BY <1>1 DEF LoadConfig, TypeOK
  <2>2. QED
    BY <1>1, <2>1 DEF LoadConfig, SoundInv, Sound, disk
<1>2. ASSUME NEW p \in Proc, WriteConfig(p) PROVE SoundInv'
  <2>1. Sound(config')
    BY <1>2, EditedSound DEF WriteConfig, SoundInv, TypeOK, JobInv, JobOf
  <2>2. QED
    BY <1>2, <2>1 DEF WriteConfig, SoundInv, Sound, local
<1>3. CASE UNCHANGED <<config, cfg>>
  BY <1>3 DEF SoundInv, Sound
<1>4. QED
  BY <1>1, <1>2, <1>3
  DEF Next, Step, Start, SetInKeyring, KeyringRefuses, LoadToSet, SetInFile, Refuse,
      ClearNothing, DeleteFromKeyring, LoadToDelete, DeleteFromFile, Stops, vars,
      disk, local

\* TypeOK, JobInv and SoundInv hold in every reachable state.
LEMMA LocalInv == Spec => [](TypeOK /\ JobInv /\ SoundInv)
<1>1. Init => SoundInv
  BY DEF Init, SoundInv, Sound, NoConfig
<1>2. QED
  BY <1>1, TypeInit, JobInit, TypeStep, JobStep, SoundStep, PTL DEF Spec

\* Whatever the sites, commands and failures, every variable of the commands and
\* the files they edit has its type; in particular a command that clears a secret
\* has found a profile (auth.go 470, 816).
THEOREM TypeCorrect == Spec => []TypeOK
BY LocalInv, PTL

\* For any number of overlapping, failing and dying commands, the default site is
\* a configured one (auth.go 216, 824).
THEOREM DefaultIsConfigured == Spec => []DefaultConfigured
<1>1. SoundInv => DefaultConfigured
  BY DEF SoundInv, Sound, DefaultConfigured
<1>2. QED
  BY <1>1, LocalInv, PTL

-----------------------------------------------------------------------------
(* Commands that do not overlap. *)

\* Where p is the one command under way.
Alone(p) == \A q \in Proc \ {p} : pc[q] = "idle"

\* A command at rest makes no exception.
LEMMA IdleIsInnocent ==
  ASSUME NEW p \in Proc, pc[p] = "idle", NEW s \in Site, NEW b \in Backend
  PROVE  ~LosesOf(p, s) /\ ~LeavesOf(p, s, b)
BY DEF LosesOf, LeavesOf, Replaced, Unrecorded, Emptied, Kept

\* A command on its own accounts for every exception.
LEMMA SoloView ==
  ASSUME SerialInv, NEW p \in Proc, Alone(p)
  PROVE  /\ CopyOf(p) /\ SecretOf(p)
         /\ \A s \in Site \ torn : Found(s) \/ LosesOf(p, s)
         /\ \A s \in Site, b \in Backend : Owned(s, b) \/ LeavesOf(p, s, b)
<1>1. \A q \in Proc, s \in Site, b \in Backend :
        (LosesOf(q, s) => q = p) /\ (LeavesOf(q, s, b) => q = p)
  BY IdleIsInnocent DEF Alone
<1>2. "file" \in Backend
  BY DEF Backend
<1>3. QED
  BY <1>1, <1>2 DEF SerialInv, SoloStateInv, FoundInv, OwnedInv

\* Conversely, a state with one command under way is serial when that one's part is.
LEMMA SoloBack ==
  ASSUME NEW p \in Proc, Alone(p)', CopyOf(p)', SecretOf(p)',
         \A s \in Site \ torn' : Found(s)' \/ LosesOf(p, s)',
         \A s \in Site, b \in Backend : Owned(s, b)' \/ LeavesOf(p, s, b)'
  PROVE  SerialInv'
<1>1. SoloInv'
  BY DEF Alone, SoloInv
<1>2. ASSUME NEW q \in Proc PROVE CopyOf(q)' /\ SecretOf(q)'
  BY <1>2 DEF Alone, CopyOf, SecretOf, Unrecorded, Emptied
<1>3. QED
  BY <1>1, <1>2 DEF SerialInv, SoloStateInv, FoundInv, OwnedInv

\* While commands do not overlap, a command that steps is alone and stays so.
LEMMA StepAlone ==
  ASSUME TypeOK, SoloInv, NEW p \in Proc,
         \/ Step(p)
         \/ (\E j \in Jobs : Start(p, j)) /\ ~overlapped'
  PROVE  Alone(p) /\ Alone(p)'
<1>1. CASE \E j \in Jobs : Start(p, j) /\ ~overlapped'
  BY <1>1 DEF Start, Alone, Goto, TypeOK
<1>2. CASE Step(p)
  <2>1. pc[p] # "idle"
    BY <1>2 DEF Step, SetInKeyring, KeyringRefuses, LoadToSet, SetInFile, LoadConfig,
       Refuse, WriteConfig, ClearNothing, DeleteFromKeyring, LoadToDelete,
       DeleteFromFile, Stops
  <2>2. Alone(p)
    BY <2>1 DEF SoloInv, Alone
  <2>3. QED
    BY <1>2, <2>2, OthersKeep DEF Alone
<1>3. QED
  BY <1>1, <1>2

\* A step that changes neither file nor keychain, and gives up no exception
\* without recording it, keeps the invariant.
LEMMA QuietStep ==
  ASSUME SerialInv, NEW p \in Proc, Alone(p), Alone(p)',
         UNCHANGED <<config, vault>>, torn \subseteq torn', residue \subseteq residue',
         CopyOf(p)', SecretOf(p)',
         \A s \in Site : LosesOf(p, s) => LosesOf(p, s)' \/ s \in torn',
         \A s \in Site, b \in Backend : LeavesOf(p, s, b) =>
           LeavesOf(p, s, b)' \/ <<s, b>> \in residue' \/ vault[b][s] = 0
  PROVE  SerialInv'
<1>1. \A s \in Site \ torn' : Found(s)' \/ LosesOf(p, s)'
  BY SoloView DEF Found
<1>2. \A s \in Site, b \in Backend : Owned(s, b)' \/ LeavesOf(p, s, b)'
  BY SoloView DEF Owned
<1>3. QED
  BY <1>1, <1>2, SoloBack

\* Each step of a command that is alone keeps the serial invariant.
LEMMA SerialStep ==
  ASSUME IInv, [Next]_vars, ~overlapped'
  PROVE  SerialInv'
<1> USE AuthAssumption DEF Backend, Logins, Goto, disk, local, history
<1>a. ~overlapped /\ SerialInv /\ SoloInv /\ TypeOK /\ JobInv
  <2>1. ~overlapped
    BY Zenon DEF Next, Step, Start, SetInKeyring, KeyringRefuses, LoadToSet, SetInFile,
       LoadConfig, Refuse, WriteConfig, ClearNothing, DeleteFromKeyring, LoadToDelete,
       DeleteFromFile, Stops, vars
  <2>2. QED
    BY <2>1 DEF IInv, SerialInv
<1>1. ASSUME NEW p \in Proc, NEW j \in Jobs, Start(p, j) PROVE SerialInv'
  <2>1. Alone(p) /\ Alone(p)'
    BY <1>1, <1>a, StepAlone
  <2>2. /\ pc'[p] \in {"secret", "load"} /\ job'[p] = j
        /\ pc'[p] = "load" => j.kind # "token"
        /\ UNCHANGED <<config, vault, torn, residue>>
    BY <1>1, <1>a DEF Start, TypeOK
  <2>3. \A s \in Site, b \in Backend : ~LosesOf(p, s) /\ ~LeavesOf(p, s, b)
    BY <1>1, IdleIsInnocent DEF Start
  <2>4. CopyOf(p)' /\ SecretOf(p)'
    BY <2>2 DEF CopyOf, SecretOf, Unrecorded, Emptied
  <2>5. QED
    BY <1>a, <2>1, <2>2, <2>3, <2>4, QuietStep
<1>2. ASSUME NEW p \in Proc, SetInKeyring(p) PROVE SerialInv'
  <2>1. Alone(p) /\ Alone(p)'
    BY <1>2, <1>a, StepAlone DEF Step
  <2>2. /\ pc[p] = "secret" /\ pc'[p] = "load"
        /\ ref'[p] = "keyring"
        /\ job[p].kind = "token" /\ job[p].arg \in Site
        /\ vault' = [vault EXCEPT !["keyring"][job[p].arg] = job[p].login]
        /\ UNCHANGED <<config, job, torn, residue>>
    BY <1>2, <1>a DEF SetInKeyring, Stored, TypeOK, JobInv, JobOf, Jobs
  <2>3. Unrecorded(p)' /\ Replaced(p)' = (config.sites[job[p].arg].ref = "keyring")
    BY <2>2 DEF Unrecorded, Replaced
  <2>4. CopyOf(p)' /\ SecretOf(p)'
    BY <2>2, <1>a DEF CopyOf, SecretOf, Emptied, TypeOK
  <2>5. \A s \in Site, b \in Backend : ~LosesOf(p, s) /\ ~LeavesOf(p, s, b)
    BY <2>2 DEF LosesOf, LeavesOf, Replaced, Unrecorded, Emptied, Kept
  <2>6. (\A s \in Site \ torn : Found(s)) /\ (\A s \in Site, b \in Backend : Owned(s, b))
    BY <1>a, <2>1, <2>5, SoloView
  <2>7. \A s \in Site \ torn' : Found(s)' \/ LosesOf(p, s)'
    BY <2>2, <2>3, <2>6, <1>a DEF Found, LosesOf, TypeOK
  <2>8. \A s \in Site, b \in Backend : Owned(s, b)' \/ LeavesOf(p, s, b)'
    BY <2>2, <2>3, <2>6, <1>a DEF Owned, LeavesOf, TypeOK
  <2>9. QED
    BY <2>1, <2>4, <2>7, <2>8, SoloBack
<1>3. ASSUME NEW p \in Proc, KeyringRefuses(p) PROVE SerialInv'
  <2>1. Alone(p) /\ Alone(p)'
    BY <1>3, <1>a, StepAlone DEF Step
  <2>2. pc[p] = "secret" /\ pc'[p] = "saveLoad"
        /\ UNCHANGED <<config, vault, job, torn, residue>>
    BY <1>3, <1>a DEF KeyringRefuses, TypeOK
  <2>3. CopyOf(p)' /\ SecretOf(p)'
    BY <2>2 DEF CopyOf, SecretOf, Unrecorded, Emptied
  <2>4. \A s \in Site, b \in Backend : ~LosesOf(p, s) /\ ~LeavesOf(p, s, b)
    BY <2>2 DEF LosesOf, LeavesOf, Replaced, Unrecorded, Emptied, Kept
  <2>5. QED
    BY <1>a, <2>1, <2>2, <2>3, <2>4, QuietStep
<1>4. ASSUME NEW p \in Proc, LoadToSet(p) PROVE SerialInv'
  <2>1. Alone(p) /\ Alone(p)'
    BY <1>4, <1>a, StepAlone DEF Step
  <2>2. /\ pc[p] = "saveLoad" /\ pc'[p] = "saveWrite" /\ doc'[p] = vault["file"]
        /\ UNCHANGED <<config, vault, job, torn, residue>>
    BY <1>4, <1>a DEF LoadToSet, TypeOK
  <2>3. CopyOf(p)' /\ SecretOf(p)'
    BY <2>2 DEF CopyOf, SecretOf, Unrecorded, Emptied
  <2>4. \A s \in Site, b \in Backend : ~LosesOf(p, s) /\ ~LeavesOf(p, s, b)
    BY <2>2 DEF LosesOf, LeavesOf, Replaced, Unrecorded, Emptied, Kept
  <2>5. QED
    BY <1>a, <2>1, <2>2, <2>3, <2>4, QuietStep
<1>5. ASSUME NEW p \in Proc, SetInFile(p) PROVE SerialInv'
  <2>1. Alone(p) /\ Alone(p)'
    BY <1>5, <1>a, StepAlone DEF Step
  <2>2. /\ pc[p] = "saveWrite" /\ pc'[p] = "load"
        /\ ref'[p] = "file"
        /\ job[p].kind = "token" /\ job[p].arg \in Site
        /\ UNCHANGED <<config, job, torn, residue>>
    BY <1>5, <1>a DEF SetInFile, TypeOK, JobInv, JobOf, Jobs
  <2>3. vault' = [vault EXCEPT !["file"][job[p].arg] = job[p].login]
    <3>1. doc[p] = vault["file"]
      BY <1>a, <2>1, <2>2, SoloView DEF CopyOf
    <3>2. QED
      BY <1>5, <3>1 DEF SetInFile
  <2>4. Unrecorded(p)' /\ Replaced(p)' = (config.sites[job[p].arg].ref = "file")
    BY <2>2 DEF Unrecorded, Replaced
  <2>5. CopyOf(p)' /\ SecretOf(p)'
    BY <2>2, <2>3, <1>a DEF CopyOf, SecretOf, Emptied, TypeOK
  <2>6. \A s \in Site, b \in Backend : ~LosesOf(p, s) /\ ~LeavesOf(p, s, b)
    BY <2>2 DEF LosesOf, LeavesOf, Replaced, Unrecorded, Emptied, Kept
  <2>7. (\A s \in Site \ torn : Found(s)) /\ (\A s \in Site, b \in Backend : Owned(s, b))
    BY <1>a, <2>1, <2>6, SoloView
  <2>8. \A s \in Site \ torn' : Found(s)' \/ LosesOf(p, s)'
    BY <2>2, <2>3, <2>4, <2>7, <1>a DEF Found, LosesOf, TypeOK
  <2>9. \A s \in Site, b \in Backend : Owned(s, b)' \/ LeavesOf(p, s, b)'
    BY <2>2, <2>3, <2>4, <2>7, <1>a DEF Owned, LeavesOf, TypeOK
  <2>10. QED
    BY <2>1, <2>5, <2>8, <2>9, SoloBack
<1>6. ASSUME NEW p \in Proc, LoadConfig(p) PROVE SerialInv'
  <2>1. Alone(p) /\ Alone(p)'
    BY <1>6, <1>a, StepAlone DEF Step
  <2>2. /\ pc[p] = "load" /\ pc'[p] = IF job[p].kind = "logout" THEN "clear" ELSE "write"
        /\ cfg'[p] = config
        /\ UNCHANGED <<config, vault, job, ref, torn, residue>>
    BY <1>6, <1>a DEF LoadConfig, TypeOK
  <2>3. CopyOf(p)' /\ SecretOf(p)'
    BY <2>2, <1>a, <2>1, SoloView DEF CopyOf, SecretOf, Unrecorded, Emptied
  <2>4. \A s \in Site : LosesOf(p, s) => LosesOf(p, s)'
    BY <2>2 DEF LosesOf, Replaced, Unrecorded, Emptied
  <2>5. \A s \in Site, b \in Backend : LeavesOf(p, s, b) => LeavesOf(p, s, b)'
    BY <2>2 DEF LeavesOf, Unrecorded, Kept
  <2>6. QED
    BY <1>a, <2>1, <2>2, <2>3, <2>4, <2>5, QuietStep
<1>7. ASSUME NEW p \in Proc, Refuse(p) PROVE SerialInv'
  <2>1. Alone(p) /\ Alone(p)'
    BY <1>7, <1>a, StepAlone DEF Step
  <2>2. /\ pc[p] = "load" /\ pc'[p] = "idle" /\ job[p].kind \notin {"token", "env"}
        /\ UNCHANGED <<config, vault, job, torn, residue>>
    BY <1>7, <1>a DEF Refuse, Applicable, TypeOK
  <2>3. CopyOf(p)' /\ SecretOf(p)'
    BY <2>2 DEF CopyOf, SecretOf, Unrecorded, Emptied
  <2>4. \A s \in Site, b \in Backend : ~LosesOf(p, s) /\ ~LeavesOf(p, s, b)
    BY <2>2 DEF LosesOf, LeavesOf, Replaced, Unrecorded, Emptied, Kept
  <2>5. QED
    BY <1>a, <2>1, <2>2, <2>3, <2>4, QuietStep
<1>8. ASSUME NEW p \in Proc, WriteConfig(p) PROVE SerialInv'
  <2>1. Alone(p) /\ Alone(p)' /\ CopyOf(p) /\ SecretOf(p)
    BY <1>8, <1>a, StepAlone, SoloView DEF Step
  <2>2. /\ pc[p] = "write" /\ pc'[p] = IF Supersedes(p) THEN "clear" ELSE "idle"
        /\ config' = Edited(job[p], config, ref[p]) /\ cfg[p] = config
        /\ UNCHANGED <<vault, job, cfg, ref>>
    BY <1>8, <1>a, <2>1 DEF WriteConfig, CopyOf, TypeOK
  <2>3. CopyOf(p)' /\ SecretOf(p)'
    BY <2>2 DEF CopyOf, SecretOf, Unrecorded, Emptied, Supersedes
  <2>4. /\ \A s \in Site \ torn : Found(s) \/ LosesOf(p, s)
        /\ \A s \in Site, b \in Backend : Owned(s, b) \/ LeavesOf(p, s, b)
    BY <1>a, <2>1, SoloView
  <2>5. CASE job[p].kind \in Logins
    <3>1. job[p].arg \in Site
      BY <1>a, <2>5 DEF TypeOK, Jobs
    <3>2. /\ config' = [config EXCEPT !.sites[job[p].arg] =
                           [ref |-> ref[p], login |-> job[p].login]]
          /\ torn' = torn \ {job[p].arg} /\ residue' = residue \ {<<job[p].arg, ref[p]>>}
      BY <1>8, <2>2, <2>5 DEF WriteConfig, Edited
    <3>3. config'.sites[job[p].arg] = [ref |-> ref[p], login |-> job[p].login]
          /\ \A s \in Site \ {job[p].arg} : config'.sites[s] = config.sites[s]
      BY <1>a, <3>1, <3>2 DEF TypeOK, Config
    <3>4. job[p].kind = "env" => ref[p] = "env"
      BY <1>a, <2>2 DEF JobInv, JobOf
    <3>5. ref[p] \in Backend => vault[ref[p]][job[p].arg] = job[p].login
      BY <2>1, <2>2, <2>5, <3>4 DEF SecretOf, Unrecorded
    <3>6. \A s \in Site \ torn' : Found(s)'
      BY <2>2, <2>4, <3>2, <3>3, <3>5 DEF Found, LosesOf
    <3>7. \A s \in Site, b \in Backend :
            LeavesOf(p, s, b) => s = job[p].arg /\ b = ref[p]
      BY <2>2 DEF LeavesOf, Kept
    <3>8. config.sites[job[p].arg].ref \in Backend \ {ref[p]} =>
            Supersedes(p) /\ Former(p) = config.sites[job[p].arg].ref
      BY <2>2, <2>5 DEF Supersedes, Former
    <3>9. \A s \in Site, b \in Backend :
            s = job[p].arg /\ Supersedes(p) /\ Former(p) = b => LeavesOf(p, s, b)'
      BY <2>2, <2>5 DEF LeavesOf, Kept, Former
    <3>10. ASSUME NEW s \in Site, NEW b \in Backend PROVE Owned(s, b)' \/ LeavesOf(p, s, b)'
      <4>1. CASE s # job[p].arg
        BY <2>2, <2>4, <3>2, <3>3, <3>7, <4>1 DEF Owned
      <4>2. CASE s = job[p].arg /\ b = ref[p]
        BY <3>3, <4>2 DEF Owned
      <4>3. CASE s = job[p].arg /\ b # ref[p]
        <5>1. Owned(s, b)
          BY <2>4, <3>7, <4>3
        <5>2. CASE config.sites[s].ref = b
          BY <3>8, <3>9, <4>3, <5>2
        <5>3. CASE config.sites[s].ref # b
          BY <2>2, <3>2, <4>3, <5>1, <5>3 DEF Owned
        <5>4. QED
          BY <5>2, <5>3
      <4>4. QED
        BY <4>1, <4>2, <4>3
    <3>11. QED
      BY <2>1, <2>3, <3>6, <3>10, SoloBack
  <2>6. CASE job[p].kind = "logout"
    <3>1. job[p].arg \in Site
      BY <1>a, <2>6 DEF TypeOK, Jobs
    <3>2. torn' = torn \ {job[p].arg} /\ residue' = residue /\ pc'[p] = "idle"
      BY <1>8, <2>2, <2>6 DEF WriteConfig, Supersedes
    <3>3. config'.sites[job[p].arg] = NoProfile
          /\ \A s \in Site \ {job[p].arg} : config'.sites[s] = config.sites[s]
      BY <1>a, <2>2, <2>6, <3>1 DEF Edited, WithoutSite, TypeOK, Config
    <3>4. \A s \in Site, b \in Backend : ~LeavesOf(p, s, b)
      BY <2>2, <2>6 DEF LeavesOf, Unrecorded, Kept
    <3>5. config.sites[job[p].arg].ref \in Backend =>
            vault[config.sites[job[p].arg].ref][job[p].arg] = 0
      BY <2>1, <2>2, <2>6 DEF SecretOf, Emptied, Former
    <3>6. \A s \in Site \ torn' : Found(s)'
      BY <2>2, <2>4, <3>2, <3>3 DEF Found, LosesOf, NoProfile
    <3>7. \A s \in Site, b \in Backend : Owned(s, b)'
      BY <2>2, <2>4, <3>2, <3>3, <3>4, <3>5 DEF Owned
    <3>8. QED
      BY <2>1, <2>3, <3>6, <3>7, SoloBack
  <2>7. CASE job[p].kind \notin Logins \cup {"logout"}
    <3>1. UNCHANGED <<torn, residue>> /\ config'.sites = config.sites
      BY <1>8, <1>a, <2>2, <2>7 DEF WriteConfig, Edited, TypeOK, Config, Jobs
    <3>2. \A s \in Site, b \in Backend : ~LosesOf(p, s) /\ ~LeavesOf(p, s, b)
      BY <2>7 DEF LosesOf, LeavesOf, Replaced, Unrecorded, Emptied, Kept
    <3>3. \A s \in Site \ torn' : Found(s)'
      BY <2>2, <2>4, <3>1, <3>2 DEF Found
    <3>4. \A s \in Site, b \in Backend : Owned(s, b)'
      BY <2>2, <2>4, <3>1, <3>2 DEF Owned
    <3>5. QED
      BY <2>1, <2>3, <3>3, <3>4, SoloBack
  <2>8. QED
    BY <2>5, <2>6, <2>7
<1>9. ASSUME NEW p \in Proc, ClearNothing(p) PROVE SerialInv'
  <2>1. Alone(p) /\ Alone(p)' /\ CopyOf(p)
    BY <1>9, <1>a, StepAlone, SoloView DEF Step
  <2>2. /\ pc[p] = "clear" /\ Former(p) = "env"
        /\ pc'[p] = IF job[p].kind = "logout" THEN "write" ELSE "idle"
        /\ UNCHANGED <<config, vault, job, cfg, ref, torn, residue>>
    BY <1>9, <1>a DEF ClearNothing, Cleared, TypeOK
  <2>3. CopyOf(p)' /\ SecretOf(p)'
    BY <2>1, <2>2 DEF CopyOf, SecretOf, Unrecorded, Emptied, Former
  <2>4. \A s \in Site, b \in Backend : ~LosesOf(p, s) /\ ~LeavesOf(p, s, b)
    BY <2>2 DEF LosesOf, LeavesOf, Replaced, Unrecorded, Emptied, Kept
  <2>5. QED
    BY <1>a, <2>1, <2>2, <2>3, <2>4, QuietStep
<1>10. ASSUME NEW p \in Proc, LoadToDelete(p) PROVE SerialInv'
  <2>1. Alone(p) /\ Alone(p)' /\ CopyOf(p)
    BY <1>10, <1>a, StepAlone, SoloView DEF Step
  <2>2. /\ pc[p] = "clear" /\ Former(p) = "file"
        /\ pc'[p] = IF vault["file"][job[p].arg] # 0 THEN "clearWrite"
                    ELSE IF job[p].kind = "logout" THEN "write" ELSE "idle"
        /\ doc'[p] = vault["file"]
        /\ UNCHANGED <<config, vault, job, cfg, ref, torn, residue>>
    BY <1>10, <1>a DEF LoadToDelete, Cleared, TypeOK
  <2>3. CopyOf(p)' /\ SecretOf(p)'
    BY <2>1, <2>2 DEF CopyOf, SecretOf, Unrecorded, Emptied, Former
  <2>4. \A s \in Site : ~LosesOf(p, s)
    BY <2>2 DEF LosesOf, Replaced, Unrecorded, Emptied
  <2>5. \A s \in Site, b \in Backend : LeavesOf(p, s, b) =>
          LeavesOf(p, s, b)' \/ vault[b][s] = 0
    BY <2>2 DEF LeavesOf, Unrecorded, Kept, Former
  <2>6. QED
    BY <1>a, <2>1, <2>2, <2>3, <2>4, <2>5, QuietStep
<1>11. ASSUME NEW p \in Proc, Stops(p) PROVE SerialInv'
  <2>1. Alone(p) /\ Alone(p)'
    BY <1>11, <1>a, StepAlone DEF Step
  <2>2. /\ pc'[p] = "idle" /\ torn \subseteq torn' /\ residue \subseteq residue'
        /\ UNCHANGED <<config, vault>>
    BY <1>11, <1>a DEF Stops, TypeOK
  <2>3. CopyOf(p)' /\ SecretOf(p)'
    BY <2>2 DEF CopyOf, SecretOf, Unrecorded, Emptied
  <2>4. \A s \in Site : LosesOf(p, s) => s \in torn'
    BY <1>11 DEF Stops, LosesOf
  <2>5. \A s \in Site, b \in Backend : LeavesOf(p, s, b) => <<s, b>> \in residue'
    BY <1>11 DEF Stops, LeavesOf
  <2>6. QED
    BY <1>a, <2>1, <2>2, <2>3, <2>4, <2>5, QuietStep
<1>12. ASSUME NEW p \in Proc, DeleteFromKeyring(p) \/ DeleteFromFile(p) PROVE SerialInv'
  <2>1. Alone(p) /\ Alone(p)' /\ CopyOf(p)
    BY <1>12, <1>a, StepAlone, SoloView DEF Step
  <2>2. /\ pc[p] \in {"clear", "clearWrite"} /\ Former(p) \in Backend
        /\ pc'[p] = IF job[p].kind = "logout" THEN "write" ELSE "idle"
        /\ residue' = residue \ {<<job[p].arg, Former(p)>>}
        /\ job[p].arg \in Site /\ job[p].kind \in Logins \cup {"logout"}
        /\ UNCHANGED <<config, job, cfg, ref, torn>>
    BY <1>12, <1>a
    DEF DeleteFromKeyring, DeleteFromFile, Cleared, TypeOK, JobInv, JobOf, Jobs
  <2>3. vault' = [vault EXCEPT ![Former(p)][job[p].arg] = 0]
    <3>1. CASE DeleteFromKeyring(p)
      BY <3>1 DEF DeleteFromKeyring, Stored
    <3>2. CASE DeleteFromFile(p)
      BY <1>a, <2>1, <3>2 DEF DeleteFromFile, CopyOf, JobInv, JobOf
    <3>3. QED
      BY <1>12, <3>1, <3>2
  <2>4. /\ vault'[Former(p)][job[p].arg] = 0
        /\ \A s \in Site, b \in Backend :
             <<s, b>> # <<job[p].arg, Former(p)>> => vault'[b][s] = vault[b][s]
    BY <1>a, <2>2, <2>3 DEF TypeOK
  <2>5. CopyOf(p)' /\ SecretOf(p)'
    BY <2>1, <2>2, <2>4 DEF CopyOf, SecretOf, Unrecorded, Emptied, Former
  <2>6. \A s \in Site : ~LosesOf(p, s)
    BY <2>2 DEF LosesOf, Replaced, Unrecorded, Emptied
  <2>7. /\ \A s \in Site \ torn : Found(s)
        /\ \A s \in Site, b \in Backend : Owned(s, b) \/ LeavesOf(p, s, b)
    BY <1>a, <2>1, <2>6, SoloView
  <2>8. \A s \in Site \ torn' : Found(s)' \/ LosesOf(p, s)'
    <3>1. CASE job[p].kind = "logout"
      <4>1. LosesOf(p, job[p].arg)'
        BY <2>2, <3>1 DEF LosesOf, Emptied, Former
      <4>2. \A s \in Site \ torn : s # job[p].arg => Found(s)'
        BY <2>2, <2>4, <2>7 DEF Found
      <4>3. QED
        BY <2>2, <4>1, <4>2
    <3>2. CASE job[p].kind \in Logins
      <4>1. config.sites[job[p].arg].ref = ref[p]
        <5>1. config = [cfg[p] EXCEPT !.sites[job[p].arg] =
                          [ref |-> ref[p], login |-> job[p].login]]
          BY <2>1, <2>2, <3>2 DEF CopyOf, Edited
        <5>2. QED
          BY <1>a, <2>2, <5>1 DEF TypeOK, Config
      <4>2. Former(p) # ref[p]
        BY <1>a, <2>2, <3>2 DEF JobInv, JobOf
      <4>3. QED
        BY <2>2, <2>4, <2>7, <4>1, <4>2 DEF Found
    <3>3. QED
      BY <2>2, <3>1, <3>2
  <2>9. \A s \in Site, b \in Backend : Owned(s, b)'
    <3>1. \A s \in Site, b \in Backend : LeavesOf(p, s, b) => s = job[p].arg /\ b = Former(p)
      BY <2>2 DEF LeavesOf, Unrecorded
    <3>2. QED
      BY <2>2, <2>4, <2>7, <3>1 DEF Owned
  <2>10. QED
    BY <2>1, <2>5, <2>8, <2>9, SoloBack
<1>13. CASE UNCHANGED vars
  BY <1>13, <1>a
  DEF vars, SerialInv, SoloInv, SoloStateInv, FoundInv, OwnedInv, CopyOf, SecretOf,
      Found, Owned, LosesOf, LeavesOf, Unrecorded, Replaced, Emptied, Kept, Former
<1>14. QED
  BY <1>1, <1>2, <1>3, <1>4, <1>5, <1>6, <1>7, <1>8, <1>9, <1>10, <1>11, <1>12, <1>13
  DEF Next, Step

\* IInv holds in every reachable state.
LEMMA Invariant == Spec => []IInv
<1>1. Init => IInv
  <2>1. ASSUME Init PROVE SerialInv
    BY <2>1
    DEF Init, SerialInv, SoloInv, SoloStateInv, CopyOf, SecretOf, FoundInv, OwnedInv,
        Unrecorded, Emptied, Found, Owned, NoConfig, NoProfile, Backend
  <2>2. Init => SoundInv /\ ~overlapped
    BY DEF Init, SoundInv, Sound, NoConfig
  <2>3. QED
    BY <2>1, <2>2, TypeInit, JobInit DEF IInv
<1>2. IInv /\ [Next]_vars => IInv'
  <2> SUFFICES ASSUME IInv, [Next]_vars PROVE IInv'
    OBVIOUS
  <2>1. TypeOK' /\ JobInv' /\ SoundInv'
    BY TypeStep, JobStep, SoundStep DEF IInv
  <2>2. ~overlapped' => SerialInv'
    BY SerialStep
  <2>3. ~Overlap => ~overlapped'
    <3>1. ASSUME ~Overlap, NEW p \in Proc, NEW j \in Jobs, Start(p, j)
          PROVE ~overlapped'
      BY <3>1, Zenon DEF IInv, Start
    <3>2. CASE UNCHANGED overlapped
      BY <3>2, Zenon DEF IInv
    <3>3. QED
      BY <3>1, <3>2, Zenon
      DEF Next, Step, SetInKeyring, KeyringRefuses, LoadToSet, SetInFile, LoadConfig,
          Refuse, WriteConfig, ClearNothing, DeleteFromKeyring, LoadToDelete,
          DeleteFromFile, Stops, vars, history
  <2>4. QED
    BY <2>1, <2>2, <2>3, Zenon DEF IInv
<1>3. QED
  BY <1>1, <1>2, PTL DEF Spec

\* A site's profile finds its secret, for any number of commands that do not
\* overlap, unless the last login or logout of the site got half-way
\* (secrets.Save, persistProfile, clearStoredToken).
THEOREM ProfileFindsSecret == Spec => []Resolvable
<1>1. IInv => Resolvable
  <2> SUFFICES ASSUME IInv, ~overlapped, NEW s \in Site \ torn, Quiet(s)
               PROVE  Found(s)
    BY DEF Resolvable, Found
  <2>1. \A p \in Proc : ~LosesOf(p, s)
    BY DEF Quiet, LosesOf, Replaced, Unrecorded, Emptied
  <2>2. QED
    BY <2>1 DEF IInv, SerialInv, FoundInv
<1>2. QED
  BY <1>1, Invariant, PTL

\* A stored secret has a profile that refers to it, for any number of commands
\* that do not overlap, unless a login or a clean-up got half-way
\* (auth.go 466-475, 820).
THEOREM SecretHasProfile == Spec => []NoLeftover
<1>1. IInv => NoLeftover
  <2> SUFFICES ASSUME IInv, ~overlapped, NEW s \in Site, NEW b \in Backend, Quiet(s)
               PROVE  Owned(s, b)
    BY DEF NoLeftover, Owned
  <2>1. \A p \in Proc : ~LeavesOf(p, s, b)
    BY DEF Quiet, LeavesOf, Unrecorded, Kept
  <2>2. QED
    BY <2>1 DEF IInv, SerialInv, OwnedInv
<1>2. QED
  BY <1>1, Invariant, PTL

\* As long as commands do not overlap, whatever fails or dies half-way, config.json
\* changes as SiteRegistry promises: by one whole edit at a time (auth.go, alias.go).
THEOREM EditsAreWhole == Spec => Serial
<1>1. Init => Registry!Init
  BY DEF Init, Registry!Init, Registry!Empty, NoConfig
<1>2. IInv /\ [Next]_vars => [overlapped' \/ Registry!Next]_config
  <2> SUFFICES ASSUME IInv, [Next]_vars, ~overlapped' PROVE Registry!Next \/ UNCHANGED config
    OBVIOUS
  <2>0. SerialInv
    <3>1. overlapped \in BOOLEAN /\ (overlapped => overlapped')
      BY Zenon DEF IInv, TypeOK, Next, Step, Start, SetInKeyring, KeyringRefuses, LoadToSet,
         SetInFile, LoadConfig, Refuse, WriteConfig, ClearNothing, DeleteFromKeyring,
         LoadToDelete, DeleteFromFile, Stops, vars, history
    <3>2. QED
      BY <3>1 DEF IInv
  <2>1. ASSUME NEW p \in Proc, WriteConfig(p) PROVE Registry!Next
    <3> DEFINE j == job[p]
    <3>1. /\ config' = Edited(j, config, ref[p]) /\ Applicable(j, config)
          /\ j \in Jobs /\ j.login \in 1..MaxRuns /\ ref[p] \in Ref
      <4>1. cfg[p] = config
        BY <2>0, <2>1 DEF SerialInv, SoloStateInv, CopyOf, WriteConfig
      <4>2. QED
        BY <2>1, <4>1, AuthAssumption DEF WriteConfig, IInv, JobInv, JobOf, TypeOK, Jobs
    <3> HIDE DEF j
    <3> USE DEF Registry!Next
    <3>2. CASE j.kind \in Logins
      BY <3>1, <3>2 DEF Edited, Registry!LogIn, Jobs, Logins
    <3>3. CASE j.kind = "logout"
      BY <3>1, <3>3
      DEF Edited, WithoutSite, Applicable, Registry!LogOut, Registry!Configured, Jobs, Logins
    <3>4. CASE j.kind = "default"
      BY <3>1, <3>4
      DEF Edited, Applicable, Registry!SetDefault, Registry!Configured, Jobs, Logins
    <3>5. CASE j.kind = "clear"
      BY <3>1, <3>5 DEF Edited, Registry!ClearDefault, Logins
    <3>6. CASE j.kind = "alias"
      BY <3>1, <3>6 DEF Edited, Registry!SetAlias, Jobs, Logins
    <3>7. CASE j.kind = "unalias"
      BY <3>1, <3>7 DEF Edited, Applicable, Registry!DeleteAlias, Jobs, Logins
    <3>8. QED
      BY <3>1, <3>2, <3>3, <3>4, <3>5, <3>6, <3>7 DEF Jobs, Logins
  <2>2. QED
    BY <2>1, Zenon
    DEF Next, Step, Start, SetInKeyring, KeyringRefuses, LoadToSet, SetInFile,
        LoadConfig, Refuse, ClearNothing, DeleteFromKeyring, LoadToDelete,
        DeleteFromFile, Stops, vars, disk
<1>3. QED
  BY <1>1, <1>2, Invariant, PTL DEF Spec, Serial
=============================================================================
