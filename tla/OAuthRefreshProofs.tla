------------------------- MODULE OAuthRefreshProofs -------------------------
(***************************************************************************)
(* Proofs about OAuthRefresh for every number of runs, sites, crashes and  *)
(* issued tokens, and every pair of timeouts with RefreshTimeout below     *)
(* LockTimeout.                                                            *)
(***************************************************************************)
EXTENDS OAuthRefresh, TLAPS

\* The values variables are reset to are of their types.
LEMMA BlankTypes ==
  NoBundle \in Bundle /\ NoSnap \in [Site -> Bundle] /\ NoReply \in Reply
BY ConstantsAssumption DEF NoBundle, Bundle, NoSnap, NoReply, Reply, Issue

\* Removing the lock file leaves a value of its type.
LEMMA UnlockedType == ASSUME lock \in Lock PROVE Unlocked \in Lock
BY ConstantsAssumption DEF Unlocked, Lock

\* Every variable has its type initially.
LEMMA TypeInit == Init => TypeOK
<1> SUFFICES ASSUME Init PROVE TypeOK
  OBVIOUS
<1> USE ConstantsAssumption DEF Issue
<1>1. stored \in [Site -> Bundle] /\ snap \in [Proc -> [Site -> Bundle]]
  BY BlankTypes DEF Init, Bundle
<1>2. lock \in Lock
  BY DEF Init, Lock
<1>3. /\ lapsed \in [Site -> Issue] /\ minted \in [Site -> Issue]
      /\ live \in [Site -> Issue] /\ runs \in 0..MaxRuns /\ crashes \in 0..MaxCrashes
  BY DEF Init
<1>4. /\ pc \in [Proc -> PC] /\ site \in [Proc -> Site]
      /\ outcome \in [Proc -> {"none", "ok", "reauth", "failed", "crashed"}]
  BY DEF Init, PC
<1>5. bundle \in [Proc -> Bundle] /\ reply \in [Proc -> Reply]
  BY BlankTypes DEF Init
<1>6. /\ locked \in [Proc -> BOOLEAN] /\ reclaimed \in [Proc -> BOOLEAN]
      /\ bypassed \in BOOLEAN /\ raced \in BOOLEAN /\ leftover \in BOOLEAN
      /\ dropped \in SUBSET Site
  BY DEF Init
<1>7. /\ waited \in [Proc -> 0..LockTimeout + 1]
      /\ staleIn \in [Proc -> -1..LockTimeout]
      /\ callAge \in [Proc -> 0..RefreshTimeout]
  BY DEF Init
<1>8. QED
  BY <1>1, <1>2, <1>3, <1>4, <1>5, <1>6, <1>7 DEF TypeOK

\* Every step keeps every variable in its type.
LEMMA TypeStep == TypeOK /\ [Next]_vars => TypeOK'
<1> SUFFICES ASSUME TypeOK, [Next]_vars PROVE TypeOK'
  OBVIOUS
<1> USE ConstantsAssumption
    DEF PC, Critical, Issue, Goto, Return, FreshWait, Forget, waiting, call,
        service, history
<1>1. ASSUME NEW p \in Proc, NEW s \in Site, StartRun(p, s) PROVE TypeOK'
  BY <1>1 DEF StartRun, TypeOK
<1>2. ASSUME NEW p \in Proc, FastPath(p) PROVE TypeOK'
  BY <1>2 DEF FastPath, TypeOK
<1>3. ASSUME NEW p \in Proc, NeedRefresh(p) PROVE TypeOK'
  BY <1>3 DEF NeedRefresh, TypeOK
<1>4. ASSUME NEW p \in Proc, ReadFails(p) PROVE TypeOK'
  BY <1>4 DEF ReadFails, TypeOK
<1>5. ASSUME NEW p \in Proc, CreateLock(p) PROVE TypeOK'
  <2>1. lock' \in Lock
    BY <1>5 DEF CreateLock, Lock
  <2>2. QED
    BY <1>5, <2>1 DEF CreateLock, TypeOK
<1>6. ASSUME NEW p \in Proc, FindLock(p) PROVE TypeOK'
  BY <1>6 DEF FindLock, TypeOK
<1>7. ASSUME NEW p \in Proc, LockFails(p) PROVE TypeOK'
  BY <1>7 DEF LockFails, Bypass, TypeOK
<1>8. ASSUME NEW p \in Proc, Inspect(p) PROVE TypeOK'
  <2>1. StaleIn \in -1..LockTimeout
    BY DEF StaleIn, Lock, TypeOK
  <2>2. QED
    BY <1>8, <2>1 DEF Inspect, TypeOK
<1>9. ASSUME NEW p \in Proc, ReclaimLock(p) PROVE TypeOK'
  <2>1. lock' \in Lock
    BY <1>9, UnlockedType DEF ReclaimLock, TypeOK
  <2>2. raced' \in BOOLEAN
    BY <1>9, Zenon DEF ReclaimLock
  <2>3. QED
    BY <1>9, <2>1, <2>2 DEF ReclaimLock, TypeOK
<1>9a. ASSUME NEW p \in Proc, ReclaimFails(p) PROVE TypeOK'
  BY <1>9a DEF ReclaimFails, TypeOK
<1>10. ASSUME NEW p \in Proc, GiveUp(p) PROVE TypeOK'
  BY <1>10 DEF GiveUp, Bypass, TypeOK
<1>11. ASSUME NEW p \in Proc, FallAsleep(p) PROVE TypeOK'
  BY <1>11 DEF FallAsleep, TypeOK
<1>12. ASSUME NEW p \in Proc, WakeUp(p) PROVE TypeOK'
  BY <1>12 DEF WakeUp, TypeOK
<1>13. ASSUME NEW p \in Proc, ReuseRefreshed(p) PROVE TypeOK'
  BY <1>13 DEF ReuseRefreshed, UnderLock, TypeOK
<1>14. ASSUME NEW p \in Proc, SendRefresh(p) PROVE TypeOK'
  BY <1>14 DEF SendRefresh, UnderLock, TypeOK
<1>15. ASSUME NEW p \in Proc, Grant(p) PROVE TypeOK'
  <2>1. minted[site[p]] + 1 \in Issue
    BY <1>15 DEF Grant, TypeOK
  <2>2. reply' \in [Proc -> Reply] /\ live' \in [Site -> Issue]
    <3>1. PICK r \in {0, minted[site[p]] + 1} :
            /\ reply' = [reply EXCEPT ![p] =
                 [kind |-> "granted", at |-> minted[site[p]] + 1, rt |-> r]]
            /\ live' = [live EXCEPT ![site[p]] = IF r = 0 THEN live[site[p]]
                                                 ELSE minted[site[p]] + 1]
      BY <1>15, Zenon DEF Grant
    <3>2. [kind |-> "granted", at |-> minted[site[p]] + 1, rt |-> r] \in Reply
      BY <2>1 DEF Reply
    <3>3. QED
      BY <2>1, <3>1, <3>2 DEF TypeOK
  <2>3. QED
    BY <1>15, <2>1, <2>2 DEF Grant, TypeOK
<1>16. ASSUME NEW p \in Proc, Reject(p) PROVE TypeOK'
  <2>1. [kind |-> "rejected", at |-> 0, rt |-> 0] \in Reply
    BY DEF Reply
  <2>2. QED
    BY <1>16, <2>1 DEF Reject, TypeOK
<1>17. ASSUME NEW p \in Proc, ReceivePair(p) PROVE TypeOK'
  <2>1. Refreshed(bundle[p], reply[p]) \in Bundle
    BY DEF Refreshed, Bundle, Reply, TypeOK
  <2>2. QED
    BY <1>17, <2>1 DEF ReceivePair, TypeOK
<1>18. ASSUME NEW p \in Proc, ReceiveRefusal(p) PROVE TypeOK'
  BY <1>18 DEF ReceiveRefusal, TypeOK
<1>19. ASSUME NEW p \in Proc, CallFails(p) PROVE TypeOK'
  BY <1>19 DEF CallFails, TypeOK
<1>20. ASSUME NEW p \in Proc, SaveKeyring(p) PROVE TypeOK'
  BY <1>20 DEF SaveKeyring, TypeOK
<1>21. ASSUME NEW p \in Proc, LoadFile(p) PROVE TypeOK'
  BY <1>21 DEF LoadFile, TypeOK
<1>22. ASSUME NEW p \in Proc, WriteFile(p) PROVE TypeOK'
  BY <1>22 DEF WriteFile, TypeOK
<1>23. ASSUME NEW p \in Proc, SaveFails(p) PROVE TypeOK'
  BY <1>23 DEF SaveFails, TypeOK
<1>24. ASSUME NEW p \in Proc, Release(p) PROVE TypeOK'
  <2>1. lock' \in Lock
    BY <1>24, UnlockedType DEF Release, TypeOK
  <2>2. raced' \in BOOLEAN
    BY <1>24, Zenon DEF Release
  <2>3. QED
    BY <1>24, <2>1, <2>2, BlankTypes DEF Release, TypeOK
<1>24a. ASSUME NEW p \in Proc, ReleaseFails(p) PROVE TypeOK'
  BY <1>24a, BlankTypes DEF ReleaseFails, TypeOK
<1>25. ASSUME NEW p \in Proc, Crash(p) PROVE TypeOK'
  BY <1>25, BlankTypes DEF Crash, TypeOK
<1>26. ASSUME NEW s \in Site, Lapse(s) PROVE TypeOK'
  BY <1>26 DEF Lapse, TypeOK
<1>27. ASSUME Tick PROVE TypeOK'
  <2>1. lock' \in Lock
    <3>1. lock \in Lock
      BY DEF TypeOK
    <3>2. QED
      BY <1>27, <3>1 DEF Tick, Lock
  <2>2. waited' \in [Proc -> 0..LockTimeout + 1]
    <3>1. \A p \in Proc : pc[p] = "asleep" => waited[p] <= LockTimeout
      <4>1. \A p \in Proc : pc[p] = "asleep" => ~(waited[p] > LockTimeout)
        BY <1>27 DEF Tick, Blocked, Awake, WaitedOut
      <4>2. waited \in [Proc -> 0..LockTimeout + 1]
        BY DEF TypeOK
      <4>3. QED
        BY <4>1, <4>2
    <3>2. QED
      BY <1>27, <3>1 DEF Tick, TypeOK
  <2>3. staleIn' \in [Proc -> -1..LockTimeout]
    BY <1>27 DEF Tick, TypeOK
  <2>4. callAge' \in [Proc -> 0..RefreshTimeout]
    <3>1. \A p \in Proc : pc[p] = "sent" => callAge[p] < RefreshTimeout
      BY <1>27 DEF Tick, Blocked
    <3>2. QED
      BY <1>27, <3>1 DEF Tick, TypeOK
  <2>5. QED
    BY <1>27, <2>1, <2>2, <2>3, <2>4 DEF Tick, TypeOK
<1>28. CASE UNCHANGED vars
  BY <1>28 DEF vars, TypeOK
<1>29. QED
  BY <1>1, <1>2, <1>3, <1>4, <1>5, <1>6, <1>7, <1>8, <1>9, <1>9a, <1>10, <1>11,
     <1>12, <1>13, <1>14, <1>15, <1>16, <1>17, <1>18, <1>19, <1>20, <1>21,
     <1>22, <1>23, <1>24, <1>24a, <1>25, <1>26, <1>27, <1>28
     DEF Next, Step

\* Type correctness of the model of the credential provider.
THEOREM TypeCorrect == Spec => []TypeOK
BY TypeInit, TypeStep, PTL DEF Spec

-----------------------------------------------------------------------------
(* The lock file. While no live holder was robbed of it, the run that counts *)
(* on it is the one that created it; and while nobody went on without it,    *)
(* every run in the critical region counts on it.                            *)

LockInv ==
  /\ \A p \in Proc : locked[p] => pc[p] \in Critical \cup {"release"}
  /\ ~raced => \A p \in Proc : locked[p] => lock.held /\ lock.owner = p
  /\ ~bypassed => \A p \in Proc : pc[p] \in Critical => locked[p]

\* The lock invariant survives every step.
LEMMA LockStep == TypeOK /\ LockInv /\ [Next]_vars => LockInv'
<1> SUFFICES ASSUME TypeOK, LockInv, [Next]_vars PROVE LockInv'
  OBVIOUS
<1> USE DEF LockInv, Critical, Goto, Return
<1>1. ASSUME NEW p \in Proc, NEW s \in Site, StartRun(p, s) PROVE LockInv'
  BY <1>1 DEF StartRun, history, TypeOK
<1>2. ASSUME NEW p \in Proc, FastPath(p) PROVE LockInv'
  BY <1>2 DEF FastPath, history, TypeOK
<1>3. ASSUME NEW p \in Proc, NeedRefresh(p) PROVE LockInv'
  BY <1>3 DEF NeedRefresh, history, TypeOK
<1>4. ASSUME NEW p \in Proc, ReadFails(p) PROVE LockInv'
  BY <1>4 DEF ReadFails, history, TypeOK
<1>5. ASSUME NEW p \in Proc, CreateLock(p) PROVE LockInv'
  <2>1. /\ ~lock.held /\ pc' = [pc EXCEPT ![p] = "reread"]
        /\ locked' = [locked EXCEPT ![p] = TRUE] /\ UNCHANGED <<raced, bypassed>>
        /\ lock' = [held |-> TRUE, owner |-> p, age |-> 0]
    BY <1>5 DEF CreateLock, Taken, history
  <2>2. lock'.held /\ lock'.owner = p
    BY <2>1
  <2>3. ~raced => \A q \in Proc : ~locked[q]
    BY <2>1
  <2>4. QED
    BY <2>1, <2>2, <2>3 DEF TypeOK
<1>6. ASSUME NEW p \in Proc, FindLock(p) PROVE LockInv'
  BY <1>6 DEF FindLock, history, TypeOK
<1>7. ASSUME NEW p \in Proc, LockFails(p) PROVE LockInv'
  BY <1>7 DEF LockFails, Bypass, history, TypeOK
<1>8. ASSUME NEW p \in Proc, Inspect(p) PROVE LockInv'
  BY <1>8 DEF Inspect, history, TypeOK
<1>9. ASSUME NEW p \in Proc, ReclaimLock(p) PROVE LockInv'
  <2>1. /\ pc[p] = "reclaim" /\ pc' = [pc EXCEPT ![p] = "acquire"]
        /\ UNCHANGED <<locked, bypassed>> /\ lock'.held = FALSE
        /\ raced' = (raced \/ RobsHolder(p))
    BY <1>9 DEF ReclaimLock, Unlocked
  <2>2. ~locked[p]
    BY <2>1
  <2>3. ASSUME ~raced', NEW q \in Proc, locked[q] PROVE FALSE
    <3>1. ~raced /\ ~RobsHolder(p)
      BY <2>1, <2>3
    <3>2. lock.held /\ lock.owner = q /\ q # p
      BY <2>2, <2>3, <3>1
    <3>3. QED
      BY <2>3, <3>1, <3>2 DEF RobsHolder
  <2>4. QED
    BY <2>1, <2>2, <2>3 DEF TypeOK
<1>9a. ASSUME NEW p \in Proc, ReclaimFails(p) PROVE LockInv'
  BY <1>9a DEF ReclaimFails, history, TypeOK
<1>10. ASSUME NEW p \in Proc, GiveUp(p) PROVE LockInv'
  BY <1>10 DEF GiveUp, Bypass, history, TypeOK
<1>11. ASSUME NEW p \in Proc, FallAsleep(p) PROVE LockInv'
  BY <1>11 DEF FallAsleep, history, TypeOK
<1>12. ASSUME NEW p \in Proc, WakeUp(p) PROVE LockInv'
  BY <1>12 DEF WakeUp, history, TypeOK
<1>13. ASSUME NEW p \in Proc, ReuseRefreshed(p) PROVE LockInv'
  BY <1>13 DEF ReuseRefreshed, history, TypeOK
<1>14. ASSUME NEW p \in Proc, SendRefresh(p) PROVE LockInv'
  BY <1>14 DEF SendRefresh, history, TypeOK
<1>15. ASSUME NEW p \in Proc, Grant(p) PROVE LockInv'
  BY <1>15 DEF Grant, history, TypeOK
<1>16. ASSUME NEW p \in Proc, Reject(p) PROVE LockInv'
  BY <1>16 DEF Reject, history, TypeOK
<1>17. ASSUME NEW p \in Proc, ReceivePair(p) PROVE LockInv'
  BY <1>17 DEF ReceivePair, history, TypeOK
<1>18. ASSUME NEW p \in Proc, ReceiveRefusal(p) PROVE LockInv'
  BY <1>18 DEF ReceiveRefusal, history, TypeOK
<1>19. ASSUME NEW p \in Proc, CallFails(p) PROVE LockInv'
  BY <1>19 DEF CallFails, history, TypeOK
<1>20. ASSUME NEW p \in Proc, SaveKeyring(p) PROVE LockInv'
  BY <1>20 DEF SaveKeyring, history, TypeOK
<1>21. ASSUME NEW p \in Proc, LoadFile(p) PROVE LockInv'
  BY <1>21 DEF LoadFile, history, TypeOK
<1>22. ASSUME NEW p \in Proc, WriteFile(p) PROVE LockInv'
  BY <1>22 DEF WriteFile, history, TypeOK
<1>23. ASSUME NEW p \in Proc, SaveFails(p) PROVE LockInv'
  BY <1>23 DEF SaveFails, history, TypeOK
<1>24. ASSUME NEW p \in Proc, Release(p) PROVE LockInv'
  <2>1. /\ pc[p] = "release" /\ pc' = [pc EXCEPT ![p] = "idle"]
        /\ locked' = [locked EXCEPT ![p] = FALSE] /\ UNCHANGED bypassed
        /\ ~locked[p] => lock' = lock
        /\ ~raced' => ~raced
    BY <1>24 DEF Release
  <2>2. ASSUME ~raced, locked[p], NEW q \in Proc, locked[q] PROVE q = p
    BY <2>2
  <2>3. QED
    BY <2>1, <2>2 DEF TypeOK
<1>24a. ASSUME NEW p \in Proc, ReleaseFails(p) PROVE LockInv'
  BY <1>24a DEF ReleaseFails, history, TypeOK
<1>25. ASSUME NEW p \in Proc, Crash(p) PROVE LockInv'
  BY <1>25 DEF Crash, history, TypeOK
<1>26. ASSUME NEW s \in Site, Lapse(s) PROVE LockInv'
  BY <1>26 DEF Lapse, history, TypeOK
<1>27. ASSUME Tick PROVE LockInv'
  BY <1>27 DEF Tick, history, TypeOK
<1>28. CASE UNCHANGED vars
  BY <1>28 DEF vars, history, TypeOK
<1>29. QED
  BY <1>1, <1>2, <1>3, <1>4, <1>5, <1>6, <1>7, <1>8, <1>9, <1>9a, <1>10, <1>11,
     <1>12, <1>13, <1>14, <1>15, <1>16, <1>17, <1>18, <1>19, <1>20, <1>21,
     <1>22, <1>23, <1>24, <1>24a, <1>25, <1>26, <1>27, <1>28
     DEF Next, Step

\* Types and the lock invariant hold throughout.
LEMMA LockInvariant == Spec => [](TypeOK /\ LockInv)
<1>1. Init => LockInv
  BY DEF Init, LockInv, Critical
<1>2. QED
  BY <1>1, TypeInit, TypeStep, LockStep, PTL DEF Spec

\* OneRefresher is a consequence of the lock invariant.
LEMMA LockExcludes == LockInv => OneRefresher
BY DEF LockInv, OneRefresher, Honoured

\* Single flight: as long as the lock is honoured, one run at a time re-reads,
\* refreshes and stores, whatever crashes and failures happen.
THEOREM SingleFlight == Spec => []OneRefresher
BY LockInvariant, LockExcludes, PTL

-----------------------------------------------------------------------------
(* Staleness. While none was left behind, the lock file belongs to a live run*)
(* and is no older than that run's refresh call, which RefreshTimeout bounds *)
(* below LockTimeout: nobody ever takes it for a leftover.                   *)

AgeInv ==
  ~leftover =>
    /\ ~raced
    /\ \A p \in Proc : pc[p] # "reclaim"
    /\ lock.held =>
         /\ locked[lock.owner] /\ lock.age <= RefreshTimeout
         /\ pc[lock.owner] = "reread" => lock.age = 0
         /\ pc[lock.owner] = "sent" => lock.age <= callAge[lock.owner]

\* A call starts its clock at zero.
CallInv ==
  \A p \in Proc : pc[p] \notin {"sent", "save", "write", "release"} => callAge[p] = 0

\* The age of a call is kept only while there is one.
LEMMA CallStep == TypeOK /\ CallInv /\ [Next]_vars => CallInv'
<1> SUFFICES ASSUME TypeOK, CallInv, [Next]_vars PROVE CallInv'
  OBVIOUS
<1> USE DEF CallInv, Goto, Return, call
<1>1. ASSUME NEW p \in Proc, NEW s \in Site, StartRun(p, s) PROVE CallInv'
  BY <1>1 DEF StartRun, history, TypeOK
<1>2. ASSUME NEW p \in Proc, FastPath(p) PROVE CallInv'
  BY <1>2 DEF FastPath, history, TypeOK
<1>3. ASSUME NEW p \in Proc, NeedRefresh(p) PROVE CallInv'
  BY <1>3 DEF NeedRefresh, history, TypeOK
<1>4. ASSUME NEW p \in Proc, ReadFails(p) PROVE CallInv'
  BY <1>4 DEF ReadFails, history, TypeOK
<1>5. ASSUME NEW p \in Proc, CreateLock(p) PROVE CallInv'
  BY <1>5 DEF CreateLock, history, TypeOK
<1>6. ASSUME NEW p \in Proc, FindLock(p) PROVE CallInv'
  BY <1>6 DEF FindLock, history, TypeOK
<1>7. ASSUME NEW p \in Proc, LockFails(p) PROVE CallInv'
  BY <1>7 DEF LockFails, Bypass, history, TypeOK
<1>8. ASSUME NEW p \in Proc, Inspect(p) PROVE CallInv'
  BY <1>8 DEF Inspect, history, TypeOK
<1>9. ASSUME NEW p \in Proc, ReclaimLock(p) PROVE CallInv'
  BY <1>9 DEF ReclaimLock, history, TypeOK
<1>9a. ASSUME NEW p \in Proc, ReclaimFails(p) PROVE CallInv'
  BY <1>9a DEF ReclaimFails, history, TypeOK
<1>10. ASSUME NEW p \in Proc, GiveUp(p) PROVE CallInv'
  BY <1>10 DEF GiveUp, Bypass, history, TypeOK
<1>11. ASSUME NEW p \in Proc, FallAsleep(p) PROVE CallInv'
  BY <1>11 DEF FallAsleep, history, TypeOK
<1>12. ASSUME NEW p \in Proc, WakeUp(p) PROVE CallInv'
  BY <1>12 DEF WakeUp, history, TypeOK
<1>13. ASSUME NEW p \in Proc, ReuseRefreshed(p) PROVE CallInv'
  BY <1>13 DEF ReuseRefreshed, history, TypeOK
<1>14. ASSUME NEW p \in Proc, SendRefresh(p) PROVE CallInv'
  BY <1>14 DEF SendRefresh, history, TypeOK
<1>15. ASSUME NEW p \in Proc, Grant(p) PROVE CallInv'
  BY <1>15 DEF Grant, history, TypeOK
<1>16. ASSUME NEW p \in Proc, Reject(p) PROVE CallInv'
  BY <1>16 DEF Reject, history, TypeOK
<1>17. ASSUME NEW p \in Proc, ReceivePair(p) PROVE CallInv'
  BY <1>17 DEF ReceivePair, history, TypeOK
<1>18. ASSUME NEW p \in Proc, ReceiveRefusal(p) PROVE CallInv'
  BY <1>18 DEF ReceiveRefusal, history, TypeOK
<1>19. ASSUME NEW p \in Proc, CallFails(p) PROVE CallInv'
  BY <1>19 DEF CallFails, history, TypeOK
<1>20. ASSUME NEW p \in Proc, SaveKeyring(p) PROVE CallInv'
  BY <1>20 DEF SaveKeyring, history, TypeOK
<1>21. ASSUME NEW p \in Proc, LoadFile(p) PROVE CallInv'
  BY <1>21 DEF LoadFile, history, TypeOK
<1>22. ASSUME NEW p \in Proc, WriteFile(p) PROVE CallInv'
  BY <1>22 DEF WriteFile, history, TypeOK
<1>23. ASSUME NEW p \in Proc, SaveFails(p) PROVE CallInv'
  BY <1>23 DEF SaveFails, history, TypeOK
<1>24. ASSUME NEW p \in Proc, Release(p) PROVE CallInv'
  BY <1>24 DEF Release, Forget, history, TypeOK
<1>24a. ASSUME NEW p \in Proc, ReleaseFails(p) PROVE CallInv'
  BY <1>24a DEF ReleaseFails, Forget, history, TypeOK
<1>25. ASSUME NEW p \in Proc, Crash(p) PROVE CallInv'
  BY <1>25 DEF Crash, Forget, history, TypeOK
<1>26. ASSUME NEW s \in Site, Lapse(s) PROVE CallInv'
  BY <1>26 DEF Lapse, history, TypeOK
<1>27. ASSUME Tick PROVE CallInv'
  BY <1>27 DEF Tick, Blocked, TypeOK
<1>28. CASE UNCHANGED vars
  BY <1>28 DEF vars, history, TypeOK
<1>29. QED
  BY <1>1, <1>2, <1>3, <1>4, <1>5, <1>6, <1>7, <1>8, <1>9, <1>9a, <1>10, <1>11,
     <1>12, <1>13, <1>14, <1>15, <1>16, <1>17, <1>18, <1>19, <1>20, <1>21,
     <1>22, <1>23, <1>24, <1>24a, <1>25, <1>26, <1>27, <1>28
     DEF Next, Step

\* The staleness invariant survives every step.
LEMMA AgeStep ==
  TypeOK /\ LockInv /\ CallInv /\ AgeInv /\ [Next]_vars => AgeInv'
<1> SUFFICES ASSUME TypeOK, LockInv, CallInv, AgeInv, [Next]_vars PROVE AgeInv'
  OBVIOUS
<1> USE DEF AgeInv, Goto, Return
<1>1. ASSUME NEW p \in Proc, NEW s \in Site, StartRun(p, s) PROVE AgeInv'
  BY <1>1 DEF StartRun, history, call, CallInv, TypeOK, Lock
<1>2. ASSUME NEW p \in Proc, FastPath(p) PROVE AgeInv'
  BY <1>2 DEF FastPath, history, call, CallInv, TypeOK, Lock
<1>3. ASSUME NEW p \in Proc, NeedRefresh(p) PROVE AgeInv'
  BY <1>3 DEF NeedRefresh, history, call, CallInv, TypeOK, Lock
<1>4. ASSUME NEW p \in Proc, ReadFails(p) PROVE AgeInv'
  BY <1>4 DEF ReadFails, history, call, CallInv, TypeOK, Lock
<1>5. ASSUME NEW p \in Proc, CreateLock(p) PROVE AgeInv'
  <2>1. /\ lock'.held /\ lock'.owner = p /\ lock'.age = 0 /\ UNCHANGED <<leftover, raced>>
        /\ locked' = [locked EXCEPT ![p] = TRUE] /\ pc' = [pc EXCEPT ![p] = "reread"]
    BY <1>5 DEF CreateLock, history
  <2>2. QED
    BY <2>1, ConstantsAssumption DEF TypeOK
<1>6. ASSUME NEW p \in Proc, FindLock(p) PROVE AgeInv'
  BY <1>6 DEF FindLock, history, call, CallInv, TypeOK, Lock
<1>7. ASSUME NEW p \in Proc, LockFails(p) PROVE AgeInv'
  <2>1. /\ UNCHANGED <<locked, lock, leftover, raced, callAge>>
        /\ pc[p] = "acquire" /\ pc' = [pc EXCEPT ![p] = "reread"]
    BY <1>7 DEF LockFails, Bypass, history, call
  <2>2. ~locked[p]
    BY <2>1 DEF LockInv, Critical
  <2>3. QED
    BY <2>1, <2>2, ConstantsAssumption DEF TypeOK, Lock
<1>8. ASSUME NEW p \in Proc, Inspect(p) PROVE AgeInv'
  <2>1. ASSUME ~leftover, lock.held PROVE ~(StaleIn < 0)
    BY <2>1, ConstantsAssumption DEF StaleIn, TypeOK, Lock
  <2>2. /\ UNCHANGED <<locked, lock, leftover, raced, callAge>>
        /\ pc[p] = "held"
        /\ \/ pc' = [pc EXCEPT ![p] = "poll"]
           \/ lock.held /\ StaleIn < 0 /\ pc' = [pc EXCEPT ![p] = "reclaim"]
    BY <1>8 DEF Inspect, history, call
  <2>3. QED
    BY <2>1, <2>2 DEF TypeOK, Lock
<1>9. ASSUME NEW p \in Proc, ReclaimLock(p) PROVE AgeInv'
  <2>1. pc[p] = "reclaim" /\ leftover' = leftover
    BY <1>9 DEF ReclaimLock
  <2>2. QED
    BY <2>1
<1>9a. ASSUME NEW p \in Proc, ReclaimFails(p) PROVE AgeInv'
  <2>1. pc[p] = "reclaim" /\ leftover' = leftover
    BY <1>9a DEF ReclaimFails, history
  <2>2. QED
    BY <2>1
<1>10. ASSUME NEW p \in Proc, GiveUp(p) PROVE AgeInv'
  <2>1. /\ UNCHANGED <<locked, lock, leftover, raced, callAge>>
        /\ pc[p] = "poll" /\ pc' = [pc EXCEPT ![p] = "reread"]
    BY <1>10 DEF GiveUp, Bypass, history, call
  <2>2. ~locked[p]
    BY <2>1 DEF LockInv, Critical
  <2>3. QED
    BY <2>1, <2>2, ConstantsAssumption DEF TypeOK, Lock
<1>11. ASSUME NEW p \in Proc, FallAsleep(p) PROVE AgeInv'
  BY <1>11 DEF FallAsleep, history, call, CallInv, TypeOK, Lock
<1>12. ASSUME NEW p \in Proc, WakeUp(p) PROVE AgeInv'
  BY <1>12 DEF WakeUp, history, call, CallInv, TypeOK, Lock
<1>13. ASSUME NEW p \in Proc, ReuseRefreshed(p) PROVE AgeInv'
  <2>1. /\ UNCHANGED <<locked, lock, leftover, raced, callAge>>
        /\ pc[p] = "reread" /\ pc' = [pc EXCEPT ![p] = "release"]
    BY <1>13 DEF ReuseRefreshed, history, call
  <2>2. QED
    BY <2>1, ConstantsAssumption DEF TypeOK, Lock
<1>14. ASSUME NEW p \in Proc, SendRefresh(p) PROVE AgeInv'
  <2>1. /\ UNCHANGED <<locked, lock, leftover, raced, callAge>>
        /\ pc[p] = "reread" /\ pc' = [pc EXCEPT ![p] = "sent"]
    BY <1>14 DEF SendRefresh, history, call
  <2>2. callAge[p] = 0
    BY <2>1 DEF CallInv
  <2>3. QED
    BY <2>1, <2>2, ConstantsAssumption DEF TypeOK, Lock
<1>15. ASSUME NEW p \in Proc, Grant(p) PROVE AgeInv'
  BY <1>15 DEF Grant, history, call, CallInv, TypeOK, Lock
<1>16. ASSUME NEW p \in Proc, Reject(p) PROVE AgeInv'
  BY <1>16 DEF Reject, history, call, CallInv, TypeOK, Lock
<1>17. ASSUME NEW p \in Proc, ReceivePair(p) PROVE AgeInv'
  BY <1>17 DEF ReceivePair, history, call, CallInv, TypeOK, Lock
<1>18. ASSUME NEW p \in Proc, ReceiveRefusal(p) PROVE AgeInv'
  BY <1>18 DEF ReceiveRefusal, history, call, CallInv, TypeOK, Lock
<1>19. ASSUME NEW p \in Proc, CallFails(p) PROVE AgeInv'
  BY <1>19 DEF CallFails, history, call, CallInv, TypeOK, Lock
<1>20. ASSUME NEW p \in Proc, SaveKeyring(p) PROVE AgeInv'
  BY <1>20 DEF SaveKeyring, history, call, CallInv, TypeOK, Lock
<1>21. ASSUME NEW p \in Proc, LoadFile(p) PROVE AgeInv'
  BY <1>21 DEF LoadFile, history, call, CallInv, TypeOK, Lock
<1>22. ASSUME NEW p \in Proc, WriteFile(p) PROVE AgeInv'
  BY <1>22 DEF WriteFile, history, call, CallInv, TypeOK, Lock
<1>23. ASSUME NEW p \in Proc, SaveFails(p) PROVE AgeInv'
  BY <1>23 DEF SaveFails, history, call, CallInv, TypeOK, Lock
<1>24. ASSUME NEW p \in Proc, Release(p) PROVE AgeInv'
  <2>1. /\ pc[p] = "release" /\ pc' = [pc EXCEPT ![p] = "idle"]
        /\ locked' = [locked EXCEPT ![p] = FALSE] /\ UNCHANGED leftover
        /\ raced' = (raced \/ (locked[p] /\ RobsHolder(p)))
    BY <1>24 DEF Release
  <2>2. CASE locked[p]
    <3>1. ~lock'.held
      BY <1>24, <2>2 DEF Release, Unlocked
    <3>2. ~leftover => ~raced'
      BY <2>1, <2>2 DEF LockInv, RobsHolder
    <3>3. QED
      BY <2>1, <3>1, <3>2 DEF TypeOK
  <2>3. CASE ~locked[p]
    <3>1. lock' = lock /\ raced' = raced
      <4>1. lock' = lock
        BY <1>24, <2>3 DEF Release
      <4>2. raced' = raced
        BY <2>1, <2>3, Zenon DEF TypeOK
      <4>3. QED
        BY <4>1, <4>2
    <3>2. lock.held /\ ~leftover => lock.owner # p
      BY <2>3
    <3>3. lock.owner \in Proc
      BY DEF TypeOK, Lock
    <3>4. UNCHANGED callAge \/ callAge' = [callAge EXCEPT ![p] = 0]
      BY <1>24 DEF Release, Forget
    <3>5. QED
      BY <2>1, <3>1, <3>2, <3>3, <3>4 DEF TypeOK
  <2>4. QED
    BY <2>2, <2>3
<1>24a. ASSUME NEW p \in Proc, ReleaseFails(p) PROVE AgeInv'
  <2>1. leftover'
    BY <1>24a DEF ReleaseFails
  <2>2. QED
    BY <2>1
<1>25. ASSUME NEW p \in Proc, Crash(p) PROVE AgeInv'
  <2>1. /\ pc' = [pc EXCEPT ![p] = "idle"] /\ locked' = [locked EXCEPT ![p] = FALSE]
        /\ UNCHANGED <<lock, raced>> /\ callAge' = [callAge EXCEPT ![p] = 0]
        /\ leftover' = (leftover \/ locked[p])
    BY <1>25 DEF Crash, Forget
  <2>2. CASE locked[p]
    BY <2>1, <2>2
  <2>3. CASE ~locked[p]
    <3>1. lock.owner \in Proc /\ (~leftover /\ lock.held => lock.owner # p)
      BY <2>3 DEF TypeOK, Lock
    <3>2. ~leftover' => ~leftover
      BY <2>1
    <3>3. QED
      BY <2>1, <2>3, <3>1, <3>2 DEF TypeOK
  <2>4. QED
    BY <2>2, <2>3
<1>26. ASSUME NEW s \in Site, Lapse(s) PROVE AgeInv'
  BY <1>26 DEF Lapse, history, call, CallInv, TypeOK, Lock
<1>27. ASSUME Tick PROVE AgeInv'
  <2>1. /\ UNCHANGED <<pc, locked, leftover, raced>> /\ \A p \in Proc : Blocked(p)
        /\ lock'.held = lock.held /\ lock'.owner = lock.owner
        /\ lock'.age = IF lock.held /\ lock.age <= LockTimeout THEN lock.age + 1 ELSE lock.age
        /\ callAge' = [p \in Proc |-> IF pc[p] = "sent" THEN callAge[p] + 1 ELSE callAge[p]]
    <3>1. lock.held \in BOOLEAN /\ lock.age \in 0..LockTimeout + 1 /\ lock \in Lock
      BY DEF TypeOK, Lock
    <3>2. QED
      BY <1>27, <3>1 DEF Tick, history, Lock
  <2>2. ASSUME ~leftover, lock.held
        PROVE  pc[lock.owner] = "sent" /\ callAge[lock.owner] < RefreshTimeout
    <3>1. lock.owner \in Proc /\ locked[lock.owner]
      BY <2>2 DEF TypeOK, Lock
    <3>2. pc[lock.owner] \in {"reread", "sent", "save", "write", "release"}
      BY <3>1 DEF LockInv, Critical
    <3>3. Blocked(lock.owner)
      BY <2>1, <3>1
    <3>4. QED
      BY <3>2, <3>3 DEF Blocked
  <2>3. lock.owner \in Proc /\ lock.age \in Nat /\ callAge[lock.owner] \in Nat
    BY ConstantsAssumption DEF TypeOK, Lock
  <2>4. QED
    BY <2>1, <2>2, <2>3, ConstantsAssumption
<1>28. CASE UNCHANGED vars
  BY <1>28 DEF vars, history, call, CallInv, TypeOK, Lock
<1>29. QED
  BY <1>1, <1>2, <1>3, <1>4, <1>5, <1>6, <1>7, <1>8, <1>9, <1>9a, <1>10, <1>11,
     <1>12, <1>13, <1>14, <1>15, <1>16, <1>17, <1>18, <1>19, <1>20, <1>21,
     <1>22, <1>23, <1>24, <1>24a, <1>25, <1>26, <1>27, <1>28
     DEF Next, Step

\* A refresh that is slow but alive is never mistaken for a crashed run's leftover:
\* as long as no run left its lock file behind, by a crash or by a removal that failed, no
\* run loses its own to another one.
THEOREM SlowIsNotStale == Spec => []RaceNeedsLeftover
<1>1. Init => CallInv /\ AgeInv
  BY DEF Init, CallInv, AgeInv
<1>2. TypeOK /\ AgeInv => RaceNeedsLeftover
  BY ConstantsAssumption DEF TypeOK, AgeInv, RaceNeedsLeftover
<1>3. QED
  BY <1>1, <1>2, LockInvariant, CallStep, AgeStep, PTL DEF Spec

-----------------------------------------------------------------------------
(* The grant. Facts that need no lock first: what the locals of a run hold   *)
(* at each point, and that the client secret is never dropped.               *)

LocalsInv ==
  \A p \in Proc :
    /\ pc[p] \notin {"sent", "save", "write", "release"} => reply[p] = NoReply
    /\ pc[p] \in {"save", "write"} => reply[p].kind = "granted"
    /\ pc[p] \notin {"idle", "release"} => outcome[p] = "none"

SecretInv ==
  /\ \A s \in Site : stored[s].secret
  /\ \A p \in Proc : pc[p] \in {"sent", "save", "write"} => bundle[p].secret
  /\ \A p \in Proc, s \in Site : pc[p] = "write" => snap[p][s].secret

\* The locals and the secret are kept by every step.
LEMMA LocalsStep ==
  TypeOK /\ LocalsInv /\ SecretInv /\ [Next]_vars => LocalsInv' /\ SecretInv'
<1> SUFFICES ASSUME TypeOK, LocalsInv, SecretInv, [Next]_vars
             PROVE  LocalsInv' /\ SecretInv'
  OBVIOUS
<1> USE DEF LocalsInv, SecretInv, Goto, Return, call
<1>1. ASSUME NEW p \in Proc, NEW s \in Site, StartRun(p, s) PROVE LocalsInv' /\ SecretInv'
  BY <1>1 DEF StartRun, history, TypeOK
<1>2. ASSUME NEW p \in Proc, FastPath(p) PROVE LocalsInv' /\ SecretInv'
  <2>1. LocalsInv'
    BY <1>2 DEF FastPath, TypeOK
  <2>2. SecretInv'
    BY <1>2 DEF FastPath, TypeOK
  <2>3. QED
    BY <2>1, <2>2
<1>3. ASSUME NEW p \in Proc, NeedRefresh(p) PROVE LocalsInv' /\ SecretInv'
  <2>1. LocalsInv'
    BY <1>3 DEF NeedRefresh, TypeOK
  <2>2. SecretInv'
    BY <1>3 DEF NeedRefresh, TypeOK
  <2>3. QED
    BY <2>1, <2>2
<1>4. ASSUME NEW p \in Proc, ReadFails(p) PROVE LocalsInv' /\ SecretInv'
  <2>1. LocalsInv'
    BY <1>4 DEF ReadFails, TypeOK
  <2>2. SecretInv'
    BY <1>4 DEF ReadFails, TypeOK
  <2>3. QED
    BY <2>1, <2>2
<1>5. ASSUME NEW p \in Proc, CreateLock(p) PROVE LocalsInv' /\ SecretInv'
  <2>1. LocalsInv'
    BY <1>5 DEF CreateLock, TypeOK
  <2>2. SecretInv'
    BY <1>5 DEF CreateLock, TypeOK
  <2>3. QED
    BY <2>1, <2>2
<1>6. ASSUME NEW p \in Proc, FindLock(p) PROVE LocalsInv' /\ SecretInv'
  <2>1. LocalsInv'
    BY <1>6 DEF FindLock, TypeOK
  <2>2. SecretInv'
    BY <1>6 DEF FindLock, TypeOK
  <2>3. QED
    BY <2>1, <2>2
<1>7. ASSUME NEW p \in Proc, LockFails(p) PROVE LocalsInv' /\ SecretInv'
  <2>1. LocalsInv'
    BY <1>7 DEF LockFails, Bypass, TypeOK
  <2>2. SecretInv'
    BY <1>7 DEF LockFails, Bypass, TypeOK
  <2>3. QED
    BY <2>1, <2>2
<1>8. ASSUME NEW p \in Proc, Inspect(p) PROVE LocalsInv' /\ SecretInv'
  <2>1. /\ UNCHANGED <<outcome, reply, bundle, snap, stored>> /\ pc[p] = "held"
        /\ pc' = [pc EXCEPT ![p] = pc'[p]] /\ pc'[p] \in {"poll", "reclaim"}
    BY <1>8 DEF Inspect, TypeOK
  <2>2. LocalsInv'
    BY <2>1 DEF TypeOK
  <2>3. SecretInv'
    BY <2>1 DEF TypeOK
  <2>4. QED
    BY <2>2, <2>3
<1>9. ASSUME NEW p \in Proc, ReclaimLock(p) PROVE LocalsInv' /\ SecretInv'
  <2>1. LocalsInv'
    BY <1>9 DEF ReclaimLock, TypeOK
  <2>2. SecretInv'
    BY <1>9 DEF ReclaimLock, TypeOK
  <2>3. QED
    BY <2>1, <2>2
<1>9a. ASSUME NEW p \in Proc, ReclaimFails(p) PROVE LocalsInv' /\ SecretInv'
  <2>1. LocalsInv'
    BY <1>9a DEF ReclaimFails, TypeOK
  <2>2. SecretInv'
    BY <1>9a DEF ReclaimFails, TypeOK
  <2>3. QED
    BY <2>1, <2>2
<1>10. ASSUME NEW p \in Proc, GiveUp(p) PROVE LocalsInv' /\ SecretInv'
  <2>1. LocalsInv'
    BY <1>10 DEF GiveUp, Bypass, TypeOK
  <2>2. SecretInv'
    BY <1>10 DEF GiveUp, Bypass, TypeOK
  <2>3. QED
    BY <2>1, <2>2
<1>11. ASSUME NEW p \in Proc, FallAsleep(p) PROVE LocalsInv' /\ SecretInv'
  <2>1. LocalsInv'
    BY <1>11 DEF FallAsleep, TypeOK
  <2>2. SecretInv'
    BY <1>11 DEF FallAsleep, TypeOK
  <2>3. QED
    BY <2>1, <2>2
<1>12. ASSUME NEW p \in Proc, WakeUp(p) PROVE LocalsInv' /\ SecretInv'
  <2>1. LocalsInv'
    BY <1>12 DEF WakeUp, TypeOK
  <2>2. SecretInv'
    BY <1>12 DEF WakeUp, TypeOK
  <2>3. QED
    BY <2>1, <2>2
<1>13. ASSUME NEW p \in Proc, ReuseRefreshed(p) PROVE LocalsInv' /\ SecretInv'
  <2>1. LocalsInv'
    BY <1>13 DEF ReuseRefreshed, UnderLock, TypeOK
  <2>2. SecretInv'
    BY <1>13 DEF ReuseRefreshed, UnderLock, TypeOK
  <2>3. QED
    BY <2>1, <2>2
<1>14. ASSUME NEW p \in Proc, SendRefresh(p) PROVE LocalsInv' /\ SecretInv'
  <2>1. LocalsInv'
    BY <1>14 DEF SendRefresh, UnderLock, TypeOK
  <2>2. SecretInv'
    BY <1>14 DEF SendRefresh, UnderLock, TypeOK
  <2>3. QED
    BY <2>1, <2>2
<1>15. ASSUME NEW p \in Proc, Grant(p) PROVE LocalsInv' /\ SecretInv'
  <2>1. LocalsInv'
    BY <1>15 DEF Grant, NoReply, TypeOK
  <2>2. SecretInv'
    BY <1>15 DEF Grant, NoReply, TypeOK
  <2>3. QED
    BY <2>1, <2>2
<1>16. ASSUME NEW p \in Proc, Reject(p) PROVE LocalsInv' /\ SecretInv'
  <2>1. LocalsInv'
    BY <1>16 DEF Reject, NoReply, TypeOK
  <2>2. SecretInv'
    BY <1>16 DEF Reject, NoReply, TypeOK
  <2>3. QED
    BY <2>1, <2>2
<1>17. ASSUME NEW p \in Proc, ReceivePair(p) PROVE LocalsInv' /\ SecretInv'
  <2>1. LocalsInv'
    BY <1>17 DEF ReceivePair, Refreshed, NoReply, TypeOK
  <2>2. SecretInv'
    BY <1>17 DEF ReceivePair, Refreshed, NoReply, TypeOK
  <2>3. QED
    BY <2>1, <2>2
<1>18. ASSUME NEW p \in Proc, ReceiveRefusal(p) PROVE LocalsInv' /\ SecretInv'
  <2>1. LocalsInv'
    BY <1>18 DEF ReceiveRefusal, TypeOK
  <2>2. SecretInv'
    BY <1>18 DEF ReceiveRefusal, TypeOK
  <2>3. QED
    BY <2>1, <2>2
<1>19. ASSUME NEW p \in Proc, CallFails(p) PROVE LocalsInv' /\ SecretInv'
  <2>1. LocalsInv'
    BY <1>19 DEF CallFails, TypeOK
  <2>2. SecretInv'
    BY <1>19 DEF CallFails, TypeOK
  <2>3. QED
    BY <2>1, <2>2
<1>20. ASSUME NEW p \in Proc, SaveKeyring(p) PROVE LocalsInv' /\ SecretInv'
  <2>1. LocalsInv'
    BY <1>20 DEF SaveKeyring, TypeOK
  <2>2. SecretInv'
    BY <1>20 DEF SaveKeyring, TypeOK
  <2>3. QED
    BY <2>1, <2>2
<1>21. ASSUME NEW p \in Proc, LoadFile(p) PROVE LocalsInv' /\ SecretInv'
  <2>1. LocalsInv'
    BY <1>21 DEF LoadFile, TypeOK
  <2>2. SecretInv'
    BY <1>21 DEF LoadFile, TypeOK
  <2>3. QED
    BY <2>1, <2>2
<1>22. ASSUME NEW p \in Proc, WriteFile(p) PROVE LocalsInv' /\ SecretInv'
  <2>1. LocalsInv'
    BY <1>22 DEF WriteFile, TypeOK
  <2>2. SecretInv'
    BY <1>22 DEF WriteFile, TypeOK
  <2>3. QED
    BY <2>1, <2>2
<1>23. ASSUME NEW p \in Proc, SaveFails(p) PROVE LocalsInv' /\ SecretInv'
  <2>1. LocalsInv'
    BY <1>23 DEF SaveFails, TypeOK
  <2>2. SecretInv'
    BY <1>23 DEF SaveFails, TypeOK
  <2>3. QED
    BY <2>1, <2>2
<1>24. ASSUME NEW p \in Proc, Release(p) PROVE LocalsInv' /\ SecretInv'
  <2>1. LocalsInv'
    BY <1>24 DEF Release, Forget, TypeOK
  <2>2. SecretInv'
    BY <1>24 DEF Release, Forget, TypeOK
  <2>3. QED
    BY <2>1, <2>2
<1>24a. ASSUME NEW p \in Proc, ReleaseFails(p) PROVE LocalsInv' /\ SecretInv'
  <2>1. LocalsInv'
    BY <1>24a DEF ReleaseFails, Forget, TypeOK
  <2>2. SecretInv'
    BY <1>24a DEF ReleaseFails, Forget, TypeOK
  <2>3. QED
    BY <2>1, <2>2
<1>25. ASSUME NEW p \in Proc, Crash(p) PROVE LocalsInv' /\ SecretInv'
  <2>1. LocalsInv'
    BY <1>25 DEF Crash, Forget, TypeOK
  <2>2. SecretInv'
    BY <1>25 DEF Crash, Forget, TypeOK
  <2>3. QED
    BY <2>1, <2>2
<1>26. ASSUME NEW s \in Site, Lapse(s) PROVE LocalsInv' /\ SecretInv'
  BY <1>26 DEF Lapse, history, TypeOK
<1>27. ASSUME Tick PROVE LocalsInv' /\ SecretInv'
  BY <1>27 DEF Tick, history, TypeOK
<1>28. CASE UNCHANGED vars
  BY <1>28 DEF vars, history, TypeOK
<1>29. QED
  BY <1>1, <1>2, <1>3, <1>4, <1>5, <1>6, <1>7, <1>8, <1>9, <1>9a, <1>10, <1>11,
     <1>12, <1>13, <1>14, <1>15, <1>16, <1>17, <1>18, <1>19, <1>20, <1>21,
     <1>22, <1>23, <1>24, <1>24a, <1>25, <1>26, <1>27, <1>28
     DEF Next, Step

\* What run p knows while the lock is honoured: its bundle is the stored one until
\* the answer comes, and the answer, once there, is the service's latest.
RunInv(p) ==
  LET s == site[p] IN
  /\ pc[p] = "sent" => bundle[p] = stored[s] /\ Expired(stored[s], s)
  /\ pc[p] = "sent" /\ reply[p].kind = "granted" =>
       /\ reply[p].at = minted[s]
       /\ live[s] = IF reply[p].rt = 0 THEN bundle[p].rt ELSE reply[p].rt
  /\ pc[p] = "sent" /\ reply[p].kind = "rejected" => s \in dropped
  /\ pc[p] \in {"save", "write"} =>
       /\ bundle[p].at = minted[s] /\ bundle[p].rt = live[s]
       /\ reply[p].rt = 0 => stored[s].rt = live[s]
  /\ pc[p] = "write" => snap[p] = stored
  /\ outcome[p] = "reauth" => s \in dropped
  /\ outcome[p] = "ok" => bundle[p].at <= stored[s].at

SiteInv(s) ==
  /\ stored[s].at <= minted[s]
  /\ s \notin dropped => stored[s].rt = live[s] \/ \E p \in Proc : Carries(p, s)

GrantSafe == (\A p \in Proc : RunInv(p)) /\ (\A s \in Site : SiteInv(s))

GrantInv == Honoured => GrantSafe

\* A lock once not honoured stays so in the books.
LEMMA HonouredStep == TypeOK /\ [Next]_vars /\ Honoured' => Honoured
<1> SUFFICES ASSUME TypeOK, [Next]_vars, ~Honoured PROVE ~Honoured'
  OBVIOUS
<1> USE DEF Honoured
<1>1. ASSUME NEW p \in Proc, NEW s \in Site, StartRun(p, s) PROVE ~Honoured'
  BY <1>1 DEF StartRun, history, TypeOK
<1>2. ASSUME NEW p \in Proc, FastPath(p) PROVE ~Honoured'
  BY <1>2 DEF FastPath, history, TypeOK
<1>3. ASSUME NEW p \in Proc, NeedRefresh(p) PROVE ~Honoured'
  BY <1>3 DEF NeedRefresh, history, TypeOK
<1>4. ASSUME NEW p \in Proc, ReadFails(p) PROVE ~Honoured'
  BY <1>4 DEF ReadFails, history, TypeOK
<1>5. ASSUME NEW p \in Proc, CreateLock(p) PROVE ~Honoured'
  BY <1>5 DEF CreateLock, history, TypeOK
<1>6. ASSUME NEW p \in Proc, FindLock(p) PROVE ~Honoured'
  BY <1>6 DEF FindLock, history, TypeOK
<1>7. ASSUME NEW p \in Proc, LockFails(p) PROVE ~Honoured'
  BY <1>7 DEF LockFails, Bypass, history, TypeOK
<1>8. ASSUME NEW p \in Proc, Inspect(p) PROVE ~Honoured'
  BY <1>8 DEF Inspect, history, TypeOK
<1>9. ASSUME NEW p \in Proc, ReclaimLock(p) PROVE ~Honoured'
  BY <1>9 DEF ReclaimLock, history, TypeOK
<1>9a. ASSUME NEW p \in Proc, ReclaimFails(p) PROVE ~Honoured'
  BY <1>9a DEF ReclaimFails, history, TypeOK
<1>10. ASSUME NEW p \in Proc, GiveUp(p) PROVE ~Honoured'
  BY <1>10 DEF GiveUp, Bypass, history, TypeOK
<1>11. ASSUME NEW p \in Proc, FallAsleep(p) PROVE ~Honoured'
  BY <1>11 DEF FallAsleep, history, TypeOK
<1>12. ASSUME NEW p \in Proc, WakeUp(p) PROVE ~Honoured'
  BY <1>12 DEF WakeUp, history, TypeOK
<1>13. ASSUME NEW p \in Proc, ReuseRefreshed(p) PROVE ~Honoured'
  BY <1>13 DEF ReuseRefreshed, history, TypeOK
<1>14. ASSUME NEW p \in Proc, SendRefresh(p) PROVE ~Honoured'
  BY <1>14 DEF SendRefresh, history, TypeOK
<1>15. ASSUME NEW p \in Proc, Grant(p) PROVE ~Honoured'
  BY <1>15 DEF Grant, history, TypeOK
<1>16. ASSUME NEW p \in Proc, Reject(p) PROVE ~Honoured'
  BY <1>16 DEF Reject, history, TypeOK
<1>17. ASSUME NEW p \in Proc, ReceivePair(p) PROVE ~Honoured'
  BY <1>17 DEF ReceivePair, history, TypeOK
<1>18. ASSUME NEW p \in Proc, ReceiveRefusal(p) PROVE ~Honoured'
  BY <1>18 DEF ReceiveRefusal, history, TypeOK
<1>19. ASSUME NEW p \in Proc, CallFails(p) PROVE ~Honoured'
  BY <1>19 DEF CallFails, history, TypeOK
<1>20. ASSUME NEW p \in Proc, SaveKeyring(p) PROVE ~Honoured'
  BY <1>20 DEF SaveKeyring, history, TypeOK
<1>21. ASSUME NEW p \in Proc, LoadFile(p) PROVE ~Honoured'
  BY <1>21 DEF LoadFile, history, TypeOK
<1>22. ASSUME NEW p \in Proc, WriteFile(p) PROVE ~Honoured'
  BY <1>22 DEF WriteFile, history, TypeOK
<1>23. ASSUME NEW p \in Proc, SaveFails(p) PROVE ~Honoured'
  BY <1>23 DEF SaveFails, history, TypeOK
<1>24. ASSUME NEW p \in Proc, Release(p) PROVE ~Honoured'
  BY <1>24 DEF Release, history, TypeOK
<1>24a. ASSUME NEW p \in Proc, ReleaseFails(p) PROVE ~Honoured'
  BY <1>24a DEF ReleaseFails, history, TypeOK
<1>25. ASSUME NEW p \in Proc, Crash(p) PROVE ~Honoured'
  BY <1>25 DEF Crash, history, TypeOK
<1>26. ASSUME NEW s \in Site, Lapse(s) PROVE ~Honoured'
  BY <1>26 DEF Lapse, history, TypeOK
<1>27. ASSUME Tick PROVE ~Honoured'
  BY <1>27 DEF Tick, history, TypeOK
<1>28. CASE UNCHANGED vars
  BY <1>28 DEF vars, history, TypeOK
<1>29. QED
  BY <1>1, <1>2, <1>3, <1>4, <1>5, <1>6, <1>7, <1>8, <1>9, <1>9a, <1>10, <1>11,
     <1>12, <1>13, <1>14, <1>15, <1>16, <1>17, <1>18, <1>19, <1>20, <1>21,
     <1>22, <1>23, <1>24, <1>24a, <1>25, <1>26, <1>27, <1>28
     DEF Next, Step

\* While the lock is honoured, every step keeps the grant safe.
LEMMA GrantStep ==
  /\ TypeOK /\ LockInv /\ LocalsInv /\ SecretInv /\ GrantInv
  /\ [Next]_vars
  => GrantInv'
<1> SUFFICES ASSUME TypeOK, LockInv, LocalsInv, SecretInv, GrantSafe, Honoured,
                    [Next]_vars
             PROVE  GrantSafe'
  BY HonouredStep DEF GrantInv
<1>0. \A p, q \in Proc : pc[p] \in Critical /\ pc[q] \in Critical => p = q
  BY LockExcludes DEF OneRefresher
<1> USE DEF Goto, Return, call, service
<1>1. ASSUME NEW p \in Proc, NEW s \in Site, StartRun(p, s) PROVE GrantSafe'
  <2>1. \A q \in Proc : RunInv(q)'
    BY <1>1 DEF StartRun, GrantSafe, RunInv, SiteInv, Expired, LocalsInv, history, TypeOK
  <2>2. \A t \in Site : SiteInv(t)'
    BY <1>1 DEF StartRun, GrantSafe, RunInv, SiteInv, Carries, Rotates, LocalsInv, history, TypeOK
  <2>3. QED
    BY <2>1, <2>2 DEF GrantSafe
<1>2. ASSUME NEW p \in Proc, FastPath(p) PROVE GrantSafe'
  <2>1. /\ pc[p] = "read" /\ pc' = [pc EXCEPT ![p] = "idle"]
        /\ bundle' = [bundle EXCEPT ![p] = stored[site[p]]]
        /\ outcome' = [outcome EXCEPT ![p] = "ok"]
        /\ UNCHANGED <<site, reply, snap, stored, minted, live, lapsed, dropped>>
    BY <1>2 DEF FastPath, history
  <2>2. \A q \in Proc, s \in Site : Carries(q, s) => Carries(q, s)'
    BY <2>1 DEF Carries, TypeOK
  <2>3. \A q \in Proc : RunInv(q)'
    BY <2>1, ConstantsAssumption DEF GrantSafe, RunInv, Expired, TypeOK, Bundle, Issue
  <2>4. QED
    BY <2>1, <2>2, <2>3 DEF GrantSafe, SiteInv
<1>3. ASSUME NEW p \in Proc, NeedRefresh(p) PROVE GrantSafe'
  <2>1. \A q \in Proc : RunInv(q)'
    BY <1>3 DEF NeedRefresh, GrantSafe, RunInv, SiteInv, Expired, LocalsInv, history, TypeOK
  <2>2. \A s \in Site : SiteInv(s)'
    BY <1>3 DEF NeedRefresh, GrantSafe, RunInv, SiteInv, Carries, Rotates, LocalsInv, history, TypeOK
  <2>3. QED
    BY <2>1, <2>2 DEF GrantSafe
<1>4. ASSUME NEW p \in Proc, ReadFails(p) PROVE GrantSafe'
  <2>1. /\ pc[p] \in {"read", "reread"} /\ pc' = [pc EXCEPT ![p] = pc'[p]]
        /\ pc'[p] \in {"idle", "release"} /\ outcome' = [outcome EXCEPT ![p] = "failed"]
        /\ UNCHANGED <<site, bundle, reply, snap, stored, minted, live, lapsed, dropped>>
    BY <1>4 DEF ReadFails, history, TypeOK
  <2>2. \A q \in Proc, s \in Site : Carries(q, s) => Carries(q, s)'
    BY <2>1 DEF Carries, TypeOK
  <2>3. \A q \in Proc : RunInv(q)'
    BY <2>1 DEF GrantSafe, RunInv, Expired, TypeOK
  <2>4. QED
    BY <2>1, <2>2, <2>3 DEF GrantSafe, SiteInv
<1>5. ASSUME NEW p \in Proc, CreateLock(p) PROVE GrantSafe'
  <2>1. \A q \in Proc : RunInv(q)'
    BY <1>5 DEF CreateLock, GrantSafe, RunInv, SiteInv, Expired, LocalsInv, history, TypeOK
  <2>2. \A s \in Site : SiteInv(s)'
    BY <1>5 DEF CreateLock, GrantSafe, RunInv, SiteInv, Carries, Rotates, LocalsInv, history, TypeOK
  <2>3. QED
    BY <2>1, <2>2 DEF GrantSafe
<1>6. ASSUME NEW p \in Proc, FindLock(p) PROVE GrantSafe'
  <2>1. \A q \in Proc : RunInv(q)'
    BY <1>6 DEF FindLock, GrantSafe, RunInv, SiteInv, Expired, LocalsInv, history, TypeOK
  <2>2. \A s \in Site : SiteInv(s)'
    BY <1>6 DEF FindLock, GrantSafe, RunInv, SiteInv, Carries, Rotates, LocalsInv, history, TypeOK
  <2>3. QED
    BY <2>1, <2>2 DEF GrantSafe
<1>7. ASSUME NEW p \in Proc, LockFails(p) PROVE GrantSafe'
  <2>1. \A q \in Proc : RunInv(q)'
    BY <1>7 DEF LockFails, Bypass, GrantSafe, RunInv, SiteInv, Expired, LocalsInv, history, TypeOK
  <2>2. \A s \in Site : SiteInv(s)'
    BY <1>7 DEF LockFails, Bypass, GrantSafe, RunInv, SiteInv, Carries, Rotates, LocalsInv, history, TypeOK
  <2>3. QED
    BY <2>1, <2>2 DEF GrantSafe
<1>8. ASSUME NEW p \in Proc, Inspect(p) PROVE GrantSafe'
  <2>1. \A q \in Proc : RunInv(q)'
    BY <1>8 DEF Inspect, GrantSafe, RunInv, SiteInv, Expired, LocalsInv, history, TypeOK
  <2>2. \A s \in Site : SiteInv(s)'
    BY <1>8 DEF Inspect, GrantSafe, RunInv, SiteInv, Carries, Rotates, LocalsInv, history, TypeOK
  <2>3. QED
    BY <2>1, <2>2 DEF GrantSafe
<1>9. ASSUME NEW p \in Proc, ReclaimLock(p) PROVE GrantSafe'
  <2>1. /\ pc[p] = "reclaim" /\ pc' = [pc EXCEPT ![p] = "acquire"]
        /\ UNCHANGED <<site, outcome, bundle, reply, snap, stored, minted, live, lapsed,
                       dropped>>
    BY <1>9 DEF ReclaimLock
  <2>2. \A q \in Proc, s \in Site : Carries(q, s) => Carries(q, s)'
    BY <2>1 DEF Carries, TypeOK
  <2>3. \A q \in Proc : RunInv(q)'
    BY <2>1 DEF GrantSafe, RunInv, Expired, TypeOK
  <2>4. QED
    BY <2>1, <2>2, <2>3 DEF GrantSafe, SiteInv
<1>9a. ASSUME NEW p \in Proc, ReclaimFails(p) PROVE GrantSafe'
  <2>1. /\ pc[p] = "reclaim" /\ pc' = [pc EXCEPT ![p] = "acquire"]
        /\ UNCHANGED <<site, outcome, bundle, reply, snap, stored, minted, live, lapsed,
                       dropped>>
    BY <1>9a DEF ReclaimFails, history
  <2>2. \A q \in Proc, s \in Site : Carries(q, s) => Carries(q, s)'
    BY <2>1 DEF Carries, TypeOK
  <2>3. \A q \in Proc : RunInv(q)'
    BY <2>1 DEF GrantSafe, RunInv, Expired, TypeOK
  <2>4. QED
    BY <2>1, <2>2, <2>3 DEF GrantSafe, SiteInv
<1>10. ASSUME NEW p \in Proc, GiveUp(p) PROVE GrantSafe'
  <2>1. \A q \in Proc : RunInv(q)'
    BY <1>10 DEF GiveUp, Bypass, GrantSafe, RunInv, SiteInv, Expired, LocalsInv, history, TypeOK
  <2>2. \A s \in Site : SiteInv(s)'
    BY <1>10 DEF GiveUp, Bypass, GrantSafe, RunInv, SiteInv, Carries, Rotates, LocalsInv, history, TypeOK
  <2>3. QED
    BY <2>1, <2>2 DEF GrantSafe
<1>11. ASSUME NEW p \in Proc, FallAsleep(p) PROVE GrantSafe'
  <2>1. \A q \in Proc : RunInv(q)'
    BY <1>11 DEF FallAsleep, GrantSafe, RunInv, SiteInv, Expired, LocalsInv, history, TypeOK
  <2>2. \A s \in Site : SiteInv(s)'
    BY <1>11 DEF FallAsleep, GrantSafe, RunInv, SiteInv, Carries, Rotates, LocalsInv, history, TypeOK
  <2>3. QED
    BY <2>1, <2>2 DEF GrantSafe
<1>12. ASSUME NEW p \in Proc, WakeUp(p) PROVE GrantSafe'
  <2>1. \A q \in Proc : RunInv(q)'
    BY <1>12 DEF WakeUp, GrantSafe, RunInv, SiteInv, Expired, LocalsInv, history, TypeOK
  <2>2. \A s \in Site : SiteInv(s)'
    BY <1>12 DEF WakeUp, GrantSafe, RunInv, SiteInv, Carries, Rotates, LocalsInv, history, TypeOK
  <2>3. QED
    BY <2>1, <2>2 DEF GrantSafe
<1>13. ASSUME NEW p \in Proc, ReuseRefreshed(p) PROVE GrantSafe'
  <2>1. /\ pc[p] = "reread" /\ pc' = [pc EXCEPT ![p] = "release"]
        /\ bundle' = [bundle EXCEPT ![p] = stored[site[p]]]
        /\ outcome' = [outcome EXCEPT ![p] = "ok"]
        /\ UNCHANGED <<site, reply, snap, stored, minted, live, lapsed, dropped>>
    BY <1>13 DEF ReuseRefreshed, UnderLock, history
  <2>2. \A q \in Proc, s \in Site : Carries(q, s) => Carries(q, s)'
    BY <2>1 DEF Carries, TypeOK
  <2>3. \A q \in Proc : RunInv(q)'
    BY <2>1, ConstantsAssumption DEF GrantSafe, RunInv, Expired, TypeOK, Bundle, Issue
  <2>4. QED
    BY <2>1, <2>2, <2>3 DEF GrantSafe, SiteInv
<1>14. ASSUME NEW p \in Proc, SendRefresh(p) PROVE GrantSafe'
  <2>1. /\ pc[p] = "reread" /\ pc' = [pc EXCEPT ![p] = "sent"]
        /\ bundle' = [bundle EXCEPT ![p] = stored[site[p]]]
        /\ Expired(stored[site[p]], site[p])
        /\ UNCHANGED <<site, outcome, reply, snap, stored, minted, live, lapsed, dropped>>
    BY <1>14 DEF SendRefresh, UnderLock, history
  <2>2. \A q \in Proc, s \in Site : Carries(q, s) => Carries(q, s)'
    BY <2>1 DEF Carries, TypeOK
  <2>3. reply[p].kind = "none" /\ outcome[p] = "none"
    BY <2>1 DEF LocalsInv, NoReply
  <2>4. \A q \in Proc : RunInv(q)'
    BY <2>1, <2>3 DEF GrantSafe, RunInv, Expired, TypeOK
  <2>5. QED
    BY <2>1, <2>2, <2>4 DEF GrantSafe, SiteInv
<1>15. ASSUME NEW p \in Proc, Grant(p) PROVE GrantSafe'
  <2>0. \A q \in Proc, s \in Site : Carries(q, s) => q = p /\ s = site[p]
    BY <1>15, <1>0 DEF Grant, Carries, Critical
  <2>1. PICK r \in {0, minted[site[p]] + 1} :
          /\ reply' = [reply EXCEPT ![p] =
               [kind |-> "granted", at |-> minted[site[p]] + 1, rt |-> r]]
          /\ live' = [live EXCEPT ![site[p]] = IF r = 0 THEN live[site[p]]
                                               ELSE minted[site[p]] + 1]
    BY <1>15, Zenon DEF Grant
  <2>2. /\ pc[p] = "sent" /\ reply[p] = NoReply /\ bundle[p].rt = live[site[p]]
        /\ minted' = [minted EXCEPT ![site[p]] = minted[site[p]] + 1]
        /\ UNCHANGED <<pc, site, outcome, bundle, snap, stored, lapsed, dropped>>
    BY <1>15 DEF Grant, Accepts, history
  <2>3. \A q \in Proc : RunInv(q)'
    BY <1>15, <1>0 DEF Grant, Accepts, GrantSafe, RunInv, SiteInv, Expired, LocalsInv,
                   history, TypeOK, Critical
  <2>4. ASSUME NEW s \in Site, s # site[p] PROVE SiteInv(s)'
    BY <2>0, <2>1, <2>2, <2>4 DEF GrantSafe, SiteInv, TypeOK
  <2>5. SiteInv(site[p])'
    <3>1. stored[site[p]].at <= minted[site[p]] + 1
      BY ConstantsAssumption DEF GrantSafe, SiteInv, TypeOK, Bundle, Issue
    <3>2. minted'[site[p]] = minted[site[p]] + 1 /\ site[p] \in Site
      BY <2>2 DEF TypeOK
    <3>3. CASE r = 0
      <4>1. bundle[p] = stored[site[p]]
        BY <2>2 DEF GrantSafe, RunInv
      <4>2. live' = live
        BY <2>1, <3>3 DEF TypeOK
      <4>3. QED
        BY <2>2, <3>1, <3>2, <4>1, <4>2 DEF SiteInv
    <3>4. CASE r # 0
      <4>1. reply'[p].kind = "granted" /\ reply'[p].rt = r /\ live'[site[p]] = r
        BY <2>1, <3>4 DEF TypeOK
      <4>2. Carries(p, site[p])'
        BY <2>2, <3>4, <4>1 DEF Carries, Rotates
      <4>3. QED
        BY <2>2, <3>1, <3>2, <4>2 DEF SiteInv
    <3>5. QED
      BY <3>3, <3>4
  <2>6. QED
    BY <2>2, <2>3, <2>4, <2>5 DEF GrantSafe
<1>16. ASSUME NEW p \in Proc, Reject(p) PROVE GrantSafe'
  <2>0. \A q \in Proc, s \in Site : Carries(q, s) => q = p /\ s = site[p]
    BY <1>16, <1>0 DEF Reject, Carries, Critical
  <2>1. /\ pc[p] = "sent" /\ reply[p] = NoReply /\ ~Accepts(bundle[p], site[p])
        /\ reply' = [reply EXCEPT ![p] = [kind |-> "rejected", at |-> 0, rt |-> 0]]
        /\ UNCHANGED <<pc, site, outcome, bundle, snap, stored, minted, live, lapsed,
                       dropped>>
    BY <1>16 DEF Reject, history
  <2>2. ~Carries(p, site[p])
    BY <2>1 DEF Carries, Rotates, NoReply
  <2>3. site[p] \in dropped
    <3>1. bundle[p] = stored[site[p]] /\ bundle[p].secret
      BY <2>1 DEF GrantSafe, RunInv, SecretInv
    <3>2. stored[site[p]].rt # live[site[p]]
      BY <2>1, <3>1 DEF Accepts
    <3>3. site[p] \in Site
      BY DEF TypeOK
    <3>4. QED
      BY <2>0, <2>2, <3>2, <3>3 DEF GrantSafe, SiteInv
  <2>4. \A q \in Proc : RunInv(q)'
    BY <2>1, <2>3 DEF GrantSafe, RunInv, Expired, TypeOK
  <2>5. \A s \in Site : SiteInv(s)'
    BY <2>0, <2>1, <2>2 DEF GrantSafe, SiteInv
  <2>6. QED
    BY <2>4, <2>5 DEF GrantSafe
<1>17. ASSUME NEW p \in Proc, ReceivePair(p) PROVE GrantSafe'
  <2>0. \A q \in Proc, s \in Site : Carries(q, s) => q = p /\ s = site[p]
    BY <1>17, <1>0 DEF ReceivePair, Carries, Critical
  <2>1. /\ pc[p] = "sent" /\ pc' = [pc EXCEPT ![p] = "save"] /\ reply[p].kind = "granted"
        /\ bundle' = [bundle EXCEPT ![p] = Refreshed(bundle[p], reply[p])]
        /\ UNCHANGED <<site, outcome, reply, snap, stored, minted, live, lapsed, dropped>>
    BY <1>17 DEF ReceivePair, history
  <2>2. /\ bundle[p] = stored[site[p]] /\ bundle[p].secret /\ outcome[p] = "none"
        /\ reply[p].at = minted[site[p]]
        /\ live[site[p]] = IF reply[p].rt = 0 THEN bundle[p].rt ELSE reply[p].rt
    BY <2>1 DEF GrantSafe, RunInv, SecretInv, LocalsInv
  <2>3. /\ bundle'[p].at = minted[site[p]] /\ bundle'[p].rt = live[site[p]]
        /\ bundle'[p].secret = bundle[p].secret
        /\ reply[p].rt = 0 => stored[site[p]].rt = live[site[p]]
    BY <2>1, <2>2 DEF Refreshed, TypeOK
  <2>4. RunInv(p)'
    BY <2>1, <2>2, <2>3 DEF RunInv, TypeOK
  <2>5. ASSUME NEW q \in Proc, q # p PROVE RunInv(q)'
    BY <2>1, <2>5 DEF GrantSafe, RunInv, Expired, TypeOK
  <2>6. ASSUME NEW s \in Site, s = site[p] PROVE Carries(p, s)'
    <3>1. pc'[p] = "save" /\ site'[p] = s
      BY <2>1, <2>6 DEF TypeOK
    <3>2. bundle'[p].rt = live'[s]
      BY <2>1, <2>3, <2>6
    <3>3. bundle'[p].secret
      BY <2>2, <2>3, Zenon
    <3>4. QED
      BY <3>1, <3>2, <3>3, Zenon DEF Carries
  <2>7. \A s \in Site : SiteInv(s)'
    BY <2>0, <2>1, <2>6 DEF GrantSafe, SiteInv
  <2>8. QED
    BY <2>4, <2>5, <2>7 DEF GrantSafe
<1>18. ASSUME NEW p \in Proc, ReceiveRefusal(p) PROVE GrantSafe'
  <2>1. \A q \in Proc : RunInv(q)'
    BY <1>18, <1>0 DEF ReceiveRefusal, GrantSafe, RunInv, SiteInv, Expired, LocalsInv, history, TypeOK, Critical
  <2>2. \A s \in Site : SiteInv(s)'
    BY <1>18, <1>0 DEF ReceiveRefusal, GrantSafe, RunInv, SiteInv, Carries, Rotates, LocalsInv, history, TypeOK, Critical
  <2>3. QED
    BY <2>1, <2>2 DEF GrantSafe
<1>19. ASSUME NEW p \in Proc, CallFails(p) PROVE GrantSafe'
  <2>1. \A q \in Proc : RunInv(q)'
    BY <1>19, <1>0 DEF CallFails, GrantSafe, RunInv, SiteInv, Expired, LocalsInv, history, TypeOK, Critical
  <2>2. \A s \in Site : SiteInv(s)'
    BY <1>19, <1>0 DEF CallFails, GrantSafe, RunInv, SiteInv, Carries, Rotates, LocalsInv, history, TypeOK, Critical
  <2>3. QED
    BY <2>1, <2>2 DEF GrantSafe
<1>20. ASSUME NEW p \in Proc, SaveKeyring(p) PROVE GrantSafe'
  <2>0. \A q \in Proc, s \in Site : Carries(q, s) => q = p /\ s = site[p]
    BY <1>20, <1>0 DEF SaveKeyring, Carries, Critical
  <2>1. /\ pc[p] = "save" /\ pc' = [pc EXCEPT ![p] = "release"]
        /\ stored' = [stored EXCEPT ![site[p]] = bundle[p]]
        /\ outcome' = [outcome EXCEPT ![p] = "ok"]
        /\ UNCHANGED <<site, bundle, reply, snap, minted, live, lapsed, dropped>>
    BY <1>20 DEF SaveKeyring, history
  <2>2. /\ bundle[p].at = minted[site[p]] /\ bundle[p].rt = live[site[p]]
        /\ stored'[site[p]] = bundle[p]
    BY <2>1 DEF GrantSafe, RunInv, TypeOK
  <2>3. \A s \in Site : /\ s # site[p] => stored'[s] = stored[s]
                        /\ stored[s].at <= stored'[s].at
    BY <2>1, <2>2, ConstantsAssumption DEF GrantSafe, SiteInv, TypeOK, Bundle, Issue
  <2>4. \A q \in Proc : q # p => pc[q] \notin Critical
    BY <1>0, <2>1 DEF Critical
  <2>5. RunInv(p)'
    BY <2>1, <2>2, ConstantsAssumption DEF RunInv, TypeOK, Bundle, Issue
  <2>9. stored' \in [Site -> Bundle]
    BY TypeStep DEF TypeOK
  <2>6. ASSUME NEW q \in Proc, q # p PROVE RunInv(q)'
    <3>1. pc'[q] \notin Critical /\ site[q] \in Site /\ outcome'[q] = outcome[q]
      BY <2>1, <2>4, <2>6 DEF TypeOK
    <3>2. outcome[q] = "ok" => bundle[q].at <= stored[site[q]].at
      BY DEF GrantSafe, RunInv
    <3>3. outcome[q] = "ok" => bundle[q].at <= stored'[site[q]].at
      BY <2>3, <3>1, <3>2, <2>9, ConstantsAssumption
         DEF TypeOK, Bundle, Issue
    <3>4. QED
      BY <2>1, <3>1, <3>3 DEF GrantSafe, RunInv, Critical
  <2>7. \A s \in Site : SiteInv(s)'
    BY <2>0, <2>1, <2>2, <2>3, ConstantsAssumption DEF GrantSafe, SiteInv, TypeOK, Issue
  <2>8. QED
    BY <2>5, <2>6, <2>7 DEF GrantSafe
<1>21. ASSUME NEW p \in Proc, LoadFile(p) PROVE GrantSafe'
  <2>1. \A q \in Proc : RunInv(q)'
    BY <1>21, <1>0 DEF LoadFile, GrantSafe, RunInv, SiteInv, Expired, LocalsInv, history, TypeOK, Critical
  <2>2. \A s \in Site : SiteInv(s)'
    BY <1>21, <1>0 DEF LoadFile, GrantSafe, RunInv, SiteInv, Carries, Rotates, LocalsInv, history, TypeOK, Critical
  <2>3. QED
    BY <2>1, <2>2 DEF GrantSafe
<1>22. ASSUME NEW p \in Proc, WriteFile(p) PROVE GrantSafe'
  <2>0. \A q \in Proc, s \in Site : Carries(q, s) => q = p /\ s = site[p]
    BY <1>22, <1>0 DEF WriteFile, Carries, Critical
  <2>a. snap[p] = stored /\ site[p] \in Site
    BY <1>22 DEF WriteFile, GrantSafe, RunInv, TypeOK
  <2>1. /\ pc[p] = "write" /\ pc' = [pc EXCEPT ![p] = "release"]
        /\ stored' = [stored EXCEPT ![site[p]] = bundle[p]]
        /\ outcome' = [outcome EXCEPT ![p] = "ok"]
        /\ UNCHANGED <<site, bundle, reply, snap, minted, live, lapsed, dropped>>
    BY <1>22, <2>a DEF WriteFile, history, TypeOK
  <2>2. /\ bundle[p].at = minted[site[p]] /\ bundle[p].rt = live[site[p]]
        /\ stored'[site[p]] = bundle[p]
    BY <2>1 DEF GrantSafe, RunInv, TypeOK
  <2>3. \A s \in Site : /\ s # site[p] => stored'[s] = stored[s]
                        /\ stored[s].at <= stored'[s].at
    BY <2>1, <2>2, ConstantsAssumption DEF GrantSafe, SiteInv, TypeOK, Bundle, Issue
  <2>4. \A q \in Proc : q # p => pc[q] \notin Critical
    BY <1>0, <2>1 DEF Critical
  <2>5. RunInv(p)'
    BY <2>1, <2>2, ConstantsAssumption DEF RunInv, TypeOK, Bundle, Issue
  <2>9. stored' \in [Site -> Bundle]
    BY TypeStep DEF TypeOK
  <2>6. ASSUME NEW q \in Proc, q # p PROVE RunInv(q)'
    <3>1. pc'[q] \notin Critical /\ site[q] \in Site /\ outcome'[q] = outcome[q]
      BY <2>1, <2>4, <2>6 DEF TypeOK
    <3>2. outcome[q] = "ok" => bundle[q].at <= stored[site[q]].at
      BY DEF GrantSafe, RunInv
    <3>3. outcome[q] = "ok" => bundle[q].at <= stored'[site[q]].at
      BY <2>3, <3>1, <3>2, <2>9, ConstantsAssumption
         DEF TypeOK, Bundle, Issue
    <3>4. QED
      BY <2>1, <3>1, <3>3 DEF GrantSafe, RunInv, Critical
  <2>7. \A s \in Site : SiteInv(s)'
    BY <2>0, <2>1, <2>2, <2>3, ConstantsAssumption DEF GrantSafe, SiteInv, TypeOK, Issue
  <2>8. QED
    BY <2>5, <2>6, <2>7 DEF GrantSafe
<1>23. ASSUME NEW p \in Proc, SaveFails(p) PROVE GrantSafe'
  <2>1. \A q \in Proc : RunInv(q)'
    BY <1>23, <1>0 DEF SaveFails, GrantSafe, RunInv, SiteInv, Expired, LocalsInv, history, TypeOK, Critical
  <2>2. \A s \in Site : SiteInv(s)'
    BY <1>23, <1>0 DEF SaveFails, GrantSafe, RunInv, SiteInv, Carries, Rotates, LocalsInv, history, TypeOK, Critical
  <2>3. QED
    BY <2>1, <2>2 DEF GrantSafe
<1>24. ASSUME NEW p \in Proc, Release(p) PROVE GrantSafe'
  <2>1. \A q \in Proc : RunInv(q)'
    BY <1>24 DEF Release, Forget, GrantSafe, RunInv, SiteInv, Expired, LocalsInv, history, TypeOK
  <2>2. \A s \in Site : SiteInv(s)'
    BY <1>24 DEF Release, Forget, GrantSafe, RunInv, SiteInv, Carries, Rotates, LocalsInv, history, TypeOK
  <2>3. QED
    BY <2>1, <2>2 DEF GrantSafe
<1>24a. ASSUME NEW p \in Proc, ReleaseFails(p) PROVE GrantSafe'
  <2>1. \A q \in Proc : RunInv(q)'
    BY <1>24a DEF ReleaseFails, Forget, GrantSafe, RunInv, SiteInv, Expired, LocalsInv, history, TypeOK
  <2>2. \A s \in Site : SiteInv(s)'
    BY <1>24a DEF ReleaseFails, Forget, GrantSafe, RunInv, SiteInv, Carries, Rotates, LocalsInv, history, TypeOK
  <2>3. QED
    BY <2>1, <2>2 DEF GrantSafe
<1>25. ASSUME NEW p \in Proc, Crash(p) PROVE GrantSafe'
  <2>1. \A q \in Proc : RunInv(q)'
    BY <1>25, <1>0 DEF Crash, Forget, GrantSafe, RunInv, SiteInv, Expired, LocalsInv, history, TypeOK, Critical
  <2>2. \A s \in Site : SiteInv(s)'
    BY <1>25, <1>0 DEF Crash, Forget, GrantSafe, RunInv, SiteInv, Carries, Rotates, LocalsInv, history, TypeOK, Critical
  <2>3. QED
    BY <2>1, <2>2 DEF GrantSafe
<1>26. ASSUME NEW s \in Site, Lapse(s) PROVE GrantSafe'
  <2>1. \A q \in Proc : RunInv(q)'
    BY <1>26, ConstantsAssumption
       DEF Lapse, GrantSafe, RunInv, Expired, history, TypeOK, Bundle, Issue
  <2>2. \A t \in Site : SiteInv(t)'
    BY <1>26 DEF Lapse, GrantSafe, RunInv, SiteInv, Carries, Rotates, LocalsInv, history, TypeOK
  <2>3. QED
    BY <2>1, <2>2 DEF GrantSafe
<1>27. ASSUME Tick PROVE GrantSafe'
  <2>1. \A q \in Proc : RunInv(q)'
    BY <1>27 DEF Tick, GrantSafe, RunInv, SiteInv, Expired, LocalsInv, history, TypeOK
  <2>2. \A s \in Site : SiteInv(s)'
    BY <1>27 DEF Tick, GrantSafe, RunInv, SiteInv, Carries, Rotates, LocalsInv, history, TypeOK
  <2>3. QED
    BY <2>1, <2>2 DEF GrantSafe
<1>28. CASE UNCHANGED vars
  <2>1. \A q \in Proc : RunInv(q)'
    BY <1>28 DEF vars, waiting, GrantSafe, RunInv, SiteInv, Expired, LocalsInv, history, TypeOK
  <2>2. \A s \in Site : SiteInv(s)'
    BY <1>28 DEF vars, waiting, GrantSafe, RunInv, SiteInv, Carries, Rotates, LocalsInv, history, TypeOK
  <2>3. QED
    BY <2>1, <2>2 DEF GrantSafe
<1>29. QED
  BY <1>1, <1>2, <1>3, <1>4, <1>5, <1>6, <1>7, <1>8, <1>9, <1>9a, <1>10, <1>11,
     <1>12, <1>13, <1>14, <1>15, <1>16, <1>17, <1>18, <1>19, <1>20, <1>21,
     <1>22, <1>23, <1>24, <1>24a, <1>25, <1>26, <1>27, <1>28
     DEF Next, Step

\* The inductive invariant behind the properties of the grant.
LEMMA GrantInvariant ==
  Spec => [](TypeOK /\ LockInv /\ LocalsInv /\ SecretInv /\ GrantInv)
<1>1. Init => LocalsInv /\ SecretInv
  BY DEF Init, LocalsInv, SecretInv
<1>2. Init => GrantInv
  <2> SUFFICES ASSUME Init PROVE GrantSafe
    BY DEF GrantInv
  <2>1. \A p \in Proc : RunInv(p)
    BY DEF Init, RunInv
  <2>2. \A s \in Site : SiteInv(s)
    BY DEF Init, SiteInv
  <2>3. QED
    BY <2>1, <2>2 DEF GrantSafe
<1>3. QED
  BY <1>1, <1>2, LockInvariant, LocalsStep, GrantStep, PTL DEF Spec

\* No interleaving of refreshes loses a grant: the live refresh token of every site
\* is stored with its secret or on its way into the store, unless a crash, a lost
\* answer or a failed write hit the run that held it.
THEOREM GrantNeverLost == Spec => []GrantKept
<1>1. SecretInv /\ GrantInv => GrantKept
  <2> SUFFICES ASSUME SecretInv, GrantSafe, NEW s \in Site, s \notin dropped
               PROVE  \/ stored[s].rt = live[s] /\ stored[s].secret
                      \/ \E p \in Proc : Carries(p, s)
    BY DEF GrantInv, GrantKept
  <2>1. stored[s].secret
    BY DEF SecretInv
  <2>2. stored[s].rt = live[s] \/ \E p \in Proc : Carries(p, s)
    BY DEF GrantSafe, SiteInv
  <2>3. QED
    BY <2>1, <2>2, Zenon
<1>2. QED
  BY <1>1, GrantInvariant, PTL

\* A user is sent to log in again only when the grant really was dropped.
THEOREM HonestReauth == Spec => []ReauthIsHonest
<1>1. GrantInv => ReauthIsHonest
  BY DEF GrantInv, GrantSafe, RunInv, ReauthIsHonest
<1>2. QED
  BY <1>1, GrantInvariant, PTL

\* Runs that queued for the lock do not refresh a token a predecessor refreshed.
THEOREM RefreshIsNeeded == Spec => []NoNeedlessRefresh
<1>1. GrantInv => NoNeedlessRefresh
  BY DEF GrantInv, GrantSafe, RunInv, NoNeedlessRefresh
<1>2. QED
  BY <1>1, GrantInvariant, PTL

\* A run only goes on with a pair that it, or a later refresh, left in the store.
THEOREM StoredBeforeUse == Spec => []ReturnedIsStored
<1>1. GrantInv => ReturnedIsStored
  BY DEF GrantInv, GrantSafe, RunInv, ReturnedIsStored
<1>2. QED
  BY <1>1, GrantInvariant, PTL

\* Only the two ways of store.Set touch the store.
LEMMA StoreStep ==
  [Next]_vars => \/ UNCHANGED stored
                 \/ \E p \in Proc : SaveKeyring(p) \/ WriteFile(p)
BY DEF Next, Step, vars, StartRun, FastPath, NeedRefresh, ReadFails, CreateLock,
       FindLock, LockFails, Inspect, ReclaimLock, ReclaimFails, GiveUp, FallAsleep,
       WakeUp,
       ReuseRefreshed, SendRefresh, Grant, Reject, ReceivePair, ReceiveRefusal,
       CallFails, LoadFile, SaveFails, Release, ReleaseFails, Crash, Lapse, Tick

\* No write of the store, of one entry or of the whole document, puts an older pair
\* in place of a newer one.
THEOREM StoreAdvances == Spec => StoredAdvances
<1> DEFINE NoOlder == \A s \in Site : stored'[s].at >= stored[s].at
<1>1. TypeOK /\ GrantInv /\ [Next]_vars => (Honoured' => NoOlder)
  <2> SUFFICES ASSUME TypeOK, GrantSafe, [Next]_vars PROVE NoOlder
    BY HonouredStep DEF GrantInv
  <2>1. \A s \in Site : stored[s].at \in Int /\ minted[s] \in Int
    BY ConstantsAssumption DEF TypeOK, Bundle, Issue
  <2>2. CASE UNCHANGED stored
    BY <2>1, <2>2
  <2>3. ASSUME NEW p \in Proc, SaveKeyring(p) PROVE NoOlder
    <3>1. bundle[p].at = minted[site[p]] /\ stored[site[p]].at <= minted[site[p]]
      BY <2>3 DEF SaveKeyring, GrantSafe, RunInv, SiteInv, TypeOK
    <3>2. QED
      BY <2>1, <2>3, <3>1 DEF SaveKeyring, TypeOK
  <2>4. ASSUME NEW p \in Proc, WriteFile(p) PROVE NoOlder
    <3>1. bundle[p].at = minted[site[p]] /\ stored[site[p]].at <= minted[site[p]]
      BY <2>4 DEF WriteFile, GrantSafe, RunInv, SiteInv, TypeOK
    <3>2. snap[p] = stored
      BY <2>4 DEF WriteFile, GrantSafe, RunInv
    <3>3. QED
      BY <2>1, <2>4, <3>1, <3>2 DEF WriteFile, TypeOK
  <2>5. QED
    BY <2>2, <2>3, <2>4, StoreStep
<1>2. QED
  BY <1>1, GrantInvariant, PTL DEF Spec, StoredAdvances
=============================================================================
