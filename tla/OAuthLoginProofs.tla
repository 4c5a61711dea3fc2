--------------------------- MODULE OAuthLoginProofs ---------------------------
(***************************************************************************)
(* Proofs about OAuthLogin, for any number of logins on one port, any      *)
(* callbacks in any order, any answers of the service and any other        *)
(* programs: the code submitted is good, the browser has its page, and the *)
(* grant stored fits.                                                      *)
(*                                                                         *)
(* The argument: a callback keeps for ever the request it answers, its     *)
(* code and, once it has it, its page (Kept); a code belongs to one        *)
(* request, and a run submits one code only.                               *)
(***************************************************************************)
EXTENDS OAuthLogin, FiniteSetTheorems, TLAPS

\* A code is that of the callback that first bore it. A handler has sent its page
\* before it signals.
CallInv ==
  \A v \in Visit :
    /\ visit[v].code \in Visit /\ visit[visit[v].code].for = visit[v].for
    /\ visit[v].stage = "signal" => visit[v].shown

\* Who listens has not returned, nor has a run that has a handler.
PortInv ==
  /\ \A f \in Family : holder[f] \in Run => pc[holder[f]] \notin Ended
  /\ \A v \in Visit : visit[v].stage \in {"page", "signal"} =>
       visit[v].at \in Run /\ pc[visit[v].at] \notin Ended

\* What is signalled, and what is acted on, is a callback that has its page.
Shown(v) == v # 0 => v \in Visit /\ visit[v].shown
HeardInv == \A r \in Run : Shown(chan[r]) /\ Shown(heard[r])

\* The code of a run is of its own request, and used up once it is past the exchange.
\* A code in use was submitted by the run whose request it is of.
CodeInv ==
  /\ \A r \in Run : pc[r] \in {"exchange", "resources", "store"} =>
       code[r] \in Visit /\ visit[code[r]].for = r
  /\ \A r \in Run : pc[r] \in {"resources", "store"} => <<r, code[r]>> \in used
  /\ \A u \in used :
       /\ u[2] \in Visit /\ visit[u[2]].for = u[1]
       /\ pc[u[1]] \notin {"idle", "open", "wait", "exchange"} \cup Family

\* The cloud id g of a run is of a site that fits, and no site that fits has another.
Fits(r, list, i) ==
  IF Override[r] = None THEN list[i].host = Meant ELSE list[i].id = Override[r]
Fitting(r, g) ==
  /\ \E i \in DOMAIN g.among : Fits(r, g.among, i) /\ g.among[i].id = g.id
  /\ \A i, j \in DOMAIN g.among :
       Fits(r, g.among, i) /\ Fits(r, g.among, j) => g.among[i].id = g.among[j].id

CloudInv == \A r \in Run : pc[r] = "store" => cloud[r] \in Grant /\ Fitting(r, cloud[r])

Inv == TypeOK /\ CallInv /\ PortInv /\ HeardInv /\ CodeInv /\ CloudInv

-----------------------------------------------------------------------------
(* Sequences of callbacks. *)

LEMMA Updated ==
  ASSUME NEW S, NEW s \in Seq(S), NEW u \in [DOMAIN s -> S]
  PROVE  u \in Seq(S) /\ Len(u) = Len(s)
OBVIOUS

LEMMA Appended ==
  ASSUME NEW S, NEW s \in Seq(S), NEW c \in S
  PROVE  /\ Append(s, c) \in Seq(S) /\ Len(Append(s, c)) = Len(s) + 1
         /\ DOMAIN Append(s, c) = DOMAIN s \cup {Len(s) + 1}
         /\ \A v \in DOMAIN s : Append(s, c)[v] = s[v]
         /\ Append(s, c)[Len(s) + 1] = c
OBVIOUS

\* What a callback keeps.
Kept ==
  \A v \in Visit :
    /\ v \in Visit' /\ visit'[v].for = visit[v].for /\ visit'[v].code = visit[v].code
    /\ visit[v].shown => visit'[v].shown

\* The end of a run ends its handlers.
LEMMA ReturnStep ==
  ASSUME TypeOK, NEW r \in Run, NEW o, Return(r, o)
  PROVE  /\ visit' \in Seq(Callback) /\ Len(visit') = Len(visit) /\ Visit' = Visit /\ Kept
         /\ \A v \in Visit : visit'[v].at = visit[v].at
         /\ \A v \in Visit : visit'[v].stage \in {"page", "signal"} =>
              visit'[v] = visit[v] /\ visit[v].at # r
<1> DEFINE after(v) == IF visit[v].at = r THEN [visit[v] EXCEPT !.stage = "over"] ELSE visit[v]
<1>1. visit \in Seq(Callback) /\ \A v \in Visit : visit[v] \in Callback
  BY DEF TypeOK, Visit
<1>2. visit' = [v \in Visit |-> after(v)]
  BY DEF Return
<1>3. \A v \in Visit :
        /\ after(v) \in Callback
        /\ after(v).for = visit[v].for /\ after(v).code = visit[v].code
        /\ after(v).at = visit[v].at /\ after(v).shown = visit[v].shown
        /\ after(v).stage \in {"page", "signal"} => after(v) = visit[v] /\ visit[v].at # r
  BY <1>1 DEF Callback
<1>4. visit' \in [DOMAIN visit -> Callback]
  BY <1>2, <1>3 DEF Visit
<1>5. visit' \in Seq(Callback) /\ Len(visit') = Len(visit) /\ Visit' = Visit
  <2>1. DOMAIN visit' = DOMAIN visit
    BY <1>4
  <2> QED BY <1>1, <1>4, <2>1, Updated DEF Visit
<1>6. \A v \in Visit : visit'[v] = after(v)
  BY <1>2
<1> HIDE DEF after
<1> QED BY <1>3, <1>5, <1>6 DEF Kept

\* A callback gets another handler, stage or page, or loses its handler.
LEMMA HandlerStep ==
  ASSUME TypeOK, NEW v \in Visit, NEW c \in Callback, visit' = [visit EXCEPT ![v] = c],
         c.for = visit[v].for, c.code = visit[v].code, visit[v].shown => c.shown
  PROVE  visit' \in Seq(Callback) /\ Len(visit') = Len(visit) /\ Visit' = Visit /\ Kept
<1>1. visit \in Seq(Callback)
  BY DEF TypeOK
<1>2. visit' \in [DOMAIN visit -> Callback] /\ DOMAIN visit' = DOMAIN visit
  BY <1>1 DEF Visit
<1>3. visit' \in Seq(Callback) /\ Len(visit') = Len(visit) /\ Visit' = Visit
  BY <1>1, <1>2, Updated DEF Visit
<1> QED BY <1>3, <1>1 DEF Kept, Visit

\* The browser makes a callback.
LEMMA CallStep ==
  ASSUME TypeOK, NEW c \in Callback, Calls(c)
  PROVE  /\ visit' \in Seq(Callback) /\ Len(visit') <= MaxVisits /\ Kept
         /\ Visit' = Visit \cup {Len(visit) + 1} /\ visit'[Len(visit) + 1] = c
         /\ \A v \in Visit : visit'[v] = visit[v]
<1>1. visit \in Seq(Callback) /\ Len(visit) < MaxVisits /\ visit' = Append(visit, c)
  BY DEF TypeOK, Calls
<1>2. MaxVisits \in Nat
  BY LoginAssumption
<1> QED BY <1>1, <1>2, Appended DEF Kept, Visit

-----------------------------------------------------------------------------
(* What a step of each kind leaves of the types. *)

LEMMA InitInv == Init => Inv
<1> SUFFICES ASSUME Init PROVE Inv
  OBVIOUS
<1>1. TypeOK
  BY LoginAssumption DEF Init, TypeOK, Callback, Family
<1>2. Visit = {}
  BY DEF Init, Visit
<1> QED BY <1>1, <1>2, LoginAssumption
    DEF Init, Inv, CallInv, PortInv, HeardInv, Shown, CodeInv, CloudInv, Ended, Family

\* A run returns.
LEMMA ReturnTypes ==
  ASSUME TypeOK, NEW r \in Run, NEW o \in Ended, Return(r, o)
  PROVE  /\ pc' = [pc EXCEPT ![r] = o] /\ pc' \in [Run -> {"idle"} \cup Family \cup Listening \cup Ended]
         /\ due' \in [Run -> BOOLEAN] /\ once' \in [Run -> BOOLEAN]
         /\ chan' = [chan EXCEPT ![r] = 0] /\ chan' \in [Run -> 0..MaxVisits]
         /\ code' = [code EXCEPT ![r] = 0] /\ code' \in [Run -> 0..MaxVisits]
         /\ cloud' = [cloud EXCEPT ![r] = None] /\ cloud' \in [Run -> Grant \cup {None}]
         /\ holder' \in [Family -> Run \cup {Free, Other}]
         /\ \A f \in Family : holder'[f] \in Run => holder'[f] = holder[f] /\ holder[f] # r
         /\ visit' \in Seq(Callback) /\ Len(visit') <= MaxVisits
<1>1. visit' \in Seq(Callback) /\ Len(visit') <= MaxVisits
  BY ReturnStep DEF TypeOK
<1>2. holder' \in [Family -> Run \cup {Free, Other}]
  BY DEF TypeOK, Return
<1>3. \A f \in Family : holder'[f] \in Run => holder'[f] = holder[f] /\ holder[f] # r
  BY LoginAssumption DEF TypeOK, Return
<1>4. 0 \in 0..MaxVisits
  BY LoginAssumption
<1> QED BY <1>1, <1>2, <1>3, <1>4 DEF TypeOK, Return, Goto

LEMMA VerdictType ==
  ASSUME TypeOK, NEW r \in Run, NEW v \in Visit
  PROVE  /\ Verdict(r, v) \in {"code", "denied", "mismatch", "bare"}
         /\ Verdict(r, v) # "code" => Verdict(r, v) \in Ended
         /\ Verdict(r, v) = "code" => visit[v].for = r
<1>1. visit[v] \in Callback
  BY DEF TypeOK, Visit
<1> QED BY <1>1 DEF Verdict, Callback, Answers, Ended

\* A cloud id that resolves fits, and no site that fits has another.
LEMMA Resolved ==
  ASSUME NEW r \in Run, NEW list \in Sites, ResolveCloudID(r, list) \in Id
  PROVE  /\ \E i \in DOMAIN list : Fits(r, list, i) /\ list[i].id = ResolveCloudID(r, list)
         /\ \A i, j \in DOMAIN list :
              Fits(r, list, i) /\ Fits(r, list, j) => list[i].id = list[j].id
<1>1. "no_match" \notin Id /\ "ambiguous" \notin Id /\ IsFiniteSet(DOMAIN list)
  BY LoginAssumption
<1>2. CASE Override[r] # None
  BY <1>1, <1>2 DEF ResolveCloudID, Fits
<1>3. CASE Override[r] = None
  <2>1. IsFiniteSet(Matches(list))
    BY <1>1, FS_Subset DEF Matches
  <2>2. Cardinality(Matches(list)) = 1
    BY <1>1, <1>3 DEF ResolveCloudID
  <2>3. PICK i : Matches(list) = {i}
    BY <2>1, <2>2, FS_Singleton
  <2>4. ResolveCloudID(r, list) = list[i].id
    BY <1>3, <2>2, <2>3 DEF ResolveCloudID
  <2> QED BY <1>3, <2>3, <2>4 DEF Matches, Fits
<1> QED BY <1>2, <1>3

\* A cloud id that does not resolve is one of two errors.
LEMMA Unresolved ==
  ASSUME NEW r \in Run, NEW list \in Sites, ResolveCloudID(r, list) \notin Id
  PROVE  ResolveCloudID(r, list) \in {"no_match", "ambiguous"}
<1>1. \A i \in DOMAIN list : list[i].id \in Id
  BY DEF Id
<1>2. CASE Override[r] # None
  BY <1>1, <1>2 DEF ResolveCloudID
<1>3. CASE Override[r] = None
  <2>1. IsFiniteSet(Matches(list))
    BY LoginAssumption, FS_Subset DEF Matches
  <2>2. ASSUME Cardinality(Matches(list)) = 1 PROVE FALSE
    <3>1. PICK i : Matches(list) = {i}
      BY <2>1, <2>2, FS_Singleton
    <3>2. ResolveCloudID(r, list) = list[i].id
      BY <1>3, <2>2, <3>1 DEF ResolveCloudID
    <3> QED BY <1>1, <3>1, <3>2 DEF Matches
  <2> QED BY <1>3, <2>2 DEF ResolveCloudID
<1> QED BY <1>2, <1>3

-----------------------------------------------------------------------------
(* Every step keeps the invariant. *)

\* What a run submitted stays good when its own place and code do.
LEMMA CodeKept ==
  ASSUME TypeOK, CodeInv, CloudInv, Kept, UNCHANGED <<pc, code, cloud, used>>
  PROVE  CodeInv' /\ CloudInv'
<1>1. \A r \in Run : pc[r] = pc'[r] /\ code[r] = code'[r] /\ cloud[r] = cloud'[r]
  OBVIOUS
<1>2. CodeInv'
  BY <1>1 DEF CodeInv, Kept
<1> QED BY <1>1, <1>2 DEF CloudInv, Fitting, Fits

LEMMA ShownKept ==
  ASSUME Kept, NEW n, NEW m, Shown(n), m = n
  PROVE  m # 0 => m \in Visit' /\ visit'[m].shown
BY DEF Kept, Shown

\* A run returns, whatever the outcome.
LEMMA EndInv ==
  ASSUME Inv, NEW r \in Run, NEW o \in Ended, Return(r, o), UNCHANGED <<asked, others>>,
         \/ UNCHANGED used
         \/ pc[r] = "exchange" /\ used' = used \cup {<<r, code[r]>>},
         heard' \in {heard, [heard EXCEPT ![r] = chan[r]]}
  PROVE  Inv'
<1>1. /\ TypeOK /\ CallInv /\ PortInv /\ HeardInv /\ CodeInv /\ CloudInv
  BY DEF Inv
<1>2. /\ visit' \in Seq(Callback) /\ Len(visit') <= MaxVisits /\ Visit' = Visit /\ Kept
      /\ \A v \in Visit : visit'[v].at = visit[v].at
      /\ \A v \in Visit : visit'[v].stage \in {"page", "signal"} =>
           visit'[v] = visit[v] /\ visit[v].at # r
  BY <1>1, ReturnStep, ReturnTypes
<1>3. /\ pc' = [pc EXCEPT ![r] = o] /\ chan' = [chan EXCEPT ![r] = 0]
      /\ code' = [code EXCEPT ![r] = 0] /\ cloud' = [cloud EXCEPT ![r] = None]
      /\ \A f \in Family : holder'[f] \in Run => holder'[f] = holder[f] /\ holder[f] # r
  BY <1>1, ReturnTypes
<1>4. \A q \in Run : q # r => pc'[q] = pc[q] /\ chan'[q] = chan[q] /\ code'[q] = code[q]
                              /\ cloud'[q] = cloud[q]
  BY <1>1, <1>3 DEF TypeOK
<1>5. pc'[r] = o /\ chan'[r] = 0
  BY <1>1, <1>3 DEF TypeOK
<1>6. o \notin {"idle", "open", "wait", "exchange", "resources", "store"} \cup Family
  BY DEF Ended, Family
<1>0. pc[r] = "exchange" => code[r] \in Visit /\ visit[code[r]].for = r
  BY <1>1 DEF CodeInv
<1>7. TypeOK'
  <2>1. heard' \in [Run -> 0..MaxVisits]
    BY <1>1 DEF TypeOK
  <2>2. pc[r] = "exchange" => code[r] \in 1..MaxVisits
    BY <1>0, <1>1 DEF TypeOK, Visit
  <2>3. used' \in SUBSET (Run \X (1..MaxVisits))
    BY <1>1, <2>2 DEF TypeOK
  <2> QED BY <1>1, <2>1, <2>3, ReturnTypes DEF TypeOK
<1>8. CallInv'
  BY <1>1, <1>2 DEF CallInv, Kept
<1>9. PortInv'
  <2>1. ASSUME NEW f \in Family, holder'[f] \in Run PROVE pc'[holder'[f]] \notin Ended
    BY <1>1, <1>3, <1>4, <2>1 DEF PortInv
  <2>2. ASSUME NEW v \in Visit', visit'[v].stage \in {"page", "signal"}
        PROVE  visit'[v].at \in Run /\ pc'[visit'[v].at] \notin Ended
    BY <1>1, <1>2, <1>4, <2>2 DEF PortInv
  <2> QED BY <2>1, <2>2 DEF PortInv
<1>10. HeardInv'
  <2>1. ASSUME NEW q \in Run PROVE chan'[q] \in {0, chan[q]} /\ heard'[q] \in {heard[q], chan[q]}
    BY <1>1, <1>4, <1>5 DEF TypeOK
  <2> QED BY <1>1, <1>2, <2>1 DEF HeardInv, Shown, Kept
<1>11. CodeInv'
  <2>1. used \subseteq used' /\ \A u \in used' : u \in used \/ (pc[r] = "exchange" /\ u = <<r, code[r]>>)
    <3>1. CASE UNCHANGED used
      BY <3>1
    <3>2. CASE pc[r] = "exchange" /\ used' = used \cup {<<r, code[r]>>}
      BY <3>2
    <3> QED BY <3>1, <3>2
  <2>2. \A u \in used : u[1] \in Run
    BY <1>1 DEF TypeOK
  <2>3. ASSUME NEW q \in Run, pc'[q] \in {"exchange", "resources", "store"}
        PROVE  /\ code'[q] \in Visit' /\ visit'[code'[q]].for = q
               /\ pc'[q] \in {"resources", "store"} => <<q, code'[q]>> \in used'
    BY <1>1, <1>2, <1>4, <1>5, <1>6, <2>1, <2>3 DEF CodeInv, Kept
  <2>4. ASSUME NEW u \in used, u \in used'
        PROVE  /\ u[2] \in Visit' /\ visit'[u[2]].for = u[1]
               /\ pc'[u[1]] \notin {"idle", "open", "wait", "exchange"} \cup Family
    BY <1>1, <1>2, <1>4, <1>5, <1>6, <2>2, <2>4 DEF CodeInv, Kept
  <2>5. ASSUME pc[r] = "exchange", NEW u, u = <<r, code[r]>>
        PROVE  /\ u[2] \in Visit' /\ visit'[u[2]].for = u[1]
               /\ pc'[u[1]] \notin {"idle", "open", "wait", "exchange"} \cup Family
    BY <1>0, <1>2, <1>5, <1>6, <2>5 DEF Kept
  <2> QED BY <2>1, <2>3, <2>4, <2>5 DEF CodeInv
<1>12. CloudInv'
  BY <1>1, <1>4, <1>5, <1>6 DEF CloudInv, Fitting, Fits
<1> QED BY <1>7, <1>8, <1>9, <1>10, <1>11, <1>12 DEF Inv

\* The browser makes a callback, of a new code or of one it made before.
LEMMA CallsInv ==
  ASSUME Inv, NEW c \in Callback, Calls(c), c.stage = "sent",
         \/ c.code = Len(visit) + 1
         \/ c.code \in Visit /\ visit[c.code].for = c.for
  PROVE  Inv'
<1>1. /\ TypeOK /\ CallInv /\ PortInv /\ HeardInv /\ CodeInv /\ CloudInv
  BY DEF Inv
<1>2. /\ visit' \in Seq(Callback) /\ Len(visit') <= MaxVisits /\ Kept
      /\ Visit' = Visit \cup {Len(visit) + 1} /\ visit'[Len(visit) + 1] = c
      /\ \A v \in Visit : visit'[v] = visit[v]
  BY <1>1, CallStep
<1>3. UNCHANGED <<pc, due, chan, once, code, cloud, holder, asked, used, others, heard>>
  BY DEF Calls, locals, world
<1>4. TypeOK'
  BY <1>1, <1>2, <1>3 DEF TypeOK
<1>5. CallInv'
  <2>1. ASSUME NEW v \in Visit
        PROVE  /\ visit'[v].code \in Visit' /\ visit'[visit'[v].code].for = visit'[v].for
               /\ visit'[v].stage = "signal" => visit'[v].shown
    BY <1>1, <1>2 DEF CallInv
  <2>2. c.code \in Visit' /\ visit'[c.code].for = c.for
    BY <1>2
  <2> QED BY <1>2, <2>1, <2>2 DEF CallInv
<1>6. PortInv'
  BY <1>1, <1>2, <1>3 DEF PortInv
<1>7. HeardInv'
  BY <1>1, <1>2, <1>3, ShownKept DEF HeardInv, Shown
<1> QED BY <1>1, <1>2, <1>3, <1>4, <1>5, <1>6, <1>7, CodeKept DEF Inv

\* A callback reaches a run or misses it, its page is sent, its handler signals.
LEMMA HandlerInv ==
  ASSUME Inv, NEW v \in Visit,
         \/ \E f \in Family : Connect(v, f) \/ Miss(v, f)
         \/ ShowPage(v) \/ Signal(v)
  PROVE  Inv'
<1> DEFINE c == visit'[v]
<1>1. /\ TypeOK /\ CallInv /\ PortInv /\ HeardInv /\ CodeInv /\ CloudInv
  BY DEF Inv
<1>2. visit \in Seq(Callback) /\ visit[v] \in Callback
  BY <1>1 DEF TypeOK, Visit
<1>3. /\ visit' = [visit EXCEPT ![v] = c] /\ c \in Callback
      /\ c.for = visit[v].for /\ c.code = visit[v].code /\ (visit[v].shown => c.shown)
      /\ c.stage = "signal" => c.shown
      /\ c.stage \in {"page", "signal"} => c.at \in Run /\ pc[c.at] \notin Ended
  <2>1. ASSUME NEW f \in Family, Connect(v, f) PROVE <1>3
    BY <1>1, <1>2, <2>1 DEF Connect, Callback, Visit, PortInv
  <2>2. ASSUME NEW f \in Family, Miss(v, f) PROVE <1>3
    BY <1>1, <1>2, <2>2 DEF Miss, Callback, Visit
  <2>3. CASE ShowPage(v)
    BY <1>1, <1>2, <2>3 DEF ShowPage, Callback, Visit, PortInv
  <2>4. CASE Signal(v)
    BY <1>1, <1>2, <2>4 DEF Signal, Callback, Visit
  <2> QED BY <2>1, <2>2, <2>3, <2>4
<1>4. UNCHANGED <<pc, due, code, cloud, holder, asked, used, others, heard>>
  BY DEF Connect, Miss, ShowPage, Signal, locals, world
<1>5. \/ UNCHANGED <<chan, once>>
      \/ /\ visit[v].shown /\ visit[v].at \in Run /\ once' \in [Run -> BOOLEAN]
         /\ chan' = [chan EXCEPT ![visit[v].at] = IF once[visit[v].at] THEN @ ELSE v]
  BY <1>1 DEF Connect, Miss, ShowPage, Signal, Ready, locals, CallInv, PortInv, TypeOK
<1>6. visit' \in Seq(Callback) /\ Len(visit') = Len(visit) /\ Visit' = Visit /\ Kept
  BY <1>1, <1>3, HandlerStep
<1>7. \A w \in Visit : w # v => visit'[w] = visit[w]
  BY <1>2, <1>3 DEF Visit
<1> HIDE DEF c
<1>8. v \in 0..MaxVisits
  BY <1>1, LoginAssumption DEF TypeOK, Visit
<1>9. TypeOK'
  BY <1>1, <1>4, <1>5, <1>6, <1>8 DEF TypeOK
<1>10. CallInv'
  BY <1>1, <1>3, <1>6, <1>7 DEF CallInv, Kept, c
<1>11. PortInv'
  BY <1>1, <1>3, <1>4, <1>6, <1>7 DEF PortInv, c
<1>12. HeardInv'
  <2>1. \A q \in Run : chan'[q] = chan[q] \/ (chan'[q] = v /\ visit[v].shown)
    BY <1>1, <1>5 DEF TypeOK
  <2> QED BY <1>1, <1>4, <1>6, <2>1 DEF HeardInv, Shown, Kept
<1> QED BY <1>1, <1>4, <1>6, <1>9, <1>10, <1>11, <1>12, CodeKept DEF Inv

\* A run goes on, or its deadline passes, and the callbacks stay as they are: what is
\* left to show is about the run.
LEMMA GoesOnInv ==
  ASSUME Inv, UNCHANGED visit, NEW r \in Run, NEW l \in Family \cup Listening, Goto(r, l),
         TypeOK', \A q \in Run \ {r} : code'[q] = code[q] /\ cloud'[q] = cloud[q],
         \A f \in Family : holder'[f] \in {holder[f], r},
         \A q \in Run : chan'[q] \in {0, chan[q]} /\ heard'[q] \in {heard[q], chan[q]},
         l \in {"exchange", "resources", "store"} => code'[r] \in Visit /\ visit[code'[r]].for = r,
         l \in {"resources", "store"} => <<r, code'[r]>> \in used',
         l \notin {"resources", "store"} => pc[r] \notin {"resources", "store"} \cup Ended,
         used' \in {used, used \cup {<<r, code'[r]>>}},
         used' # used => l \in {"resources", "store"},
         l = "store" => cloud'[r] \in Grant /\ Fitting(r, cloud'[r])
  PROVE  Inv'
<1>1. /\ TypeOK /\ CallInv /\ PortInv /\ HeardInv /\ CodeInv /\ CloudInv
  BY DEF Inv
<1>2. Visit' = Visit /\ l \notin Ended
  BY DEF Visit, Family, Listening, Ended
<1>3. pc'[r] = l /\ \A q \in Run : q # r => pc'[q] = pc[q]
  BY <1>1 DEF Goto, TypeOK
<1>4. CallInv'
  BY <1>1, <1>2 DEF CallInv
<1>5. PortInv'
  BY <1>1, <1>2, <1>3 DEF PortInv
<1>6. HeardInv'
  BY <1>1, <1>2 DEF HeardInv, Shown
<1>7. CodeInv'
  <2>1. ASSUME NEW q \in Run, pc'[q] \in {"exchange", "resources", "store"}
        PROVE  code'[q] \in Visit' /\ visit'[code'[q]].for = q
    BY <1>1, <1>2, <1>3, <2>1 DEF CodeInv
  <2>2. ASSUME NEW q \in Run, pc'[q] \in {"resources", "store"}
        PROVE  <<q, code'[q]>> \in used'
    BY <1>1, <1>3, <2>2 DEF CodeInv
  <2>3. ASSUME NEW u \in used'
        PROVE  /\ u[2] \in Visit' /\ visit'[u[2]].for = u[1]
               /\ pc'[u[1]] \notin {"idle", "open", "wait", "exchange"} \cup Family
    <3>1. CASE u \in used
      <4>1. u[1] \in Run /\ u[2] \in Visit /\ visit[u[2]].for = u[1]
            /\ pc[u[1]] \notin {"idle", "open", "wait", "exchange"} \cup Family
        BY <1>1, <3>1 DEF CodeInv, TypeOK
      <4>2. pc[r] \in {"idle", "open", "wait", "exchange"} \cup Family
              \cup {"resources", "store"} \cup Ended
        BY <1>1 DEF TypeOK, Listening
      <4>3. CASE u[1] = r
        BY <1>2, <1>3, <4>1, <4>2, <4>3 DEF Family
      <4> QED BY <1>2, <1>3, <4>1, <4>3
    <3>2. CASE u = <<r, code'[r]>> /\ l \in {"resources", "store"}
      BY <1>2, <1>3, <3>2 DEF Family
    <3> QED BY <2>3, <3>1, <3>2
  <2> QED BY <2>1, <2>2, <2>3 DEF CodeInv
<1>8. CloudInv'
  <2>1. ASSUME NEW q \in Run, pc'[q] = "store"
        PROVE  cloud'[q] \in Grant /\ Fitting(q, cloud'[q])
    BY <1>1, <1>3, <2>1 DEF CloudInv
  <2> QED BY <2>1 DEF CloudInv, Fitting, Fits
<1> QED BY <1>4, <1>5, <1>6, <1>7, <1>8 DEF Inv

LEMMA StepInv == Inv /\ [Next]_vars => Inv'
<1> SUFFICES ASSUME Inv, [Next]_vars PROVE Inv'
  OBVIOUS
<1>1. /\ TypeOK /\ CallInv /\ PortInv /\ HeardInv /\ CodeInv /\ CloudInv
  BY DEF Inv
<1>2. 0 \in 0..MaxVisits /\ MaxVisits \in Nat
  BY LoginAssumption
<1>3. ASSUME NEW r \in Run, Start(r) PROVE Inv'
  <2>1. "v4" \in Family /\ Goto(r, "v4")
    BY <1>3 DEF Start, Family
  <2>2. TypeOK'
    BY <1>1, <1>3, <2>1 DEF Start, Goto, TypeOK, locals, world
  <2>3. UNCHANGED <<visit, code, cloud, holder, chan, heard, used>> /\ pc[r] = "idle"
    BY <1>3 DEF Start, locals, world
  <2>4. pc[r] \notin {"resources", "store"} \cup Ended
    BY <2>3 DEF Ended
  <2> QED BY <2>1, <2>2, <2>3, <2>4, GoesOnInv
<1>4. ASSUME NEW r \in Run, Listen(r) PROVE Inv'
  <2>1. TypeOK'
    BY <1>1, <1>4 DEF Listen, Bound, Goto, TypeOK, Family, Listening, locals, world
  <2>2. \A f \in Family : holder'[f] \in {holder[f], r}
    BY <1>1, <1>4 DEF Listen, Bound, TypeOK
  <2>3. PICK l \in Family \cup Listening : Goto(r, l) /\ l \in {"v6", "open"}
    BY <1>4 DEF Listen, Family, Listening
  <2> QED BY <1>1, <1>4, <2>1, <2>2, <2>3, GoesOnInv
      DEF Listen, Family, Ended, locals, world, TypeOK
<1>5. ASSUME NEW r \in Run, OpenBrowser(r) PROVE Inv'
  <2>1. TypeOK'
    BY <1>1, <1>5 DEF OpenBrowser, Goto, TypeOK, Listening, locals, world
  <2> QED BY <1>1, <1>5, <2>1, GoesOnInv
      DEF OpenBrowser, Listening, Ended, locals, world, TypeOK
<1>6. ASSUME NEW r \in Run, ReceiveCode(r) PROVE Inv'
  <2>1. chan[r] \in Visit
    BY <1>1, <1>6 DEF ReceiveCode, Hears, HeardInv, Shown
  <2>2. visit[chan[r]].for = r
    BY <1>1, <1>6, <2>1, VerdictType DEF ReceiveCode
  <2>3. visit[chan[r]].code \in Visit /\ visit[visit[chan[r]].code].for = r
    BY <1>1, <2>1, <2>2 DEF CallInv
  <2>4. visit[chan[r]].code \in 0..MaxVisits
    BY <1>1, <1>2, <2>3 DEF TypeOK, Visit
  <2>5. /\ code' = [code EXCEPT ![r] = visit[chan[r]].code]
        /\ code \in [Run -> 0..MaxVisits] /\ code' \in [Run -> 0..MaxVisits]
    BY <1>1, <1>6, <2>4 DEF ReceiveCode, TypeOK
  <2>6. /\ \A q \in Run : chan'[q] \in {0, chan[q]} /\ heard'[q] \in {heard[q], chan[q]}
        /\ chan' \in [Run -> 0..MaxVisits] /\ heard' \in [Run -> 0..MaxVisits]
    BY <1>1, <1>2, <1>6 DEF ReceiveCode, Hears, TypeOK
  <2>7. "exchange" \in Listening /\ Goto(r, "exchange") /\ pc[r] = "wait"
    BY <1>6 DEF ReceiveCode, Hears, Listening
  <2>8. UNCHANGED <<due, once, cloud, holder, visit, asked, used, others>>
    BY <1>6 DEF ReceiveCode, world
  <2>9. TypeOK'
    BY <1>1, <2>5, <2>6, <2>7, <2>8 DEF Goto, TypeOK
  <2>10. \A q \in Run \ {r} : code'[q] = code[q]
    BY <2>5
  <2>11. pc[r] \notin {"resources", "store"} \cup Ended
    BY <2>7 DEF Ended
  <2> QED BY <2>2, <2>3, <2>5, <2>6, <2>7, <2>8, <2>9, <2>10, <2>11, GoesOnInv
<1>7. ASSUME NEW r \in Run, Exchange(r) PROVE Inv'
  <2>1. code[r] \in Visit /\ visit[code[r]].for = r
    BY <1>1, <1>7 DEF Exchange, CodeInv
  <2>2. code[r] \in 1..MaxVisits
    BY <1>1, <1>2, <2>1 DEF TypeOK, Visit
  <2>3. TypeOK'
    BY <1>1, <1>7, <2>2 DEF Exchange, Goto, TypeOK, Listening, locals
  <2> QED BY <1>1, <1>7, <2>1, <2>3, GoesOnInv
      DEF Exchange, Listening, Ended, locals, TypeOK
<1>8. ASSUME NEW r \in Run, Resolve(r) PROVE Inv'
  <2>1. PICK list \in Sites :
          /\ ResolveCloudID(r, list) \in Id
          /\ cloud' = [cloud EXCEPT ![r] = [id |-> ResolveCloudID(r, list), among |-> list]]
    BY <1>8 DEF Resolve
  <2>2. cloud'[r] \in Grant /\ cloud'[r].id = ResolveCloudID(r, list) /\ cloud'[r].among = list
    BY <1>1, <2>1 DEF TypeOK, Grant
  <2>3. Fitting(r, cloud'[r])
    BY <2>1, <2>2, Resolved DEF Fitting
  <2>4. cloud' \in [Run -> Grant \cup {None}] /\ \A q \in Run \ {r} : cloud'[q] = cloud[q]
    BY <1>1, <2>1, <2>2 DEF TypeOK, Grant
  <2>5. TypeOK'
    BY <1>1, <1>8, <2>4 DEF Resolve, Goto, TypeOK, Listening, world
  <2>6. code[r] \in Visit /\ visit[code[r]].for = r /\ <<r, code[r]>> \in used
    BY <1>1, <1>8 DEF Resolve, CodeInv
  <2> QED BY <1>1, <1>8, <2>2, <2>3, <2>4, <2>5, <2>6, GoesOnInv
      DEF Resolve, Listening, world, TypeOK
<1>9. ASSUME NEW r \in Run, Deadline(r) PROVE Inv'
  <2>1. TypeOK'
    BY <1>1, <1>9 DEF Deadline, TypeOK, world
  <2>2. CallInv' /\ PortInv' /\ HeardInv'
    BY <1>1, <1>9 DEF Deadline, world, CallInv, PortInv, HeardInv, Shown, Visit
  <2>3. Kept
    BY <1>9 DEF Deadline, Kept, Visit
  <2> QED BY <1>1, <1>9, <2>1, <2>2, <2>3, CodeKept DEF Deadline, world, Inv
<1>10. ASSUME NEW r \in Run,
              ListenFails(r) \/ ReceiveError(r) \/ TimeOut(r) \/ NoSite(r) \/ CallFails(r)
                \/ Store(r) \/ Killed(r)
       PROVE  Inv'
  <2>1. ASSUME ReceiveError(r) PROVE Inv'
    <3>1. chan[r] \in Visit
      BY <1>1, <2>1 DEF ReceiveError, Hears, HeardInv, Shown
    <3>2. Verdict(r, chan[r]) \in Ended
      BY <1>1, <2>1, <3>1, VerdictType DEF ReceiveError
    <3> QED BY <2>1, <3>2, EndInv DEF ReceiveError, Hears, world
  <2>2. ASSUME NoSite(r) PROVE Inv'
    <3>1. PICK list \in Sites :
            ResolveCloudID(r, list) \notin Id /\ Return(r, ResolveCloudID(r, list))
      BY <2>2 DEF NoSite
    <3>2. ResolveCloudID(r, list) \in Ended
      BY <3>1, Unresolved DEF Ended
    <3> QED BY <2>2, <3>1, <3>2, EndInv DEF NoSite, world
  <2>3. {"listen_failed", "timeout", "failed", "ok", "killed"} \subseteq Ended
    BY DEF Ended
  <2> QED BY <1>10, <2>1, <2>2, <2>3, EndInv
      DEF ListenFails, TimeOut, CallFails, Store, Killed, world
<1>11. ASSUME NEW r \in Run, Consent(r) PROVE Inv'
  <2>1. PICK a \in Answers :
          Calls([for |-> r, answer |-> a, code |-> Len(visit) + 1, at |-> None,
                 stage |-> "sent", shown |-> FALSE])
    BY <1>11 DEF Consent
  <2>2. Len(visit) + 1 \in 1..MaxVisits
    BY <1>1, <1>2, <2>1 DEF Calls, TypeOK
  <2>3. [for |-> r, answer |-> a, code |-> Len(visit) + 1, at |-> None,
         stage |-> "sent", shown |-> FALSE] \in Callback
    BY <2>2 DEF Callback
  <2> QED BY <2>1, <2>3, CallsInv
<1>12. ASSUME NEW v \in Visit, Repeat(v) PROVE Inv'
  <2> DEFINE c == [visit[v] EXCEPT !.at = None, !.stage = "sent", !.shown = FALSE]
  <2>1. visit[v] \in Callback
    BY <1>1 DEF TypeOK, Visit
  <2>2. c \in Callback /\ c.stage = "sent" /\ c.code = visit[v].code /\ c.for = visit[v].for
    BY <2>1 DEF Callback
  <2>3. Calls(c) /\ c.code \in Visit /\ visit[c.code].for = c.for
    BY <1>1, <1>12, <2>2 DEF Repeat, CallInv
  <2> HIDE DEF c
  <2> QED BY <2>2, <2>3, CallsInv
<1>13. ASSUME NEW f \in Family, OtherProgram(f) PROVE Inv'
  <2>1. TypeOK'
    BY <1>1, <1>13, LoginAssumption DEF OtherProgram, TypeOK, locals
  <2>2. PortInv'
    <3>1. \A g \in Family : holder'[g] \in Run => holder'[g] = holder[g]
      BY <1>1, <1>13, LoginAssumption DEF OtherProgram, TypeOK
    <3> QED BY <1>1, <1>13, <3>1 DEF OtherProgram, PortInv, Visit
  <2>3. CallInv' /\ HeardInv' /\ Kept
    BY <1>1, <1>13 DEF OtherProgram, locals, CallInv, HeardInv, Shown, Visit, Kept
  <2> QED BY <1>1, <1>13, <2>1, <2>2, <2>3, CodeKept DEF OtherProgram, locals, Inv
<1>14. ASSUME UNCHANGED vars PROVE Inv'
  BY <1>1, <1>14 DEF vars, locals, world, Inv, TypeOK, CallInv, PortInv, HeardInv, Shown,
     CodeInv, CloudInv, Fitting, Fits, Visit
<1> QED
  BY <1>3, <1>4, <1>5, <1>6, <1>7, <1>8, <1>9, <1>10, <1>11, <1>12, <1>13, <1>14, HandlerInv
  DEF Next

-----------------------------------------------------------------------------
(* Theorems. *)

LEMMA Invariant == Spec => []Inv
BY InitInv, StepInv, PTL DEF Spec

\* The variables have their types.
THEOREM TypeCorrect == Spec => []TypeOK
<1>1. Inv => TypeOK
  BY DEF Inv
<1> QED BY <1>1, Invariant, PTL

\* A code that a run submits was given out for its own request and is not used up,
\* whatever callbacks of whichever runs reach the port (oauthCallbackHandler).
THEOREM SubmitsGoodCodes == Spec => []CodeIsGood
<1>1. ASSUME Inv, NEW r \in Run, pc[r] = "exchange" PROVE Honours(r)
  <2>1. visit[code[r]].for = r
    BY <1>1 DEF Inv, CodeInv
  <2>2. ASSUME NEW q \in Run, <<q, code[r]>> \in used PROVE FALSE
    BY <1>1, <2>1, <2>2 DEF Inv, CodeInv
  <2> QED BY <2>1, <2>2 DEF Honours
<1>2. Inv => CodeIsGood
  BY <1>1 DEF CodeIsGood
<1> QED BY <1>2, Invariant, PTL

\* The browser has the page of the callback that a run acts on (writeCallbackPage
\* before once.Do).
THEOREM ShowsPageFirst == Spec => []PageFirst
<1>1. Inv => PageFirst
  BY DEF Inv, HeardInv, Shown, PageFirst
<1> QED BY <1>1, Invariant, PTL

\* The grant stored is of the run's own request, and its cloud id is of a site that
\* fits, the only one (resolveCloudID).
THEOREM StoresFittingGrants == Spec => []GrantFits
<1>1. Inv => GrantFits
  BY DEF Inv, CodeInv, CloudInv, Fitting, Fits, GrantFits
<1> QED BY <1>1, Invariant, PTL

=============================================================================
