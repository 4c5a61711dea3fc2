----------------------------- MODULE OAuthLogin -----------------------------
(***************************************************************************)
(* The interactive half of `auth login --token-style oauth-3lo`, up to the *)
(* step where AuthStore takes over (internal/cli/auth.go, internal/oauth): *)
(* a run listens on the callback port on both loopback families, opens the *)
(* browser, waits for a callback or for its deadline, exchanges the code,  *)
(* asks which sites the grant reaches and stores the grant with a cloud    *)
(* id. Handlers of callbacks run next to the main goroutine; logins of two *)
(* terminals share the port, and the browser keeps tabs of both.           *)
(*                                                                         *)
(* A run stands for the random state and verifier it generates. What the   *)
(* flags are refused for leaves no trace and is not here.                  *)
(*                                                                         *)
(* Definitions with a name ending in Bug are wrong variants of the one     *)
(* below them, each with a plausible mistake.                              *)
(***************************************************************************)
EXTENDS Naturals, FiniteSets, Sequences

CONSTANTS
  Run,        \* logins
  Free, Other,  \* no listener; a listener of another program
  Sites,      \* answers of accessible-resources: sequences of [id, host]
  Meant,      \* the host of --url
  Override,   \* --cloud-id of each login, or None
  None,
  MaxVisits,  \* bound: callbacks the browser makes
  MaxOther    \* bound: times another program takes or frees a family

Id == UNION {{list[i].id : i \in DOMAIN list} : list \in Sites}

ASSUME LoginAssumption ==
  /\ Free \notin Run /\ Other \notin Run /\ Free # Other
  /\ None \notin Run \cup Id /\ {"no_match", "ambiguous"} \cap Id = {}
  /\ \A list \in Sites : IsFiniteSet(DOMAIN list)
  /\ Override \in [Run -> Id \cup {None}]
  /\ MaxVisits \in Nat /\ MaxOther \in Nat

VARIABLES
  pc,          \* where each run is, or how it ended
  due,         \* has its deadline passed?
  chan,        \* resultCh, of buffer one: the callback that was signalled, or 0
  once,        \* has a handler of the run sent?
  code, cloud, \* what the run has got so far
  holder,      \* who listens on each loopback family
  visit,       \* callbacks, in the order the browser makes them
  asked,       \* runs whose authorize URL is out
  used,        \* the service: codes exchanged
  heard,       \* history: the callback whose answer the run acted on
  others       \* counter of MaxOther

locals == <<due, chan, once, code, cloud>>
world  == <<asked, used, others>>
vars == <<pc, locals, holder, visit, world, heard>>

Family == {"v4", "v6"}
Visit  == DOMAIN visit
Answers == {"code", "denied", "bare"}    \* bare: neither a code nor an error
Listening == {"open", "wait", "exchange", "resources", "store"}
Ended == {"ok", "listen_failed", "denied", "mismatch", "bare", "timeout", "failed",
          "no_match", "ambiguous", "killed"}

\* A callback: the request it answers, the code it bears (the number of the visit
\* that first bore it), the run it reached, how far its handler is, whether the
\* browser got the page.
Callback == [for: Run, answer: Answers, code: 1..MaxVisits, at: Run \cup {None},
             stage: {"sent", "page", "signal", "over"}, shown: BOOLEAN]

Grant == [id: Id, among: Sites]

TypeOK ==
  /\ pc \in [Run -> {"idle"} \cup Family \cup Listening \cup Ended]
  /\ due \in [Run -> BOOLEAN] /\ once \in [Run -> BOOLEAN]
  /\ chan \in [Run -> 0..MaxVisits] /\ code \in [Run -> 0..MaxVisits]
  /\ cloud \in [Run -> Grant \cup {None}]
  /\ holder \in [Family -> Run \cup {Free, Other}]
  /\ visit \in Seq(Callback) /\ Len(visit) <= MaxVisits
  /\ asked \in SUBSET Run /\ used \in SUBSET (Run \X (1..MaxVisits))
  /\ heard \in [Run -> 0..MaxVisits] /\ others \in 0..MaxOther

-----------------------------------------------------------------------------
Init ==
  /\ pc = [r \in Run |-> "idle"] /\ due = [r \in Run |-> FALSE]
  /\ chan = [r \in Run |-> 0] /\ once = [r \in Run |-> FALSE]
  /\ code = [r \in Run |-> 0] /\ cloud = [r \in Run |-> None]
  /\ holder = [f \in Family |-> Free] /\ visit = <<>>
  /\ asked = {} /\ used = {} /\ heard = [r \in Run |-> 0] /\ others = 0

Goto(r, l) == pc' = [pc EXCEPT ![r] = l]

\* The function returns: srv.Close frees the port, and the process exits with its
\* handlers.
Return(r, o) ==
  /\ Goto(r, o)
  /\ holder' = [f \in Family |-> IF holder[f] = r THEN Free ELSE holder[f]]
  /\ visit' = [v \in Visit |-> IF visit[v].at = r THEN [visit[v] EXCEPT !.stage = "over"]
                               ELSE visit[v]]
  /\ due' = [due EXCEPT ![r] = FALSE]
  /\ chan' = [chan EXCEPT ![r] = 0] /\ once' = [once EXCEPT ![r] = FALSE]
  /\ code' = [code EXCEPT ![r] = 0] /\ cloud' = [cloud EXCEPT ![r] = None]

-----------------------------------------------------------------------------
(* listenLoopback *)

Start(r) ==
  /\ pc[r] = "idle"
  /\ Goto(r, "v4")
  /\ UNCHANGED <<locals, holder, visit, world, heard>>

\* net.Listen on the family whose turn it is
Bound(r) == [holder EXCEPT ![pc[r]] = IF @ = Free THEN r ELSE @]

\* Each family in turn; one is enough.
Listen(r) ==
  /\ pc[r] \in Family
  /\ pc[r] = "v6" => \E f \in Family : Bound(r)[f] = r
  /\ holder' = Bound(r)
  /\ Goto(r, IF pc[r] = "v4" THEN "v6" ELSE "open")
  /\ UNCHANGED <<locals, visit, world, heard>>

ListenFails(r) ==
  /\ pc[r] = "v6" /\ \A f \in Family : Bound(r)[f] # r
  /\ Return(r, "listen_failed")
  /\ UNCHANGED <<world, heard>>

\* The browser is opened, or the user opens the URL that was printed.
OpenBrowser(r) ==
  /\ pc[r] = "open"
  /\ Goto(r, "wait")
  /\ asked' = asked \cup {r}
  /\ UNCHANGED <<locals, holder, visit, used, others, heard>>

-----------------------------------------------------------------------------
(* The user and the browser *)

Calls(v) ==
  /\ Len(visit) < MaxVisits
  /\ visit' = Append(visit, v)
  /\ UNCHANGED <<pc, locals, holder, world, heard>>

\* The user answers the consent page of r, perhaps once more, perhaps long after.
Consent(r) ==
  /\ r \in asked
  /\ \E a \in Answers :
       Calls([for |-> r, answer |-> a, code |-> Len(visit) + 1, at |-> None,
              stage |-> "sent", shown |-> FALSE])

\* The browser makes callback v again (a reload, a restored tab).
Repeat(v) ==
  Calls([visit[v] EXCEPT !.at = None, !.stage = "sent", !.shown = FALSE])

\* localhost resolves to a family that a run listens on: a handler starts ...
Connect(v, f) ==
  /\ visit[v].stage = "sent" /\ holder[f] \in Run
  /\ visit' = [visit EXCEPT ![v].at = holder[f], ![v].stage = "page"]
  /\ UNCHANGED <<pc, locals, holder, world, heard>>

\* ... or to one where nobody does, or another program.
Miss(v, f) ==
  /\ visit[v].stage = "sent" /\ holder[f] \notin Run
  /\ visit' = [visit EXCEPT ![v].stage = "over"]
  /\ UNCHANGED <<pc, locals, holder, world, heard>>

\* Another program takes a free family, or leaves.
OtherProgram(f) ==
  /\ holder[f] \in {Free, Other} /\ others < MaxOther
  /\ holder' = [holder EXCEPT ![f] = IF @ = Free THEN Other ELSE Free]
  /\ others' = others + 1
  /\ UNCHANGED <<pc, locals, visit, asked, used, heard>>

-----------------------------------------------------------------------------
(* oauthCallbackHandler *)

\* writeCallbackPage, flushed
ShowPage(v) ==
  /\ visit[v].stage = "page"
  /\ visit' = [visit EXCEPT ![v].stage = "signal", ![v].shown = TRUE]
  /\ UNCHANGED <<pc, locals, holder, world, heard>>

\* Mistake: the page may come after the signal.
ReadyBug(v) == visit[v].stage \in {"page", "signal"}

Ready(v) == visit[v].stage = "signal"

\* once.Do(send): the first handler to come here fills the channel, the others send
\* nothing.
Signal(v) ==
  LET r == visit[v].at IN
  /\ Ready(v)
  /\ chan' = [chan EXCEPT ![r] = IF once[r] THEN @ ELSE v]
  /\ once' = [once EXCEPT ![r] = TRUE]
  /\ visit' = [visit EXCEPT ![v].stage = "over"]
  /\ UNCHANGED <<pc, due, code, cloud, holder, world, heard>>

\* Mistake: the state is not compared.
VerdictBug(r, v) == visit[v].answer

\* What the handler of run r makes of a callback: an error before the state, the
\* state before the code.
Verdict(r, v) ==
  IF visit[v].answer = "denied" THEN "denied"
  ELSE IF visit[v].for # r THEN "mismatch" ELSE visit[v].answer

-----------------------------------------------------------------------------
(* The main goroutine *)

\* case res := <-resultCh
Hears(r) ==
  /\ pc[r] = "wait" /\ chan[r] # 0
  /\ heard' = [heard EXCEPT ![r] = chan[r]]

ReceiveCode(r) ==
  /\ Hears(r) /\ Verdict(r, chan[r]) = "code"
  /\ code' = [code EXCEPT ![r] = visit[chan[r]].code]
  /\ chan' = [chan EXCEPT ![r] = 0]
  /\ Goto(r, "exchange")
  /\ UNCHANGED <<due, once, cloud, holder, visit, world>>

ReceiveError(r) ==
  /\ Hears(r) /\ Verdict(r, chan[r]) # "code"
  /\ Return(r, Verdict(r, chan[r]))
  /\ UNCHANGED world

\* oauthLoginTimeout passes.
Deadline(r) ==
  /\ pc[r] \in Listening \ {"open"} /\ ~due[r]
  /\ due' = [due EXCEPT ![r] = TRUE]
  /\ UNCHANGED <<pc, chan, once, code, cloud, holder, visit, world, heard>>

\* case <-ctx.Done(), also when a result is there as well
TimeOut(r) ==
  /\ pc[r] = "wait" /\ due[r]
  /\ Return(r, "timeout")
  /\ UNCHANGED <<world, heard>>

\* The token endpoint: a code is good once, with the verifier of its request.
Honours(r) == visit[code[r]].for = r /\ ~\E q \in Run : <<q, code[r]>> \in used

\* Exchange: the endpoint uses the code up.
Exchange(r) ==
  /\ pc[r] = "exchange" /\ Honours(r)
  /\ used' = used \cup {<<r, code[r]>>}
  /\ Goto(r, "resources")
  /\ UNCHANGED <<locals, holder, visit, asked, others, heard>>

\* Exchange or AccessibleResources returns an error: an answer, or none in time,
\* though the endpoint may have used the code up.
CallFails(r) ==
  /\ pc[r] \in {"exchange", "resources"}
  /\ \/ UNCHANGED used
     \/ pc[r] = "exchange" /\ Honours(r) /\ used' = used \cup {<<r, code[r]>>}
  /\ Return(r, "failed")
  /\ UNCHANGED <<asked, others, heard>>

\* The ids of the sites with the host of --url. (A host that does not parse is none.)
Matches(list) == {i \in DOMAIN list : list[i].host = Meant}

\* Mistake: the first match will do.
ResolveCloudIDBug(r, list) ==
  IF Override[r] # None
  THEN IF \E i \in DOMAIN list : list[i].id = Override[r] THEN Override[r] ELSE "no_match"
  ELSE IF Matches(list) = {} THEN "no_match"
  ELSE list[CHOOSE i \in Matches(list) : \A j \in Matches(list) : i <= j].id

ResolveCloudID(r, list) ==
  IF Override[r] # None
  THEN IF \E i \in DOMAIN list : list[i].id = Override[r] THEN Override[r] ELSE "no_match"
  ELSE CASE Cardinality(Matches(list)) = 0 -> "no_match"
         [] Cardinality(Matches(list)) = 1 -> list[CHOOSE i \in Matches(list) : TRUE].id
         [] OTHER -> "ambiguous"

\* AccessibleResources, and a cloud id is found in the answer ...
Resolve(r) ==
  /\ pc[r] = "resources"
  /\ \E list \in Sites :
       /\ ResolveCloudID(r, list) \in Id
       /\ cloud' = [cloud EXCEPT ![r] = [id |-> ResolveCloudID(r, list), among |-> list]]
  /\ Goto(r, "store")
  /\ UNCHANGED <<due, chan, once, code, holder, visit, world, heard>>

\* ... or none.
NoSite(r) ==
  /\ pc[r] = "resources"
  /\ \E list \in Sites :
       ResolveCloudID(r, list) \notin Id /\ Return(r, ResolveCloudID(r, list))
  /\ UNCHANGED <<world, heard>>

\* secrets.Save and persistProfile succeed, or one of them fails: AuthStore's part.
Store(r) ==
  /\ pc[r] = "store"
  /\ Return(r, "ok") \/ Return(r, "failed")
  /\ UNCHANGED <<world, heard>>

\* Ctrl-C, or the terminal is closed.
Killed(r) ==
  /\ pc[r] \in Family \cup Listening
  /\ Return(r, "killed")
  /\ UNCHANGED <<world, heard>>

Next ==
  \/ \E r \in Run :
       \/ Start(r) \/ Listen(r) \/ ListenFails(r) \/ OpenBrowser(r)
       \/ ReceiveCode(r) \/ ReceiveError(r) \/ TimeOut(r)
       \/ Exchange(r) \/ Resolve(r) \/ NoSite(r) \/ CallFails(r) \/ Store(r)
       \/ Killed(r) \/ Deadline(r) \/ Consent(r)
  \/ \E v \in Visit :
       \/ Repeat(v) \/ ShowPage(v) \/ Signal(v)
       \/ \E f \in Family : Connect(v, f) \/ Miss(v, f)
  \/ \E f \in Family : OtherProgram(f)

Spec == Init /\ [][Next]_vars

\* Mistake: the calls after the callback do not carry the deadline.
CutOffBug(r) == FALSE

\* The context of Exchange and AccessibleResources is done: the call returns.
CutOff(r) == due[r] /\ CallFails(r)

\* What a login does whatever the browser and the service do.
Own(r) ==
  \/ Listen(r) \/ ListenFails(r) \/ OpenBrowser(r)
  \/ ReceiveCode(r) \/ ReceiveError(r) \/ TimeOut(r) \/ Store(r) \/ CutOff(r)

\* The main goroutine runs, and time passes.
FairSpec == Spec /\ \A r \in Run : WF_vars(Own(r)) /\ WF_vars(Deadline(r))

-----------------------------------------------------------------------------
(* Properties. *)

\* A code that a run submits is good: the service gave it out for this very request
\* and has not seen it before, whatever tabs of this and of other logins reach the
\* port, in any order and again and again (oauthCallbackHandler, runOAuthLogin).
CodeIsGood == \A r \in Run : pc[r] = "exchange" => Honours(r)

\* When a run acts on a callback, the browser has that callback's page, although
\* acting on it ends the server sooner or later (auth.go 645-648).
PageFirst == \A r \in Run : heard[r] # 0 => visit[heard[r]].shown

\* A login stores a grant of its own request with the cloud id of a site that the
\* grant reaches: the one asked for, or else the only one with the host of --url
\* (resolveCloudID).
GrantFits ==
  \A r \in Run : pc[r] = "store" =>
    LET list == cloud[r].among
        fits(i) == IF Override[r] = None THEN list[i].host = Meant
                   ELSE list[i].id = Override[r]
    IN /\ <<r, code[r]>> \in used /\ visit[code[r]].for = r
       /\ \E i \in DOMAIN list : fits(i) /\ list[i].id = cloud[r].id
       /\ \A i, j \in DOMAIN list : fits(i) /\ fits(j) => list[i].id = list[j].id

\* A login ends, though the user never answers, the service never answers and
\* --timeout is off: its deadline covers the callback and both calls.
LoginEnds == \A r \in Run : pc[r] # "idle" ~> pc[r] \in Ended

=============================================================================
