-------------------------- MODULE ContentEditProofs --------------------------
(***************************************************************************)
(* Proofs about ContentEdit, for any number of edits, any texts and any    *)
(* number of versions made by others: what a run reports is true, no edit  *)
(* clears a body unasked, and every edit is one atomic, partial update.    *)
(*                                                                         *)
(* The argument: a version names one title and one body for good, so what  *)
(* a run read at a version is what the service still holds as long as it   *)
(* is at that version, and the service takes no update of another one.     *)
(***************************************************************************)
EXTENDS ContentEdit, TLAPS

\* What c says is what the content still says, if it is still at that version.
SameVersionSame(c) ==
  /\ c.version <= content.version
  /\ c.version = content.version => c.title = content.title /\ c.body = content.body

\* The second request is only made for a body the first one did not return.
ReadInv ==
  \A r \in Run : pc[r] = "getADF" =>
    SameVersionSame(cur[r]) /\ job[r].body = Keep /\ cur[r].status # "gone"

\* The update of run r, were it to take effect now.
Fits(r) ==
  /\ put[r].version <= content.version + 1
  /\ put[r].version = content.version + 1 =>
       /\ put[r].title = Shared!Merged(content, job[r]).title
       /\ put[r].body = Shared!Merged(content, job[r]).body

SentInv ==
  \A r \in Run : verdict[r] = "sent" =>
    /\ Fits(r) /\ put[r].status = cur[r].status /\ put[r].status # "gone"
    /\ job[r].body = Keep => put[r].body.value # Empty

\* Where a run is and what has become of its update.
OrderInv ==
  \A r \in Run : /\ pc[r] \in {"get", "getADF"} => verdict[r] = "none"
                 /\ pc[r] = "put" => verdict[r] # "none"

Inv == TypeOK /\ ReadInv /\ SentInv /\ OrderInv /\ Reported

-----------------------------------------------------------------------------

\* A body read back in the one representation that has text is the body.
LEMMA ReadBack ==
  ASSUME NEW f \in Format, NEW b \in Body, Preserves(ReadAs(f, b))
  PROVE  ReadAs(f, b) = b
<1>1. b = [format |-> b.format, value |-> b.value]
  BY DEF Body
<1> QED BY <1>1 DEF ReadAs, Preserves

LEMMA ReadIsBody ==
  ASSUME NEW f \in Format, NEW b \in Body PROVE ReadAs(f, b) \in Body
BY EditAssumption DEF ReadAs, Body

LEMMA UpdateIsContent ==
  ASSUME NEW c \in Content, NEW j \in Job, NEW b \in Body
  PROVE  Update(c, j, b) \in Content
BY DEF Update, Content, Job

LEMMA InitInv == Init => Inv
BY DEF Init, Inv, TypeOK, ReadInv, SentInv, OrderInv, Reported, Content, Status

LEMMA TypeStep == TypeOK /\ [Next]_vars => TypeOK'
<1> SUFFICES ASSUME TypeOK, [Next]_vars PROVE TypeOK'
  OBVIOUS
<1> USE DEF TypeOK
<1>1. ASSUME NEW r \in Run, Get(r) PROVE TypeOK'
  <2> DEFINE stored == ReadAs("storage", content.body)
  <2>1. content.body \in Body /\ job[r] \in Job
    BY DEF Content
  <2>2. stored \in Body
    BY <2>1, ReadIsBody DEF Format
  <2>3. ASSUME NEW b \in Body, Send(r, content, b) PROVE put' \in [Run -> Content]
    BY <2>1, <2>3, UpdateIsContent DEF Send
  <2>4. CASE job[r].body # Keep /\ Send(r, content, job[r].body)
    <3>1. job[r].body \in Body
      BY <2>1, <2>4 DEF Job
    <3> QED BY <1>1, <2>3, <2>4, <3>1 DEF Get, Send
  <2>5. CASE Send(r, content, stored)
    BY <1>1, <2>2, <2>3, <2>5 DEF Get, Send
  <2>6. CASE /\ pc' = [pc EXCEPT ![r] = "getADF"]
             /\ UNCHANGED <<put, verdict, outcome>>
    BY <1>1, <2>6 DEF Get
  <2> QED BY <1>1, <2>4, <2>5, <2>6 DEF Get
<1>2. ASSUME NEW r \in Run, GetADF(r) PROVE TypeOK'
  <2> DEFINE adf == ReadAs("atlas_doc_format", content.body)
  <2>1. adf \in Body
    BY ReadIsBody DEF Content, Format
  <2>2. CASE Send(r, cur[r], adf)
    <3>1. put' \in [Run -> Content]
      BY <2>1, <2>2, UpdateIsContent DEF Send
    <3> QED BY <1>2, <2>2, <3>1 DEF GetADF, Send
  <2>3. CASE Return(r, "refused") /\ UNCHANGED <<put, verdict>>
    BY <1>2, <2>3 DEF GetADF, Return
  <2> QED BY <1>2, <2>2, <2>3 DEF GetADF
<1>3. ASSUME NEW r \in Run, Confirmed(r) \/ Conflict(r) \/ Fail(r) PROVE TypeOK'
  BY <1>3 DEF Confirmed, Conflict, Fail, Return, Silence
<1>4. ASSUME NEW r \in Run, Accept(r) PROVE TypeOK'
  <2>1. content' \in Content
    BY <1>4 DEF Accept, Content
  <2> QED BY <1>4, <2>1 DEF Accept, run
<1>5. ASSUME NEW r \in Run, Reject(r) PROVE TypeOK'
  BY <1>5 DEF Reject, run
<1>6. CASE Others \/ Delete \/ Restore
  <2>1. content.status \in Status /\ content.version \in Nat
    BY DEF Content
  <2>2. CASE Others
    <3>1. PICK t \in Title, b \in Body :
            content' = [content EXCEPT !.title = t, !.body = b, !.version = @ + 1]
      BY <2>2 DEF Others
    <3>2. content' = [title |-> t, body |-> b, status |-> content.status,
                      version |-> content.version + 1]
      BY <3>1 DEF Content
    <3>3. content' \in Content
      BY <2>1, <3>2 DEF Content
    <3> QED BY <2>2, <3>3 DEF Others, run
  <2>3. CASE Delete \/ Restore
    <3>1. PICK s \in Status : content' = [content EXCEPT !.status = s]
      BY <2>3 DEF Delete, Restore, Status
    <3> QED BY <2>3, <3>1 DEF Delete, Restore, Content, run
  <2> QED BY <1>6, <2>2, <2>3
<1>7. CASE UNCHANGED vars
  BY <1>7 DEF vars, run
<1> QED BY <1>1, <1>2, <1>3, <1>4, <1>5, <1>6, <1>7 DEF Next, Step

\* Content only changes together with its version, apart from its status.
LEMMA VersionsNameContent ==
  ASSUME TypeOK, [Next]_vars
  PROVE  /\ content.version <= content'.version
         /\ content.version = content'.version =>
              content.title = content'.title /\ content.body = content'.body
<1> USE DEF TypeOK
<1>1. ASSUME NEW r \in Run, Accept(r)
      PROVE  content'.version = content.version + 1
  BY <1>1 DEF Accept, Content
<1>2. CASE Others
  BY <1>2 DEF Others, Content
<1>3. CASE Delete \/ Restore
  BY <1>3 DEF Delete, Restore, Content
<1>4. ASSUME NEW r \in Run, Get(r) \/ GetADF(r) \/ Confirmed(r) \/ Conflict(r)
                              \/ Fail(r) \/ Reject(r)
      PROVE  content' = content
  BY <1>4 DEF Get, GetADF, Confirmed, Conflict, Fail, Reject
<1>5. content.version \in Nat
  BY DEF Content
<1> QED BY <1>1, <1>2, <1>3, <1>4, <1>5 DEF Next, Step, vars

\* What was read at a version stays what that version says.
LEMMA StillSame ==
  ASSUME TypeOK, [Next]_vars, NEW c \in Content, SameVersionSame(c)
  PROVE  SameVersionSame(c)'
<1>1. content.version \in Nat /\ content'.version \in Nat /\ c.version \in Nat
  BY TypeStep DEF TypeOK, Content
<1> QED BY <1>1, VersionsNameContent DEF SameVersionSame

\* What Send puts on the way fits the content it is sent at.
LEMMA SentFits ==
  ASSUME TypeOK, NEW r \in Run, NEW c \in Content, NEW b \in Body, Send(r, c, b),
         SameVersionSame(c), c.status # "gone", UNCHANGED <<content, job>>,
         b = Shared!Merged(content, job[r]).body,
         job[r].body = Keep => b.value # Empty
  PROVE  /\ Fits(r)' /\ put'[r].status = c.status /\ put'[r].status # "gone"
         /\ job'[r].body = Keep => put'[r].body.value # Empty
<1>1. put'[r] = Update(c, job[r], b)
  BY DEF Send, TypeOK
<1>2. job[r] \in Job /\ content \in Content
  BY DEF TypeOK
<1>3. put'[r].version = c.version + 1 /\ put'[r].body = b /\ put'[r].status = c.status
  BY <1>1 DEF Update
<1>4. c.version \in Nat /\ content.version \in Nat
  BY <1>2 DEF Content
<1>5. ASSUME c.version = content.version
      PROVE  put'[r].title = Shared!Merged(content, job[r]).title
  <2>1. c.title = content.title
    BY <1>5 DEF SameVersionSame
  <2> QED BY <1>1, <1>2, <2>1 DEF Update, Shared!Merged, Content
<1> QED BY <1>3, <1>4, <1>5 DEF Fits, SameVersionSame

\* An update under way still fits after any other run's or user's step.
LEMMA StillFits ==
  ASSUME TypeOK, [Next]_vars, NEW r \in Run, Fits(r),
         put'[r] = put[r], job'[r] = job[r]
  PROVE  Fits(r)'
<1>1. /\ content \in Content /\ content' \in Content /\ job[r] \in Job /\ put[r] \in Content
  BY TypeStep DEF TypeOK
<1>2. content.version \in Nat /\ content'.version \in Nat /\ put[r].version \in Nat
  BY <1>1 DEF Content
<1>3. ASSUME put[r].version = content'.version + 1
      PROVE  /\ put[r].title = Shared!Merged(content', job[r]).title
             /\ put[r].body = Shared!Merged(content', job[r]).body
  <2>1. content.version = content'.version
    BY <1>2, <1>3, VersionsNameContent DEF Fits
  <2>2. content.title = content'.title /\ content.body = content'.body
    BY <2>1, VersionsNameContent
  <2> QED BY <1>1, <1>2, <1>3, <2>1, <2>2 DEF Fits, Shared!Merged, Content
<1>4. put[r].version <= content'.version + 1
  BY <1>2, VersionsNameContent DEF Fits
<1> QED BY <1>3, <1>4 DEF Fits

-----------------------------------------------------------------------------

LEMMA ReadStep == Inv /\ [Next]_vars => ReadInv'
<1> SUFFICES ASSUME Inv, [Next]_vars, NEW r \in Run, pc'[r] = "getADF"
             PROVE  SameVersionSame(cur[r])' /\ job'[r].body = Keep /\ cur'[r].status # "gone"
  BY DEF ReadInv
<1>1. TypeOK /\ content \in Content /\ cur[r] \in Content /\ content.version \in Nat
  BY DEF Inv, TypeOK, Content
<1>2. CASE Get(r) /\ pc[r] = "get"
  <2>1. cur'[r] = content /\ job[r].body = Keep /\ UNCHANGED <<content, job>>
    BY <1>1, <1>2 DEF Get, Send, TypeOK
  <2>2. content.status # "gone"
    BY <1>2 DEF Get
  <2> QED BY <1>1, <2>1, <2>2 DEF SameVersionSame
<1>3. CASE pc[r] = "getADF" /\ cur'[r] = cur[r] /\ job'[r] = job[r]
  <2>1. SameVersionSame(cur[r]) /\ job[r].body = Keep /\ cur[r].status # "gone"
    BY <1>3 DEF Inv, ReadInv
  <2>2. SameVersionSame(cur[r])'
    <3>1. PICK c \in Content : c = cur[r]
      BY <1>1
    <3>2. SameVersionSame(c)'
      BY <1>1, <2>1, <3>1, StillSame
    <3> QED BY <1>3, <3>1, <3>2 DEF SameVersionSame
  <2> QED BY <1>3, <2>1, <2>2
<1>4. \/ Get(r) /\ pc[r] = "get"
      \/ pc[r] = "getADF" /\ cur'[r] = cur[r] /\ job'[r] = job[r]
  <2>1. ASSUME NEW q \in Run, Get(q) PROVE <1>4!1 \/ <1>4!2
    BY <1>1, <2>1 DEF Get, Send, TypeOK
  <2>2. ASSUME NEW q \in Run, GetADF(q) PROVE <1>4!1 \/ <1>4!2
    BY <1>1, <2>2 DEF GetADF, Send, Return, TypeOK
  <2>3. ASSUME NEW q \in Run, Confirmed(q) \/ Conflict(q) \/ Fail(q) PROVE <1>4!1 \/ <1>4!2
    BY <1>1, <2>3 DEF Confirmed, Conflict, Fail, Return, TypeOK
  <2>4. ASSUME NEW q \in Run, Accept(q) \/ Reject(q) PROVE <1>4!1 \/ <1>4!2
    BY <2>4 DEF Accept, Reject, run
  <2>5. CASE Others \/ Delete \/ Restore \/ UNCHANGED vars
    BY <2>5 DEF Others, Delete, Restore, run, vars
  <2> QED BY <2>1, <2>2, <2>3, <2>4, <2>5 DEF Next, Step
<1> QED BY <1>2, <1>3, <1>4
LEMMA OrderStep == Inv /\ [Next]_vars => OrderInv' /\ Reported'
<1> SUFFICES ASSUME Inv, [Next]_vars PROVE OrderInv' /\ Reported'
  OBVIOUS
<1> USE DEF Inv, TypeOK, OrderInv, Reported
<1>1. ASSUME NEW q \in Run, Get(q) PROVE OrderInv' /\ Reported'
  <2>1. \/ /\ verdict' = [verdict EXCEPT ![q] = "sent"] /\ pc' = [pc EXCEPT ![q] = "put"]
           /\ UNCHANGED outcome
        \/ pc' = [pc EXCEPT ![q] = "getADF"] /\ UNCHANGED <<verdict, outcome>>
    BY <1>1 DEF Get, Send
  <2>2. pc[q] = "get"
    BY <1>1 DEF Get
  <2> QED BY <2>1, <2>2
<1>2. ASSUME NEW q \in Run, GetADF(q) PROVE OrderInv' /\ Reported'
  BY <1>2 DEF GetADF, Send, Return
<1>3. ASSUME NEW q \in Run, Confirmed(q) PROVE OrderInv' /\ Reported'
  BY <1>3 DEF Confirmed, Return
<1>4. ASSUME NEW q \in Run, Conflict(q) PROVE OrderInv' /\ Reported'
  BY <1>4 DEF Conflict, Return
<1>5. ASSUME NEW q \in Run, Fail(q) PROVE OrderInv' /\ Reported'
  BY <1>5 DEF Fail, Return, Silence
<1>6. ASSUME NEW q \in Run, Accept(q) \/ Reject(q) PROVE OrderInv' /\ Reported'
  BY <1>6 DEF Accept, Reject, run
<1>7. CASE Others \/ Delete \/ Restore \/ UNCHANGED vars
  BY <1>7 DEF Others, Delete, Restore, run, vars
<1> QED BY <1>1, <1>2, <1>3, <1>4, <1>5, <1>6, <1>7 DEF Next, Step

LEMMA SentStep == Inv /\ [Next]_vars => SentInv'
<1> SUFFICES ASSUME Inv, [Next]_vars, NEW r \in Run, verdict'[r] = "sent"
             PROVE  /\ Fits(r)' /\ put'[r].status = cur'[r].status /\ put'[r].status # "gone"
                    /\ job'[r].body = Keep => put'[r].body.value # Empty
  BY DEF SentInv
<1>1. TypeOK /\ content \in Content /\ job[r] \in Job /\ content.body \in Body
  BY DEF Inv, TypeOK, Content
<1>2. CASE Get(r)
  <2> DEFINE stored == ReadAs("storage", content.body)
  <2>1. SameVersionSame(content) /\ content.status # "gone" /\ UNCHANGED <<content, job>>
    BY <1>1, <1>2 DEF Get, SameVersionSame, Content
  <2>2. pc[r] = "get" /\ verdict[r] = "none" /\ cur'[r] = content
    BY <1>2 DEF Get, Inv, OrderInv, TypeOK
  <2>3. CASE job[r].body # Keep /\ Send(r, content, job[r].body)
    <3>1. job[r].body \in Body /\ job[r].body = Shared!Merged(content, job[r]).body
      BY <1>1, <2>3 DEF Job, Shared!Merged, Content
    <3> QED BY <1>1, <2>1, <2>2, <2>3, <3>1, SentFits
  <2>4. CASE job[r].body = Keep /\ Preserves(stored) /\ Send(r, content, stored)
    <3>1. stored = content.body
      BY <1>1, <2>4, ReadBack DEF Format
    <3>2. stored = Shared!Merged(content, job[r]).body
      BY <1>1, <2>4, <3>1 DEF Shared!Merged, Content
    <3> QED BY <1>1, <2>1, <2>2, <2>4, <3>1, <3>2, SentFits DEF Preserves
  <2>5. CASE UNCHANGED verdict
    BY <2>2, <2>5
  <2> QED BY <1>2, <2>3, <2>4, <2>5 DEF Get
<1>3. CASE GetADF(r)
  <2> DEFINE adf == ReadAs("atlas_doc_format", content.body)
  <2>1. /\ SameVersionSame(cur[r]) /\ cur[r].status # "gone" /\ job[r].body = Keep
        /\ cur[r] \in Content /\ verdict[r] = "none" /\ UNCHANGED <<content, job, cur>>
    BY <1>3 DEF GetADF, Inv, TypeOK, ReadInv, OrderInv
  <2>2. CASE Preserves(adf) /\ Send(r, cur[r], adf)
    <3>1. adf = content.body
      BY <1>1, <2>2, ReadBack DEF Format
    <3>2. adf = Shared!Merged(content, job[r]).body
      BY <1>1, <2>1, <3>1 DEF Shared!Merged, Content
    <3> QED BY <1>1, <2>1, <2>2, <3>1, <3>2, SentFits DEF Preserves
  <2>3. CASE UNCHANGED verdict
    BY <2>1, <2>3
  <2> QED BY <1>3, <2>2, <2>3 DEF GetADF
<1>4. CASE verdict[r] = "sent" /\ UNCHANGED <<put[r], cur[r], job[r]>>
  BY <1>1, <1>4, StillFits DEF Inv, SentInv
<1>5. \/ Get(r) \/ GetADF(r)
      \/ verdict[r] = "sent" /\ UNCHANGED <<put[r], cur[r], job[r]>>
  <2>1. ASSUME NEW q \in Run, q # r, Get(q) PROVE <1>5!2
    BY <1>1, <2>1 DEF Get, Send, TypeOK
  <2>2. ASSUME NEW q \in Run, q # r, GetADF(q) PROVE <1>5!2
    BY <1>1, <2>2 DEF GetADF, Send, Return, TypeOK
  <2>3. ASSUME NEW q \in Run, Confirmed(q) \/ Conflict(q) \/ Fail(q) PROVE <1>5!2
    BY <2>3 DEF Confirmed, Conflict, Fail
  <2>4. ASSUME NEW q \in Run, Accept(q) \/ Reject(q) PROVE <1>5!2
    BY <1>1, <2>4 DEF Accept, Reject, run, TypeOK
  <2>5. CASE Others \/ Delete \/ Restore \/ UNCHANGED vars
    BY <2>5 DEF Others, Delete, Restore, run, vars
  <2> QED BY <2>1, <2>2, <2>3, <2>4, <2>5 DEF Next, Step
<1> QED BY <1>2, <1>3, <1>4, <1>5

LEMMA Invariant == Spec => []Inv
<1>1. Inv /\ [Next]_vars => Inv'
  BY TypeStep, ReadStep, SentStep, OrderStep DEF Inv
<1> QED BY InitInv, <1>1, PTL DEF Spec

-----------------------------------------------------------------------------

\* Types, and that a run is done exactly when it has an outcome (TypeOK).
THEOREM TypeCorrect == Spec => []TypeOK
BY Invariant, PTL DEF Inv

\* Whatever gets lost or arrives late, a run that reports its update as made or as
\* refused is right about it for good.
THEOREM Honest == Spec => []Reported
BY Invariant, PTL DEF Inv

\* An edit without --body never leaves the content without text.
THEOREM NothingIsCleared == Spec => NothingCleared
<1>1. Inv /\ [Next]_vars =>
        [\A r \in Run : Accept(r) /\ job[r].body = Keep => content'.body.value # Empty]_vars
  <2> SUFFICES ASSUME Inv, NEW r \in Run, Accept(r), job[r].body = Keep
               PROVE  content'.body.value # Empty
    OBVIOUS
  <2>1. put[r] \in Content /\ put[r].body.value # Empty
    BY DEF Accept, Inv, TypeOK, SentInv
  <2> QED BY <2>1 DEF Accept, Content
<1> QED BY <1>1, Invariant, PTL DEF Spec, NothingCleared

\* ContentEdit implements SharedContent: every edit is one atomic partial update of
\* the content as it is when the update takes effect.
THEOREM EditsAreAtomic == Spec => AtomicEdits
<1> DEFINE made == {r \in Run : verdict[r] = "accepted"}
           looked == [r \in Run |-> cur[r].status]
<1>1. Init => Shared!Init
  BY InitInv DEF Init, Inv, TypeOK, Shared!Init, Shared!Content, Shared!Body, Shared!Status,
     Shared!Job, Content, Body, Status, Job, Format
<1>2. Inv /\ [Next]_vars => [Shared!Next]_<<content, job, made, looked>>
  <2> SUFFICES ASSUME Inv, [Next]_vars PROVE [Shared!Next]_<<content, job, made, looked>>
    OBVIOUS
  <2>1. ASSUME NEW r \in Run, Accept(r) PROVE Shared!Apply(r)
    <3>1. /\ put[r] \in Content /\ content \in Content /\ job[r] \in Job
          /\ Fits(r) /\ put[r].status = looked[r]
      BY <2>1 DEF Inv, TypeOK, SentInv, Accept
    <3>2. r \notin made /\ made' = made \cup {r}
      BY <2>1 DEF Accept, Inv, TypeOK
    <3>3. PICK s \in {content.status, put[r].status} : content' = [put[r] EXCEPT !.status = s]
      BY <2>1 DEF Accept
    <3>4. s \in {content.status, looked[r]} /\ UNCHANGED looked
      BY <2>1, <3>1, <3>3 DEF Accept, run
    <3>5. content' = [Shared!Merged(content, job[r]) EXCEPT !.status = s, !.version = @ + 1]
      BY <2>1, <3>1, <3>3 DEF Accept, Fits, Shared!Merged, Content
    <3> QED BY <2>1, <3>2, <3>4, <3>5 DEF Accept, run, Shared!Apply
  <2>2. CASE Others \/ Delete \/ Restore
    <3>1. content' \in Shared!Content
      BY TypeStep DEF Inv, TypeOK, Content, Body, Status, Format, Shared!Content, Shared!Body,
         Shared!Status
    <3>2. UNCHANGED <<job, made, looked>>
      BY <2>2 DEF Others, Delete, Restore, run
    <3> QED BY <3>1, <3>2 DEF Shared!Next, Shared!Others
  <2>3. ASSUME NEW r \in Run, Get(r) PROVE Shared!Look(r)
    <3>1. \A q \in Run : verdict'[q] = "accepted" <=> verdict[q] = "accepted"
      BY <2>3 DEF Get, Send, Inv, TypeOK, OrderInv
    <3>2. r \notin made /\ looked' = [looked EXCEPT ![r] = content.status]
      BY <2>3 DEF Get, Inv, TypeOK, OrderInv
    <3> QED BY <2>3, <3>1, <3>2 DEF Get, Shared!Look
  <2>4. ASSUME NEW r \in Run, GetADF(r) \/ Confirmed(r) \/ Conflict(r)
                                \/ Fail(r) \/ Reject(r)
        PROVE  UNCHANGED <<content, job, made, looked>>
    <3>1. \A q \in Run : verdict'[q] = "accepted" <=> verdict[q] = "accepted"
      BY <2>4 DEF GetADF, Confirmed, Conflict, Fail, Reject, Send, run, Inv, TypeOK, OrderInv
    <3> QED BY <2>4, <3>1 DEF GetADF, Confirmed, Conflict, Fail, Reject, run
  <2>5. CASE UNCHANGED vars
    BY <2>5 DEF vars, run
  <2> QED BY <2>1, <2>2, <2>3, <2>4, <2>5 DEF Next, Step, Shared!Next
<1> QED BY <1>1, <1>2, Invariant, PTL DEF Spec, AtomicEdits, Shared!Spec, Shared!vars
=============================================================================
