------------------------------ MODULE Pagination ------------------------------
(***************************************************************************)
(* restutil.FollowAll (internal/restutil/restutil.go), the loop behind     *)
(* every --all, with the ways its callers find the next page:              *)
(*   offset  startAt and total        (jira ListCommentsAll, -Worklogs-)   *)
(*   isLast  the same, with isLast    (jira SearchProjectsAll)             *)
(*   cursor  a token or link that stands for the last item of the page     *)
(*           (jira SearchIssuesAll, conf followList)                       *)
(*   link    a link with a start offset or the number of a page            *)
(*           (conf followList, bitbucket followValues)                     *)
(* Only the service knows which of the last two a link of its is.          *)
(* The collection at the other end may change between two pages. Its items *)
(* are numbers, listed in their order; 0 is the empty cursor. pc is fetch  *)
(* while a request is under way, extract when it is answered, then done.   *)
(*                                                                         *)
(* Definitions with a name ending in Bug are wrong variants of the one     *)
(* below them, each with a plausible mistake.                              *)
(***************************************************************************)
EXTENDS FollowLoop, FiniteSets

CONSTANTS
  N,               \* bound: items are 1..N
  PageSize,        \* the most items the service puts on a page
  MaxEdits         \* bound: changes of the collection during the run

ASSUME PagesAssumption ==
  N \in Nat /\ PageSize \in Nat \ {0} /\ MaxEdits \in Nat

VARIABLES
  list,      \* the collection
  style,     \* how this endpoint pages
  lost,      \* does the service hand out any cursor, also a wrong one?
  cursor,    \* FollowAll: cursor
  got,       \* FollowAll: how often all holds each item (2: more than once)
  reply,     \* the body of the last answer
  old,       \* history: the collection when the run began
  removed,   \* history: what has been removed since
  shifted,   \* history: was anything inserted before the end?
  edits      \* counter of MaxEdits

loop == <<cursor, page, got>>
history == <<old, removed, shifted, edits>>
vars == <<list, style, lost, pc, loop, reply, outcome, history>>

Item == 1..N
Reply == [items: SUBSET Item, next: 0..N, total: 0..N, isLast: BOOLEAN]
Style == {"offset", "isLast", "cursor", "link"}

\* The styles whose next cursor is the service's to give.
Handed == {"cursor", "link"}

TypeOK ==
  /\ list \in SUBSET Item /\ style \in Style /\ lost \in BOOLEAN
  /\ pc \in {"fetch", "extract", "done"}
  /\ cursor \in 0..N /\ page \in 0..MaxFollowPages
  /\ got \in [Item -> 0..2]
  /\ reply \in Reply
  /\ outcome \in {"none", "ok", "truncated", "failed"}
  /\ old \in SUBSET Item /\ removed \in SUBSET Item
  /\ shifted \in BOOLEAN /\ edits \in 0..MaxEdits

Init ==
  /\ list \in SUBSET Item /\ style \in Style /\ lost \in BOOLEAN
  /\ pc = "fetch" /\ cursor = 0 /\ page = 0 /\ got = [x \in Item |-> 0]
  /\ reply = [items |-> {}, next |-> 0, total |-> 0, isLast |-> FALSE]
  /\ outcome = "none"
  /\ old = list /\ removed = {} /\ shifted = FALSE /\ edits = 0

-----------------------------------------------------------------------------
(* The service. *)

\* How many items of S come before x.
Rank(S, x) == Cardinality({y \in S : y < x})

\* What is listed at the cursor and after it.
Rest == IF style = "cursor" THEN {x \in list : x > cursor}
        ELSE {x \in list : Rank(list, x) >= cursor}

FirstOf(S, n) == {x \in S : Rank(S, x) < n}

\* Where the page after this one begins: a cursor is the last item of this one, a link
\* counts the items up to there.
After(items) ==
  IF style = "cursor" THEN {x \in items : \A y \in items : y <= x}
  ELSE IF items = {} THEN {} ELSE {cursor + Cardinality(items)}

\* The cursors that go with a page: the last page may have one, to an empty page.
Cursors(items, isLast) ==
  IF lost THEN 0..N ELSE After(items) \cup (IF isLast THEN {0} ELSE {})

\* The fetch: the service answers with a page of its choice of size.
Answer ==
  /\ pc = "fetch"
  /\ \E n \in 1..PageSize :
       LET items == FirstOf(Rest, n)
           isLast == items = Rest
       IN \E c \in Cursors(items, isLast) :
            reply' = [items |-> items, next |-> c, total |-> Cardinality(list),
                      isLast |-> isLast]
  /\ pc' = "extract"
  /\ UNCHANGED <<list, style, lost, loop, outcome, history>>

\* The collection gains an item, new to it, or loses one.
Insert(x) ==
  /\ x \notin list \cup old \cup removed
  /\ list' = list \cup {x}
  /\ shifted' = (shifted \/ \E y \in list : y > x)
  /\ UNCHANGED removed

Remove(x) ==
  /\ x \in list
  /\ list' = list \ {x} /\ removed' = removed \cup {x}
  /\ UNCHANGED shifted

Edit ==
  /\ pc # "done" /\ edits < MaxEdits
  /\ edits' = edits + 1
  /\ \E x \in Item : Insert(x) \/ Remove(x)
  /\ UNCHANGED <<style, lost, pc, loop, reply, outcome, old>>

-----------------------------------------------------------------------------
(* FollowAll. *)

\* Mistakes: the next page is counted from the beginning of this one; one item too few
\* is taken for the end.
offsetNextPageBug(sent, count, total) ==
  IF count = 0 \/ sent + count >= total THEN 0 ELSE count
offsetNextEndBug(sent, count, total) ==
  IF count = 0 \/ sent + count >= total - 1 THEN 0 ELSE sent + count

offsetNext(sent, count, total) ==
  IF count = 0 \/ sent + count >= total THEN 0 ELSE sent + count

\* The extract callback: the next cursor, 0 for none.
NextCursor ==
  CASE style \in Handed -> reply.next
    [] style = "isLast" /\ reply.isLast -> 0
    [] OTHER -> offsetNext(cursor, Cardinality(reply.items), reply.total)

Collect ==
  got' = [x \in Item |-> IF x \in reply.items /\ got[x] < 2 THEN got[x] + 1 ELSE got[x]]

\* Mistake: the loop does not count.
TurnBug == page

\* page++
Turn == page + 1

\* next == "": the loop ends with everything.
LastPage ==
  /\ pc = "extract" /\ NextCursor = 0
  /\ Collect /\ page' = Turn
  /\ Return("ok")
  /\ UNCHANGED <<list, style, lost, cursor, reply, history>>

\* Mistake: the last page allowed is never asked for.
RoomBug == Turn + 1 < MaxFollowPages

\* Does the loop go round again?
Room == Turn < MaxFollowPages

NextPage ==
  /\ pc = "extract" /\ NextCursor # 0 /\ Room
  /\ Collect /\ page' = Turn
  /\ cursor' = NextCursor
  /\ pc' = "fetch"
  /\ UNCHANGED <<list, style, lost, reply, outcome, history>>

\* !done: TruncatedError.
CapReached ==
  /\ pc = "extract" /\ NextCursor # 0 /\ ~Room
  /\ Collect /\ page' = Turn
  /\ cursor' = NextCursor
  /\ Return("truncated")
  /\ UNCHANGED <<list, style, lost, reply, history>>

\* The request fails, or its answer cannot be decoded.
Fail ==
  /\ pc \in {"fetch", "extract"}
  /\ Return("failed")
  /\ UNCHANGED <<list, style, lost, loop, reply, history>>

Next == Answer \/ Edit \/ LastPage \/ NextPage \/ CapReached \/ Fail

Spec == Init /\ [][Next]_vars

\* A request ends (httpclient has a timeout), and the loop does not sleep.
FairSpec ==
  Spec /\ WF_vars(Answer \/ Fail) /\ WF_vars(LastPage \/ NextPage \/ CapReached)

-----------------------------------------------------------------------------
(* Properties. *)

Stayed == old \ removed

\* What --all returns holds every item that was there all along, if the service anchors
\* its cursor at an item, or if nothing is removed meanwhile (jira/client.go 324-340).
EveryItem ==
  outcome = "ok" /\ ~lost /\ (style = "cursor" \/ removed = {}) =>
    \A x \in Stayed : got[x] > 0

\* No item is collected twice, if the service anchors its cursor at an item, or if
\* nothing is inserted before the end meanwhile.
OnceEach ==
  ~lost /\ (style = "cursor" \/ ~shifted) => \A x \in Item : got[x] <= 1

\* In a collection at rest the cap strikes only after as many pages with items as it
\* allows, and only while items are missing, or after a last page to which the service
\* gave a token or link all the same: --all then refuses a set that it holds whole. An
\* endpoint that counts (offset, isLast) has no such page (FollowAll, restutil.go 167-187).
CapIsHonest ==
  outcome = "truncated" /\ ~lost /\ edits = 0 =>
    /\ Cardinality({x \in list : got[x] > 0}) >= MaxFollowPages
    /\ (\E x \in list : got[x] = 0) \/ (style \in Handed /\ reply.isLast)

\* The loop ends, also when the cursors it is handed go round in a circle.
LoopEnds == <>(pc = "done")
=============================================================================
