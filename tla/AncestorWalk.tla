----------------------------- MODULE AncestorWalk -----------------------------
(***************************************************************************)
(* conf.GetPageAncestorsAll (internal/conf/client.go): the way up from a   *)
(* page, one batch of ancestors per request, each batch top to bottom and  *)
(* put before what was collected. The content tree may change between two  *)
(* requests. pc is ask while a request is under way, read when it is       *)
(* answered, then done. The names of the walk differ from those of         *)
(* Pagination, so that the proofs about both loops may be one module.      *)
(*                                                                         *)
(* Definitions with a name ending in Bug are wrong variants of the one     *)
(* below them, each with a plausible mistake.                              *)
(***************************************************************************)
EXTENDS FollowLoop, Sequences, FiniteSets, Functions

CONSTANTS
  Content,         \* what is in the tree
  Start,           \* the page whose ancestors are wanted
  Kind,            \* the content types the walk knows
  Page,            \* the one of pages
  Alien,           \* a content type it does not know
  None,            \* no parent
  BatchSize,       \* the most ancestors the service returns at a time
  MaxMoves         \* bound: changes of the tree during the walk

ASSUME WalkAssumption ==
  /\ Start \in Content /\ None \notin Content /\ Page \in Kind /\ Alien \notin Kind
  /\ BatchSize \in Nat \ {0} /\ MaxMoves \in Nat
  /\ IsFiniteSet(Content)

VARIABLES
  above, type,     \* the tree: what is above each content, top to bottom, and what it is
  id, kind,        \* where the request goes
  items, seen,
  batch,           \* batch.Results
  moves            \* counter of MaxMoves

tree == <<above, type>>
walk == <<id, kind, items, seen, page>>
walkVars == <<tree, pc, walk, batch, outcome, moves>>

Outcome ==
  {"none", "ok", "truncated", "repeated", "unsupported", "failed"}

WalkTypeOK ==
  /\ above \in [Content -> Seq(Content)] /\ type \in [Content -> Kind \cup {Alien}]
  /\ pc \in {"ask", "read", "done"}
  /\ id \in Content /\ kind \in Kind
  /\ items \in Seq(Content) /\ seen \in SUBSET Content
  /\ page \in 0..MaxFollowPages
  /\ batch \in Seq(Content) /\ Len(batch) <= BatchSize
  /\ outcome \in Outcome /\ moves \in 0..MaxMoves

-----------------------------------------------------------------------------
(* The service. *)

\* What is above something in y.
Within(y) == IF y = None THEN <<>> ELSE Append(above[y], y)

\* The chains that may be above Start, and the tree that one makes.
Chains == UNION {{c \in [1..n -> Content \ {Start}] : IsInjective(c)} : n \in 0..Cardinality(Content) - 1}
TreeOf(c) ==
  LET down == Append(c, Start)
  IN [x \in Content |-> IF \E i \in DOMAIN down : down[i] = x
                        THEN SubSeq(down, 1, (CHOOSE i \in DOMAIN down : down[i] = x) - 1)
                        ELSE <<>>]

WalkInit ==
  /\ \E c \in Chains : above = TreeOf(c)
  /\ type \in [Content -> Kind \cup {Alien}] /\ type[Start] = Page
  /\ pc = "ask" /\ id = Start /\ kind = Page
  /\ items = <<>> /\ seen = {Start} /\ page = 0
  /\ batch = <<>> /\ outcome = "none" /\ moves = 0

\* The service answers with as many of the nearest ancestors as it chooses.
AnswerAbove ==
  /\ pc = "ask" /\ kind = type[id]
  /\ \E n \in 1..BatchSize :
       LET all == above[id]
       IN batch' = SubSeq(all, IF Len(all) > n THEN Len(all) - n + 1 ELSE 1, Len(all))
  /\ pc' = "read"
  /\ UNCHANGED <<tree, walk, outcome, moves>>

\* Someone moves x, and what is below it, to y.
Move(x, y) ==
  /\ pc # "done" /\ moves < MaxMoves
  /\ y \in Content => x # y /\ x \notin Range(above[y])
  /\ above[x] # Within(y)
  /\ above' = [z \in Content |->
                IF z = x \/ x \in Range(above[z])
                THEN Within(y) \o SubSeq(above[z], Len(above[x]) + 1, Len(above[z]))
                ELSE above[z]]
  /\ moves' = moves + 1
  /\ UNCHANGED <<type, pc, walk, batch, outcome>>

-----------------------------------------------------------------------------
(* The walk. *)

\* An empty batch: the top is reached.
Top ==
  /\ pc = "read" /\ batch = <<>>
  /\ Return("ok")
  /\ UNCHANGED <<tree, walk, batch, moves>>

\* Mistake: the walk goes on from the ancestor it is nearest to.
HighestBug == batch[Len(batch)]

\* Where the walk goes on.
Highest == batch[1]

\* Mistake: only the place to go on from is looked at.
RepeatsBug == batch[1] \in seen

\* An ancestor that was met before.
Repeats == \E i \in DOMAIN batch : batch[i] \in seen

\* The type of the first is looked at before the others are.
Repeated ==
  /\ pc = "read" /\ batch # <<>> /\ Repeats
  /\ Highest \in seen \/ type[Highest] \in Kind
  /\ Return("repeated")
  /\ UNCHANGED <<tree, walk, batch, moves>>

Unsupported ==
  /\ pc = "read" /\ batch # <<>> /\ Highest \notin seen /\ type[Highest] \notin Kind
  /\ Return("unsupported")
  /\ UNCHANGED <<tree, walk, batch, moves>>

\* append(batch.Results, items...)
Prepended == batch \o items

\* Does the loop go round again?
RoomAbove == page + 1 < MaxFollowPages

Climb ==
  /\ pc = "read" /\ batch # <<>> /\ ~Repeats /\ type[Highest] \in Kind
  /\ seen' = seen \cup Range(batch)
  /\ id' = Highest /\ kind' = type[Highest]
  /\ items' = Prepended
  /\ page' = page + 1
  /\ IF RoomAbove THEN pc' = "ask" /\ UNCHANGED outcome ELSE Return("truncated")
  /\ UNCHANGED <<tree, batch, moves>>

\* The request fails, or its answer cannot be decoded.
WalkFails ==
  /\ pc \in {"ask", "read"}
  /\ Return("failed")
  /\ UNCHANGED <<tree, walk, batch, moves>>

WalkNext ==
  \/ AnswerAbove \/ Top \/ Repeated \/ Unsupported \/ Climb \/ WalkFails
  \/ \E x \in Content, y \in Content \cup {None} : Move(x, y)

WalkSpec == WalkInit /\ [][WalkNext]_walkVars

-----------------------------------------------------------------------------
(* Properties. *)

\* However the tree changes, nothing is listed twice and the page is not among its
\* own ancestors: a loop in what the service says fails instead (client.go 166).
NoRepeats == IsInjective(items) /\ Start \notin Range(items)

\* A request asks for content of its own kind. In a tree at rest what is collected is
\* the lower end of the chain above the page, and the walk returns the whole chain,
\* unless it is refused: for an unknown type on the way, or as truncated, after as many
\* batches as the cap permits and never with fewer ancestors (client.go 136-138, 166-182).
WholeChain ==
  /\ pc = "ask" => kind = type[id]
  /\ moves = 0 =>
       LET chain == above[Start]
       IN /\ items = SubSeq(chain, Len(chain) - Len(items) + 1, Len(chain))
          /\ CASE outcome = "ok"          -> items = chain
               [] outcome = "repeated"    -> FALSE
               [] outcome = "unsupported" -> \E x \in Range(chain) : type[x] = Alien
               [] outcome = "truncated"   -> page = MaxFollowPages /\ Len(chain) >= page
               [] OTHER                   -> TRUE
=============================================================================
