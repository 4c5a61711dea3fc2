--------------------------- MODULE PaginationProofs ---------------------------
(***************************************************************************)
(* Proofs about the two loops behind --all.                                *)
(*                                                                         *)
(* Pagination, for a collection of any size under any number of changes,   *)
(* any page size and any cap: nothing that stayed is missed, nothing is    *)
(* repeated, and the cap is honest. The argument: a cursor stands for the  *)
(* last item collected; an offset, or a link that counts, stands for how   *)
(* many items come before the next page. Insertions move items away from   *)
(* the beginning, removals towards it, and each does harm in one direction *)
(* only. That a page from an offset on ends where the next begins is a     *)
(* fact about ranks (Window).                                              *)
(*                                                                         *)
(* AncestorWalk, for any finite tree, any moves, any batch size and any    *)
(* cap: nothing is listed twice, and in a tree at rest the whole chain is  *)
(* returned. The argument: what is above what is above a content is the    *)
(* upper part of what is above it (TreeInv; every move keeps it, so no     *)
(* content is above itself), and in a tree at rest what is above the place *)
(* of the walk, joined with what was collected, is the chain (AtRestInv).  *)
(***************************************************************************)
EXTENDS Pagination, AncestorWalk, FiniteSetTheorems, SequenceTheorems, TLAPS

-----------------------------------------------------------------------------
(* The invariant. *)

Under == pc = "extract"

\* The loop has room for one more page; what was removed does not come back.
HistInv ==
  /\ pc # "done" => page < MaxFollowPages /\ outcome = "none"
  /\ old \subseteq list \cup removed /\ removed \cap list = {}
  /\ edits = 0 => list = old /\ removed = {} /\ ~shifted

\* What was collected, or is about to be, was listed at some time.
SeenInv ==
  /\ \A x \in Item : got[x] > 0 => x \in list \cup old \cup removed
  /\ Under => \A x \in reply.items : x \in list \cup old \cup removed
  /\ Under /\ edits = 0 => reply.items \subseteq list

\* A page has nothing that was collected.
OnceInv ==
  ~lost /\ (style = "cursor" \/ ~shifted) =>
    /\ \A x \in Item : got[x] <= 1
    /\ Under => \A x \in reply.items : got[x] = 0

\* The cursor of a token or link is the last item collected: what is listed up to it
\* has been collected, nothing after it has.
CursorInv ==
  style = "cursor" /\ ~lost =>
    /\ pc # "done" => /\ \A x \in Item : got[x] > 0 => x <= cursor
                      /\ \A x \in Stayed : x <= cursor => got[x] > 0
    /\ Under =>
         /\ \A x \in reply.items : reply.next # 0 => x <= reply.next
         /\ \A x \in Stayed : x > cursor /\ x <= reply.next => x \in reply.items
         /\ reply.next # 0 => reply.next \in reply.items /\ reply.next > cursor

\* The cursor is a count of items, which an offset is, and a link of a service that
\* hands out right ones. It lies after what was collected, if nothing was inserted
\* before the end, and what is listed before it has been collected, if nothing was
\* removed.
Counts == style # "cursor" /\ (lost => style \notin Handed)

OffsetInv ==
  Counts =>
    /\ pc # "done" /\ ~shifted =>
         \A x \in list : got[x] > 0 => Rank(list, x) < cursor
    /\ pc # "done" /\ removed = {} =>
         \A x \in old : Rank(list, x) < cursor => got[x] > 0
    /\ Under /\ ~shifted =>
         \A x \in list : x \in reply.items => Rank(list, x) < cursor + Cardinality(reply.items)
    /\ Under /\ removed = {} =>
         \A x \in old : Rank(list, x) < cursor + Cardinality(reply.items) =>
           got[x] > 0 \/ x \in reply.items
    /\ Under /\ style = "link" /\ reply.next # 0 =>
         reply.next = cursor + Cardinality(reply.items)

\* The last page has all that is left.
LastInv ==
  Under /\ NextCursor = 0 /\ ~lost /\ (style = "cursor" \/ removed = {}) =>
    \A x \in Stayed : got[x] > 0 \/ x \in reply.items

\* Every page but the last has an item, and leaves one.
Collected == {x \in list : got[x] > 0}
CapInv ==
  edits = 0 /\ ~lost =>
    /\ pc # "done" => page <= Cardinality(Collected)
    /\ Under /\ NextCursor # 0 =>
         /\ reply.items # {}
         /\ \/ \E x \in list : got[x] = 0 /\ x \notin reply.items
            \/ style \in Handed /\ reply.isLast

Inv ==
  /\ TypeOK /\ HistInv /\ SeenInv /\ OnceInv /\ CursorInv /\ OffsetInv /\ LastInv
  /\ EveryItem /\ CapInv /\ CapIsHonest

-----------------------------------------------------------------------------
(* Sets of items. *)

\* A set of numbers has a least one.
LEMMA Least ==
  ASSUME NEW T \in SUBSET Nat, T # {}
  PROVE  \E x \in T : \A y \in T : x <= y
<1> DEFINE R == {ss \in Nat \X Nat : ss[1] < ss[2]}
<1>1. IsWellFoundedOn(R, Nat)
  BY NatLessThanWellFounded DEF OpToRel
<1>2. \A x, y \in Nat : <<y, x>> \in R <=> y < x
  OBVIOUS
<1> HIDE DEF R
<1>3. PICK x \in T : \A y \in T : ~(<<y, x>> \in R)
  BY <1>1, WFMin
<1>4. \A y \in T : ~(y < x)
  BY <1>2, <1>3
<1>5. \A y \in T : x <= y
  BY <1>4
<1> QED BY <1>5

\* A set of items has a last one.
LEMMA Greatest ==
  ASSUME NEW T \in SUBSET Item, T # {}
  PROVE  \E x \in T : \A y \in T : y <= x
<1> DEFINE M == {N - x : x \in T}
<1>1. M \in SUBSET Nat /\ M # {}
  <2>1. \A x \in T : N - x \in Nat
    BY PagesAssumption, CapAssumption DEF Item
  <2> QED BY <2>1
<1>2. PICK m \in M : \A k \in M : m <= k
  BY <1>1, Least
<1>3. PICK x \in T : m = N - x
  BY <1>2
<1>4. ASSUME NEW y \in T PROVE y <= x
  <2>1. N - x <= N - y
    BY <1>2, <1>3
  <2> QED BY <2>1, PagesAssumption, CapAssumption DEF Item
<1> QED BY <1>4

\* A set of items is finite.
LEMMA ItemsFinite ==
  ASSUME NEW S \in SUBSET Item
  PROVE  IsFiniteSet(S) /\ Cardinality(S) \in 0..N
<1>1. IsFiniteSet(1..N) /\ Cardinality(1..N) = N
  BY PagesAssumption, CapAssumption, FS_Interval
<1>2. IsFiniteSet(S) /\ Cardinality(S) <= N
  BY <1>1, FS_Subset DEF Item
<1> QED BY <1>2, FS_CardinalityType, PagesAssumption, CapAssumption

\* A part has fewer items, if it is not the whole.
LEMMA CardLess ==
  ASSUME NEW S \in SUBSET Item, NEW T \in SUBSET S
  PROVE  Cardinality(T) <= Cardinality(S) /\ (T # S => Cardinality(T) < Cardinality(S))
<1>1. IsFiniteSet(S) /\ Cardinality(S) \in Nat /\ Cardinality(T) \in Nat
  BY ItemsFinite
<1> QED BY <1>1, FS_Subset

\* Two sets of items with none in common.
LEMMA CardDisjoint ==
  ASSUME NEW S \in SUBSET Item, NEW T \in SUBSET Item, S \cap T = {}
  PROVE  Cardinality(S \cup T) = Cardinality(S) + Cardinality(T)
<1>1. IsFiniteSet(S) /\ IsFiniteSet(T) /\ Cardinality(S) \in Nat /\ Cardinality(T) \in Nat
  BY ItemsFinite
<1>2. Cardinality(S \cup T) = Cardinality(S) + Cardinality(T) - Cardinality(S \cap T)
  BY <1>1, FS_Union
<1>3. Cardinality(S \cap T) = 0
  BY FS_EmptySet
<1> QED BY <1>1, <1>2, <1>3

\* A rank is a number,
LEMMA RankType ==
  ASSUME NEW S \in SUBSET Item, NEW x
  PROVE  Rank(S, x) \in Nat
<1>1. {y \in S : y < x} \in SUBSET Item
  OBVIOUS
<1> QED BY <1>1, ItemsFinite, PagesAssumption, CapAssumption DEF Rank

\* grows along a list,
LEMMA RankGrows ==
  ASSUME NEW S \in SUBSET Item, NEW x \in S, NEW y \in Item, x < y
  PROVE  Rank(S, x) < Rank(S, y)
<1> DEFINE A == {z \in S : z < x}
           B == {z \in S : z < y}
<1>1. A \subseteq B /\ B \in SUBSET Item
  <2>1. \A z \in S : z < x => z < y
    BY DEF Item
  <2> QED BY <2>1
<1>2. x \in B /\ x \notin A
  BY DEF Item
<1> HIDE DEF A, B
<1>3. Cardinality(A) < Cardinality(B)
  BY <1>1, <1>2, CardLess
<1> QED BY <1>3 DEF Rank, A, B

\* is larger in a larger list,
LEMMA RankLarger ==
  ASSUME NEW S \in SUBSET Item, NEW T \in SUBSET S, NEW x
  PROVE  Rank(T, x) <= Rank(S, x)
<1>1. {z \in T : z < x} \subseteq {z \in S : z < x} /\ {z \in S : z < x} \in SUBSET Item
  OBVIOUS
<1> QED BY <1>1, CardLess DEF Rank

\* and is below its length.
LEMMA RankBelow ==
  ASSUME NEW S \in SUBSET Item, NEW x \in S
  PROVE  Rank(S, x) < Cardinality(S)
<1>1. {z \in S : z < x} \subseteq S /\ x \notin {z \in S : z < x}
  BY DEF Item
<1> QED BY <1>1, CardLess DEF Rank

\* At most c items come before c others.
LEMMA Low ==
  ASSUME NEW S \in SUBSET Item, NEW c \in Nat
  PROVE  Cardinality({y \in S : Rank(S, y) < c}) <= c
<1> DEFINE L == {y \in S : Rank(S, y) < c}
<1>1. CASE L = {}
  BY <1>1, FS_EmptySet
<1>2. CASE L # {}
  <2>1. L \in SUBSET Item
    OBVIOUS
  <2>2. PICK m \in L : \A y \in L : y <= m
    BY <1>2, <2>1, Greatest
  <2>3. L \subseteq {z \in S : z < m} \cup {m}
    BY <2>1, <2>2 DEF Item
  <2>4. IsFiniteSet({z \in S : z < m}) /\ Cardinality({z \in S : z < m}) \in Nat
    <3>1. {z \in S : z < m} \in SUBSET Item
      OBVIOUS
    <3> QED BY <3>1, ItemsFinite
  <2>5. /\ Cardinality({z \in S : z < m} \cup {m}) = Rank(S, m) + 1
        /\ {z \in S : z < m} \cup {m} \in SUBSET Item
    <3>1. m \in S /\ m \in Item
      BY <2>2
    <3>2. ~(m < m)
      BY <3>1 DEF Item
    <3>3. m \notin {z \in S : z < m} /\ {z \in S : z < m} \cup {m} \in SUBSET Item
      BY <3>1, <3>2
    <3> QED BY <2>4, <3>3, FS_AddElement DEF Rank
  <2>6. Cardinality(L) <= Rank(S, m) + 1
    BY <2>3, <2>5, CardLess
  <2>7. Rank(S, m) < c /\ Rank(S, m) \in Nat /\ Cardinality(L) \in Nat
    BY <2>1, <2>2, RankType, ItemsFinite
  <2> QED BY <2>6, <2>7
<1> QED BY <1>1, <1>2

\* A page holds what is listed first, and something if anything is listed.
LEMMA Prefix ==
  ASSUME NEW S \in SUBSET Item, NEW n \in Nat \ {0}
  PROVE  /\ FirstOf(S, n) \in SUBSET S /\ FirstOf(S, n) \in SUBSET Item
         /\ \A x \in FirstOf(S, n), y \in S \ FirstOf(S, n) : x < y
         /\ FirstOf(S, n) = {} => S = {}
<1>1. FirstOf(S, n) \in SUBSET S /\ FirstOf(S, n) \in SUBSET Item
  BY DEF FirstOf
<1>2. ASSUME NEW x \in FirstOf(S, n), NEW y \in S \ FirstOf(S, n)
      PROVE  x < y
  <2>1. x \in S /\ x \in Item /\ y \in S /\ y \in Item /\ x # y /\ Rank(S, x) < n /\ ~(Rank(S, y) < n)
    BY DEF FirstOf
  <2>2. Rank(S, x) \in Nat /\ Rank(S, y) \in Nat
    BY RankType
  <2>3. ~(y < x)
    BY <2>1, <2>2, RankGrows
  <2> QED BY <2>1, <2>3 DEF Item
<1>3. ASSUME S # {} PROVE FirstOf(S, n) # {}
  <2>1. S \in SUBSET Nat
    BY DEF Item
  <2>2. PICK x \in S : \A y \in S : x <= y
    BY <1>3, <2>1, Least
  <2>3. {y \in S : y < x} = {}
    <3>1. \A y \in S : ~(y < x)
      BY <2>1, <2>2
    <3> QED BY <3>1
  <2>4. Rank(S, x) = 0
    BY <2>3, FS_EmptySet DEF Rank
  <2> QED BY <2>2, <2>4 DEF FirstOf
<1> QED BY <1>1, <1>2, <1>3

\* A page from position c on ends where the next one begins.
LEMMA Window ==
  ASSUME NEW S \in SUBSET Item, NEW c \in Nat, NEW n \in Nat \ {0}, NEW F,
         F = FirstOf({x \in S : Rank(S, x) >= c}, n)
  PROVE  /\ \A x \in F : Rank(S, x) < c + Cardinality(F)
         /\ \A x \in S : Rank(S, x) < c + Cardinality(F) => Rank(S, x) < c \/ x \in F
<1> DEFINE R == {x \in S : Rank(S, x) >= c}
           L == {x \in S : Rank(S, x) < c}
<1>1. R \in SUBSET Item /\ L \in SUBSET Item /\ R \subseteq S /\ L \subseteq S
  OBVIOUS
<1>2. \A x \in S : Rank(S, x) \in Nat
  BY RankType
<1>3. S = L \cup R /\ L \cap R = {}
  BY <1>2
<1>4. \A x \in L : Rank(S, x) < c
  OBVIOUS
<1>5. \A x \in R : ~(Rank(S, x) < c)
  BY <1>2
<1>6. Cardinality(L) <= c /\ Cardinality(L) \in Nat
  BY <1>1, Low, ItemsFinite
<1>7. \A x \in S : x \in Item /\ x \in Int
  BY DEF Item
<1>8. F = FirstOf(R, n)
  OBVIOUS
<1> HIDE DEF R, L
<1>9. /\ F \subseteq R /\ F \in SUBSET Item
      /\ \A x \in F, y \in R \ F : x < y
  BY <1>1, <1>8, Prefix
<1>10. IsFiniteSet(F) /\ Cardinality(F) \in Nat
  BY <1>9, ItemsFinite
<1>11. ASSUME NEW x \in F PROVE Rank(S, x) < c + Cardinality(F)
  <2> DEFINE B == {y \in S : y < x}
             G == F \ {x}
  <2>1. G \in SUBSET Item /\ Cardinality(G) = Cardinality(F) - 1 /\ L \cap G = {}
    BY <1>3, <1>9, <1>10, FS_RemoveElement
  <2>2. B \subseteq L \cup G
    <3>1. ASSUME NEW y \in R, y < x PROVE y \in F \ {x}
      BY <1>1, <1>7, <1>9, <3>1
    <3> QED BY <1>3, <3>1
  <2>3. Rank(S, x) = Cardinality(B)
    BY DEF Rank
  <2> HIDE DEF B, G
  <2>4. L \cup G \in SUBSET Item
    BY <1>1, <2>1
  <2>5. Cardinality(L \cup G) = Cardinality(L) + Cardinality(G)
    BY <1>1, <2>1, CardDisjoint
  <2>6. Cardinality(B) <= Cardinality(L \cup G)
    BY <2>2, <2>4, CardLess
  <2>7. Rank(S, x) \in Nat
    BY RankType
  <2> QED BY <1>6, <1>10, <2>1, <2>3, <2>5, <2>6, <2>7
<1>12. ASSUME NEW x \in S, Rank(S, x) < c + Cardinality(F), x \notin L, x \notin F PROVE FALSE
  <2> DEFINE B == {y \in S : y < x}
  <2>1. x \in R
    BY <1>3, <1>12
  <2>2. R \in SUBSET Nat
    BY <1>1 DEF Item
  <2>3. PICK r \in R : \A y \in R : r <= y
    BY <2>1, <2>2, Least
  <2>4. {y \in S : y < r} \subseteq L
    <3>1. \A y \in R : ~(y < r)
      BY <2>2, <2>3
    <3> QED BY <1>3, <3>1
  <2>5. Rank(S, r) <= Cardinality(L)
    BY <1>1, <2>4, CardLess DEF Rank
  <2>6. c <= Cardinality(L)
    BY <1>1, <1>2, <1>5, <1>6, <2>3, <2>5
  <2>7. \A y \in F : y < x
    BY <1>9, <1>12, <2>1
  <2>8. ASSUME NEW y \in L PROVE y < x
    <3>1. Rank(S, y) < c /\ ~(Rank(S, x) < c) /\ y \in S
      BY <1>1, <1>4, <1>5, <2>1
    <3>2. y # x
      BY <3>1
    <3>3. ~(x < y)
      BY <1>2, <1>7, <3>1, RankGrows
    <3> QED BY <1>7, <3>1, <3>2, <3>3
  <2>9. L \cup F \subseteq B /\ B \in SUBSET Item
    BY <1>1, <1>9, <2>7, <2>8
  <2>10. Rank(S, x) = Cardinality(B)
    BY DEF Rank
  <2> HIDE DEF B
  <2>11. Cardinality(L \cup F) <= Cardinality(B)
    BY <2>9, CardLess
  <2>12. Cardinality(L \cup F) = Cardinality(L) + Cardinality(F)
    <3>1. L \cap F = {}
      BY <1>3, <1>9
    <3> QED BY <1>1, <1>9, <3>1, CardDisjoint
  <2> QED BY <1>2, <1>6, <1>10, <1>12, <2>6, <2>10, <2>11, <2>12
<1> QED BY <1>11, <1>12 DEF L

\* and with anything on it, at the end of the list at the latest.
LEMMA PageFits ==
  ASSUME NEW S \in SUBSET Item, NEW c \in Nat, NEW F \in SUBSET {x \in S : Rank(S, x) >= c},
         F # {}
  PROVE  c + Cardinality(F) <= Cardinality(S)
<1> DEFINE R == {x \in S : Rank(S, x) >= c}
           L == {x \in S : Rank(S, x) < c}
<1>1. L \in SUBSET Item /\ R \in SUBSET Nat /\ R # {} /\ F \in SUBSET Item
  <2>1. R \in SUBSET Item /\ F \in SUBSET R
    OBVIOUS
  <2> HIDE DEF R
  <2>2. R # {} /\ F \in SUBSET Item
    BY <2>1
  <2>3. R \in SUBSET Nat
    BY <2>1 DEF Item
  <2> QED BY <2>2, <2>3
<1>2. \A x \in S : Rank(S, x) \in Nat
  BY RankType
<1>3. S = L \cup R /\ L \cap F = {} /\ L \cup F \subseteq S
  BY <1>2
<1>4. \A x \in R : x \in S /\ Rank(S, x) >= c
  OBVIOUS
<1> HIDE DEF R, L
<1>5. PICK r \in R : \A y \in R : r <= y
  BY <1>1, Least
<1>6. {y \in S : y < r} \subseteq L
  <2>1. \A y \in R : ~(y < r)
    BY <1>1, <1>5
  <2> QED BY <1>3, <2>1
<1>7. Rank(S, r) <= Cardinality(L)
  BY <1>1, <1>6, CardLess DEF Rank
<1>8. Cardinality(L) \in Nat /\ Cardinality(F) \in Nat /\ Cardinality(S) \in Nat
  BY <1>1, ItemsFinite
<1>9. Cardinality(L \cup F) = Cardinality(L) + Cardinality(F)
  BY <1>1, <1>3, CardDisjoint
<1>10. Cardinality(L \cup F) <= Cardinality(S)
  BY <1>3, CardLess
<1>11. r \in S /\ Rank(S, r) >= c /\ Rank(S, r) \in Nat
  BY <1>2, <1>4, <1>5
<1> QED BY <1>7, <1>8, <1>9, <1>10, <1>11

-----------------------------------------------------------------------------
(* Steps. *)

LEMMA InitInv == Init => Inv
<1> SUFFICES ASSUME Init PROVE Inv
  OBVIOUS
<1>1. TypeOK
  <2>1. 0 \in 0..N /\ 0 \in 0..MaxFollowPages /\ 0 \in 0..MaxEdits /\ 0 \in 0..2
    BY PagesAssumption, CapAssumption
  <2>2. reply \in Reply
    BY <2>1 DEF Init, Reply
  <2>3. got \in [Item -> 0..2]
    BY <2>1 DEF Init
  <2> QED BY <2>1, <2>2, <2>3 DEF Init, TypeOK
<1>2. HistInv /\ SeenInv /\ OnceInv /\ LastInv /\ EveryItem /\ CapIsHonest
  BY PagesAssumption, CapAssumption DEF Init, HistInv, SeenInv, OnceInv, LastInv, EveryItem, CapIsHonest, Under
<1>3. CursorInv
  BY DEF Init, CursorInv, Under, Stayed, Item
<1>4. OffsetInv
  <2>1. \A x \in old : Rank(list, x) \in Nat
    BY <1>1, RankType DEF TypeOK
  <2> QED BY <2>1 DEF Init, OffsetInv, Counts, Under, Item
<1>5. CapInv
  <2>1. Cardinality(Collected) \in Nat
    <3>1. Collected \in SUBSET Item
      BY <1>1 DEF Collected, TypeOK
    <3> QED BY <3>1, ItemsFinite
  <2> QED BY <2>1 DEF Init, CapInv, Under
<1> QED BY <1>1, <1>2, <1>3, <1>4, <1>5 DEF Inv

\* A step that ends the loop without an answer,
LEMMA FailInv ==
  ASSUME Inv, Fail PROVE Inv'
<1>1. TypeOK'
  BY DEF Inv, TypeOK, Fail, Return, loop, history
<1> QED BY <1>1 DEF Inv, HistInv, SeenInv, OnceInv, CursorInv, OffsetInv, LastInv, EveryItem,
     CapInv, CapIsHonest, Under, Stayed, Counts, Fail, Return, loop, history

\* or changes nothing.
LEMMA StutterInv ==
  ASSUME Inv, UNCHANGED vars PROVE Inv'
BY DEF Inv, TypeOK, HistInv, SeenInv, OnceInv, CursorInv, OffsetInv, LastInv, EveryItem,
     CapInv, CapIsHonest, Under, Stayed, Collected, Counts, NextCursor, offsetNext, Rank,
     vars, loop, history

\* What the service answers.
LEMMA AnswerInv ==
  ASSUME Inv, Answer PROVE Inv'
<1>1. /\ TypeOK /\ HistInv /\ SeenInv /\ OnceInv /\ CursorInv /\ OffsetInv /\ CapInv
  BY DEF Inv
<1>2. /\ pc = "fetch" /\ pc' = "extract"
      /\ UNCHANGED <<list, style, lost, cursor, page, got, outcome, old, removed, shifted, edits>>
  BY DEF Answer, loop, history
<1>3. PICK n \in 1..PageSize : \E c \in Cursors(FirstOf(Rest, n), FirstOf(Rest, n) = Rest) :
        reply' = [items |-> FirstOf(Rest, n), next |-> c, total |-> Cardinality(list),
                  isLast |-> FirstOf(Rest, n) = Rest]
  BY DEF Answer
<1> DEFINE F == FirstOf(Rest, n)
<1>4. PICK c \in Cursors(F, F = Rest) :
        reply' = [items |-> F, next |-> c, total |-> Cardinality(list), isLast |-> F = Rest]
  BY <1>3
<1>5. n \in Nat \ {0} /\ cursor \in Nat /\ list \in SUBSET Item /\ Rest \in SUBSET Item
      /\ Rest \subseteq list
  BY <1>1, PagesAssumption, CapAssumption DEF TypeOK, Rest
<1>6. /\ F \in SUBSET Rest /\ F \in SUBSET Item
      /\ \A x \in F, y \in Rest \ F : x < y
      /\ F = {} => Rest = {}
  BY <1>5, Prefix
<1>7. Cardinality(list) \in 0..N /\ Cardinality(F) \in 0..N
  BY <1>5, <1>6, ItemsFinite
<1>8. reply'.items = F /\ reply'.next = c /\ reply'.total = Cardinality(list)
      /\ (reply'.isLast <=> F = Rest)
  BY <1>4
<1> HIDE DEF F
<1>9. /\ c \in 0..N
      /\ ~lost => \/ style = "cursor" /\ c \in F /\ \A y \in F : y <= c
                  \/ style # "cursor" /\ F # {} /\ c = cursor + Cardinality(F) /\ c # 0
                  \/ c = 0 /\ F = Rest
  <2>1. CASE lost
    BY <1>4, <2>1 DEF Cursors
  <2>2. CASE ~lost
    <3>1. c \in After(F) \cup (IF F = Rest THEN {0} ELSE {})
      BY <1>4, <2>2 DEF Cursors
    <3>2. CASE c \in After(F) /\ style = "cursor"
      BY <1>6, <2>2, <3>2, PagesAssumption, CapAssumption DEF Item, After
    <3>3. CASE c \in After(F) /\ style # "cursor"
      <4>1. F # {} /\ c = cursor + Cardinality(F)
        BY <3>3 DEF After
      <4>2. F \subseteq {x \in list : Rank(list, x) >= cursor}
        BY <1>6, <3>3 DEF Rest
      <4>3. cursor + Cardinality(F) <= Cardinality(list)
        BY <1>5, <4>1, <4>2, PageFits
      <4>4. Cardinality(F) # 0
        BY <1>6, <4>1, ItemsFinite, FS_EmptySet
      <4> QED BY <1>5, <1>7, <2>2, <3>3, <4>1, <4>3, <4>4, PagesAssumption, CapAssumption
    <3>4. CASE c \notin After(F)
      BY <2>2, <3>1, <3>4, PagesAssumption, CapAssumption
    <3> QED BY <3>2, <3>3, <3>4
  <2> QED BY <2>1, <2>2
<1>10. reply' \in Reply
  <2>1. (F = Rest) \in BOOLEAN
    OBVIOUS
  <2>2. F \in SUBSET Item /\ c \in 0..N /\ Cardinality(list) \in 0..N
    BY <1>6, <1>7, <1>9
  <2> QED BY <1>4, <2>1, <2>2 DEF Reply
<1>11. TypeOK'
  BY <1>1, <1>2, <1>10 DEF TypeOK
<1>12. HistInv'
  BY <1>1, <1>2 DEF HistInv
<1>13. SeenInv'
  BY <1>1, <1>2, <1>5, <1>6, <1>8 DEF SeenInv, Under
<1>23. style \in Handed => NextCursor' = c
  <2>1. style' = style
    BY <1>2
  <2>2. style = "cursor" => NextCursor' = reply'.next
    BY <2>1, Zenon DEF NextCursor, Handed
  <2>3. style = "link" => NextCursor' = reply'.next
    BY <2>1, Zenon DEF NextCursor, Handed
  <2> QED BY <1>8, <2>2, <2>3 DEF Handed
<1>24. "cursor" \in Handed /\ (~lost /\ style # "cursor" => Counts)
  BY DEF Handed, Counts
<1>14. ~lost /\ (style = "cursor" \/ ~shifted) => \A x \in F : got[x] = 0
  <2>1. \A x \in Item : got[x] \in 0..2 /\ x \in Int
    BY <1>1 DEF TypeOK, Item
  <2>2. CASE style = "cursor" /\ ~lost
    <3>1. \A x \in F : x > cursor
      BY <1>6, <2>2 DEF Rest
    <3> QED BY <1>1, <1>2, <1>5, <1>6, <2>1, <2>2, <3>1 DEF CursorInv
  <2>3. CASE style # "cursor" /\ ~shifted /\ ~lost
    <3>1. \A x \in F : x \in list /\ Rank(list, x) >= cursor
      BY <1>6, <2>3 DEF Rest
    <3>2. \A x \in F : Rank(list, x) \in Nat
      BY <1>5, RankType
    <3> QED BY <1>1, <1>2, <1>5, <1>6, <1>24, <2>1, <2>3, <3>1, <3>2 DEF OffsetInv
  <2> QED BY <2>2, <2>3
<1>15. OnceInv'
  BY <1>1, <1>2, <1>8, <1>14 DEF OnceInv
<1>16. Stayed \subseteq list /\ Stayed' = Stayed
  BY <1>1, <1>2 DEF HistInv, Stayed
<1>17. CursorInv'
  <2> SUFFICES ASSUME style = "cursor", ~lost PROVE CursorInv'
    BY <1>2 DEF CursorInv
  <2>1. Rest = {x \in list : x > cursor}
    BY DEF Rest
  <2>2. ASSUME NEW x \in Stayed, x > cursor, x <= c PROVE x \in F
    <3>1. x \in Rest /\ x \in Item
      BY <1>5, <1>16, <2>1, <2>2
    <3>2. c # 0
      BY <1>5, <2>2, <3>1 DEF Item
    <3>3. c \in F
      BY <1>9, <3>2
    <3>4. x \notin F => c < x
      BY <1>6, <3>1, <3>3
    <3> QED BY <1>9, <2>2, <3>1, <3>4 DEF Item
  <2>3. c # 0 => c \in F /\ c > cursor /\ \A x \in F : x <= c
    BY <1>6, <1>9, <2>1
  <2>4. \A x \in Item : got[x] > 0 => x <= cursor
    BY <1>1, <1>2 DEF CursorInv
  <2>5. \A x \in Stayed : x <= cursor => got[x] > 0
    BY <1>1, <1>2 DEF CursorInv
  <2> QED BY <1>2, <1>8, <1>16, <2>2, <2>3, <2>4, <2>5 DEF CursorInv
<1>18. style # "cursor" =>
         /\ \A x \in F : Rank(list, x) < cursor + Cardinality(F)
         /\ \A x \in list : Rank(list, x) < cursor + Cardinality(F) =>
              Rank(list, x) < cursor \/ x \in F
  <2> SUFFICES ASSUME style # "cursor"
               PROVE  /\ \A x \in F : Rank(list, x) < cursor + Cardinality(F)
                      /\ \A x \in list : Rank(list, x) < cursor + Cardinality(F) =>
                           Rank(list, x) < cursor \/ x \in F
    OBVIOUS
  <2>1. F = FirstOf({x \in list : Rank(list, x) >= cursor}, n)
    BY DEF Rest, F
  <2> QED BY <1>5, <2>1, Window
<1>19. OffsetInv'
  <2>1. \A x \in old : removed = {} => x \in list
    BY <1>1 DEF HistInv
  <2>2. \A x : Rank(list, x)' = Rank(list, x)
    BY <1>2 DEF Rank
  <2>3. Counts' = Counts /\ (Counts => style # "cursor")
    BY <1>2 DEF Counts
  <2>4. Counts /\ style = "link" /\ c # 0 => c = cursor + Cardinality(F)
    BY <1>9 DEF Counts, Handed
  <2> QED BY <1>1, <1>2, <1>8, <1>18, <2>1, <2>2, <2>3, <2>4 DEF OffsetInv
<1>20. LastInv'
  <2> SUFFICES ASSUME NextCursor' = 0, ~lost, style = "cursor" \/ removed = {}, NEW x \in Stayed
               PROVE  got[x] > 0 \/ x \in F
    BY <1>2, <1>8, <1>16 DEF LastInv
  <2>1. x \in list /\ x \in Item /\ x \in old
    BY <1>5, <1>16 DEF Stayed
  <2>2. CASE style = "cursor"
    <3>1. c = 0 /\ F = Rest
      BY <1>6, <1>9, <1>23, <1>24, <2>2 DEF Item
    <3> QED BY <1>1, <1>2, <1>5, <2>1, <2>2, <3>1 DEF Rest, CursorInv, Item
  <2>3. CASE style # "cursor"
    <3>1. Rank(list, x) \in Nat /\ Rank(list, x) < Cardinality(list)
      BY <1>5, <2>1, RankType, RankBelow
    <3>2. Rank(list, x) < cursor => got[x] > 0
      BY <1>1, <1>2, <1>24, <2>1, <2>3 DEF OffsetInv
    <3>3. F = Rest \/ cursor + Cardinality(F) >= Cardinality(list)
      <4>1. CASE F = {}
        BY <1>6, <4>1
      <4>2. CASE F # {}
        <5>1. Cardinality(F) # 0
          BY <1>6, <4>2, ItemsFinite, FS_EmptySet
        <5>2. CASE style \in Handed
          BY <1>9, <1>23, <2>3, <5>2
        <5>3. CASE style \notin Handed
          BY <1>2, <1>5, <1>7, <1>8, <5>1, <5>3 DEF NextCursor, offsetNext
        <5> QED BY <5>2, <5>3
      <4> QED BY <4>1, <4>2
    <3>4. CASE F = Rest
      BY <1>5, <2>1, <2>3, <3>1, <3>2, <3>4 DEF Rest
    <3>5. CASE cursor + Cardinality(F) >= Cardinality(list)
      BY <1>5, <1>7, <1>18, <2>1, <2>3, <3>1, <3>2, <3>5
    <3> QED BY <3>3, <3>4, <3>5
  <2> QED BY <2>2, <2>3
<1>21. CapInv'
  <2> SUFFICES ASSUME edits = 0, ~lost
               PROVE  /\ page <= Cardinality(Collected)
                      /\ NextCursor' # 0 =>
                           /\ F # {}
                           /\ \/ \E x \in list : got[x] = 0 /\ x \notin F
                              \/ style \in Handed /\ F = Rest
    BY <1>2, <1>8 DEF CapInv, Collected
  <2>1. page <= Cardinality(Collected)
    BY <1>1, <1>2 DEF CapInv
  <2>2. ASSUME NextCursor' # 0 PROVE F # {}
    <3>1. CASE style \in Handed
      BY <1>6, <1>9, <1>23, <2>2, <3>1 DEF Item
    <3>2. CASE style \notin Handed
      <4>1. F = {} => Cardinality(F) = 0
        BY FS_EmptySet
      <4> QED BY <1>2, <1>8, <2>2, <3>2, <4>1 DEF NextCursor, offsetNext
    <3> QED BY <3>1, <3>2
  <2>3. ASSUME NextCursor' # 0, ~(style \in Handed /\ F = Rest)
        PROVE  \E x \in list : got[x] = 0 /\ x \notin F
    <3>1. CASE style \in Handed
      <4>1. PICK x \in Rest : x \notin F
        BY <1>6, <2>3, <3>1
      <4>2. x \in list /\ x \in Item /\ got[x] \in 0..2
        BY <1>1, <1>5, <4>1 DEF TypeOK
      <4>3. ~(got[x] > 0)
        <5>1. CASE style = "cursor"
          <6>1. x > cursor
            BY <4>1, <5>1 DEF Rest
          <6> QED BY <1>1, <1>2, <1>5, <4>2, <5>1, <6>1 DEF CursorInv, Item
        <5>2. CASE style # "cursor"
          <6>1. Rank(list, x) >= cursor /\ Rank(list, x) \in Nat
            BY <1>5, <4>1, <5>2, RankType DEF Rest
          <6>2. ~shifted
            BY <1>1 DEF HistInv
          <6> QED BY <1>1, <1>2, <1>5, <1>24, <4>2, <5>2, <6>1, <6>2 DEF OffsetInv
        <5> QED BY <5>1, <5>2
      <4> QED BY <4>1, <4>2, <4>3
    <3>2. CASE style \notin Handed
      <4> SUFFICES ASSUME \A x \in list : ~(got[x] = 0) \/ x \in F PROVE FALSE
        OBVIOUS
      <4>1. cursor + Cardinality(F) < Cardinality(list)
        BY <1>2, <1>5, <1>7, <1>8, <2>3, <3>2 DEF NextCursor, offsetNext
      <4>2. \A x \in list : got[x] \in 0..2 /\ Rank(list, x) \in Nat
        BY <1>1, <1>5, RankType DEF TypeOK
      <4>3. \A x \in list : Rank(list, x) < cursor + Cardinality(F)
        <5>1. ~shifted
          BY <1>1 DEF HistInv
        <5>2. style # "cursor"
          BY <1>24, <3>2
        <5>3. \A x \in list : got[x] > 0 => Rank(list, x) < cursor
          BY <1>1, <1>2, <1>24, <5>1, <5>2 DEF OffsetInv
        <5> QED BY <1>5, <1>7, <1>18, <4>2, <5>2, <5>3
      <4>4. cursor + Cardinality(F) \in Nat
        BY <1>5, <1>7
      <4>5. Cardinality({x \in list : Rank(list, x) < cursor + Cardinality(F)}) <= cursor + Cardinality(F)
        BY <1>5, <4>4, Low
      <4>6. {x \in list : Rank(list, x) < cursor + Cardinality(F)} = list
        BY <4>3
      <4> QED BY <1>7, <4>1, <4>4, <4>5, <4>6
    <3> QED BY <3>1, <3>2
  <2> QED BY <2>1, <2>2, <2>3
<1>22. EveryItem' /\ CapIsHonest'
  <2>1. outcome # "ok" /\ outcome # "truncated"
    BY <1>1, <1>2 DEF HistInv
  <2> QED BY <1>2, <2>1 DEF EveryItem, CapIsHonest
<1> QED BY <1>11, <1>12, <1>13, <1>15, <1>17, <1>19, <1>20, <1>21, <1>22 DEF Inv

\* The collection changes.
LEMMA EditsInv ==
  ASSUME Inv, Edit PROVE Inv'
<1>1. /\ TypeOK /\ HistInv /\ SeenInv /\ OnceInv /\ CursorInv /\ OffsetInv /\ LastInv
  BY DEF Inv
<1>2. /\ pc # "done" /\ UNCHANGED <<style, lost, pc, cursor, page, got, reply, outcome, old>>
      /\ edits' = edits + 1 /\ edits < MaxEdits /\ outcome = "none"
  BY <1>1 DEF Edit, loop, HistInv
<1>3. edits' # 0 /\ edits' \in 0..MaxEdits
  BY <1>1, <1>2, PagesAssumption, CapAssumption DEF TypeOK
<1>4. NextCursor' = NextCursor
  BY <1>2 DEF NextCursor, offsetNext
<1>5. CapInv' /\ CapIsHonest' /\ EveryItem'
  BY <1>2, <1>3 DEF CapInv, CapIsHonest, EveryItem
<1>6. list \in SUBSET Item /\ old \in SUBSET Item
  BY <1>1 DEF TypeOK
<1>7. ASSUME NEW x \in Item, Insert(x) PROVE Inv'
  <2>1. /\ x \notin list \cup old \cup removed /\ list' = list \cup {x} /\ removed' = removed
        /\ (shifted' <=> (shifted \/ \E y \in list : y > x)) /\ Stayed' = Stayed
    BY <1>2, <1>7 DEF Insert, Stayed
  <2>2. TypeOK'
    <3>1. shifted' \in BOOLEAN
      BY <1>1, <1>7 DEF Insert, TypeOK
    <3> QED BY <1>1, <1>2, <1>3, <2>1, <3>1 DEF TypeOK
  <2>3. HistInv' /\ SeenInv' /\ OnceInv' /\ CursorInv' /\ LastInv'
    BY <1>1, <1>2, <1>3, <1>4, <2>1
    DEF HistInv, SeenInv, OnceInv, CursorInv, LastInv, Under
  <2>4. ~(got[x] > 0) /\ (Under => x \notin reply.items)
    BY <1>1, <2>1 DEF SeenInv
  <2>5. list' \in SUBSET Item /\ list \in SUBSET list'
    BY <1>6, <2>1
  <2>6. \A y \in list : ~shifted' => Rank(list', y) = Rank(list, y)
    <3>1. ASSUME NEW y \in list, ~shifted'
          PROVE  {z \in list' : z < y} = {z \in list : z < y}
      <4>1. ~(x < y)
        BY <1>6, <2>1, <3>1 DEF Item
      <4> QED BY <2>1, <4>1
    <3> QED BY <3>1 DEF Rank
  <2>7. \A y \in old : Rank(list, y) <= Rank(list', y) /\ Rank(list, y) \in Nat /\ Rank(list', y) \in Nat
    BY <1>6, <2>5, RankLarger, RankType
  <2>8. \A y : Rank(list, y)' = Rank(list', y)
    BY DEF Rank
  <2>9. cursor \in Nat /\ Cardinality(reply.items) \in Nat
    <3>1. reply.items \in SUBSET Item
      BY <1>1 DEF TypeOK, Reply
    <3> QED BY <1>1, <3>1, ItemsFinite, PagesAssumption, CapAssumption DEF TypeOK
  <2>10. OffsetInv'
    <3> SUFFICES ASSUME Counts PROVE OffsetInv'
      BY <1>2 DEF OffsetInv, Counts
    <3>0. Under /\ style = "link" /\ reply.next # 0 =>
            reply.next = cursor + Cardinality(reply.items)
      BY <1>1 DEF OffsetInv
    <3>1. ASSUME ~shifted', NEW y \in list', got[y] > 0 PROVE Rank(list', y) < cursor
      <4>1. y \in list /\ ~shifted
        BY <2>1, <2>4, <3>1
      <4>2. Rank(list, y) < cursor
        BY <1>1, <1>2, <3>1, <4>1 DEF OffsetInv
      <4> QED BY <2>6, <3>1, <4>1, <4>2
    <3>2. ASSUME removed = {}, NEW y \in old, Rank(list', y) < cursor PROVE got[y] > 0
      BY <1>1, <1>2, <2>7, <2>9, <3>2 DEF OffsetInv
    <3>3. ASSUME Under, ~shifted', NEW y \in list', y \in reply.items
          PROVE  Rank(list', y) < cursor + Cardinality(reply.items)
      BY <1>1, <2>1, <2>4, <2>6, <3>3 DEF OffsetInv
    <3>4. ASSUME Under, removed = {}, NEW y \in old,
                 Rank(list', y) < cursor + Cardinality(reply.items)
          PROVE  got[y] > 0 \/ y \in reply.items
      <4>1. Rank(list, y) < cursor + Cardinality(reply.items)
        BY <2>7, <2>9, <3>4
      <4> QED BY <1>1, <3>4, <4>1 DEF OffsetInv
    <3> QED BY <1>2, <2>1, <2>8, <3>0, <3>1, <3>2, <3>3, <3>4 DEF OffsetInv, Under
  <2> QED BY <1>5, <2>2, <2>3, <2>10 DEF Inv
<1>8. ASSUME NEW x \in Item, Remove(x) PROVE Inv'
  <2>1. /\ x \in list /\ list' = list \ {x} /\ removed' = removed \cup {x} /\ shifted' = shifted
        /\ Stayed' \subseteq Stayed
    BY <1>2, <1>8 DEF Remove, Stayed
  <2>2. TypeOK'
    BY <1>1, <1>2, <1>3, <2>1 DEF TypeOK
  <2>3. HistInv' /\ SeenInv' /\ OnceInv' /\ CursorInv' /\ LastInv'
    BY <1>1, <1>2, <1>3, <1>4, <2>1
    DEF HistInv, SeenInv, OnceInv, CursorInv, LastInv, Under
  <2>4. \A y \in list' : Rank(list', y) <= Rank(list, y) /\ Rank(list, y) \in Nat /\ Rank(list', y) \in Nat
    <3>1. list' \in SUBSET list /\ list' \in SUBSET Item
      BY <1>6, <2>1
    <3> QED BY <1>6, <3>1, RankLarger, RankType
  <2>5. \A y : Rank(list, y)' = Rank(list', y)
    BY DEF Rank
  <2>6. cursor \in Nat /\ Cardinality(reply.items) \in Nat
    <3>1. reply.items \in SUBSET Item
      BY <1>1 DEF TypeOK, Reply
    <3> QED BY <1>1, <3>1, ItemsFinite, PagesAssumption, CapAssumption DEF TypeOK
  <2>7. OffsetInv'
    <3> SUFFICES ASSUME Counts PROVE OffsetInv'
      BY <1>2 DEF OffsetInv, Counts
    <3>0. Under /\ style = "link" /\ reply.next # 0 =>
            reply.next = cursor + Cardinality(reply.items)
      BY <1>1 DEF OffsetInv
    <3>1. ASSUME ~shifted, NEW y \in list', got[y] > 0 PROVE Rank(list', y) < cursor
      <4>1. y \in list /\ Rank(list, y) < cursor
        BY <1>1, <1>2, <2>1, <3>1 DEF OffsetInv
      <4> QED BY <2>4, <2>6, <4>1
    <3>2. ASSUME Under, ~shifted, NEW y \in list', y \in reply.items
          PROVE  Rank(list', y) < cursor + Cardinality(reply.items)
      <4>1. Rank(list, y) < cursor + Cardinality(reply.items)
        BY <1>1, <2>1, <3>2 DEF OffsetInv
      <4> QED BY <2>4, <2>6, <4>1
    <3>3. removed' # {}
      BY <2>1
    <3> QED BY <1>2, <2>1, <2>5, <3>0, <3>1, <3>2, <3>3 DEF OffsetInv, Under
  <2> QED BY <1>5, <2>2, <2>3, <2>7 DEF Inv
<1> QED BY <1>7, <1>8 DEF Edit

\* A page is collected.
LEMMA Collecting ==
  ASSUME Inv, pc = "extract", Collect, page' = Turn,
         UNCHANGED <<list, style, lost, reply, old, removed, shifted, edits>>
  PROVE  /\ got' \in [Item -> 0..2] /\ page' \in 0..MaxFollowPages /\ page' = page + 1
         /\ \A x \in Item : got'[x] > 0 <=> got[x] > 0 \/ x \in reply.items
         /\ ~lost /\ (style = "cursor" \/ ~shifted) => \A x \in Item : got'[x] <= 1
         /\ edits = 0 /\ ~lost /\ reply.items # {} => page + 1 <= Cardinality(Collected')
<1>1. /\ TypeOK /\ HistInv /\ SeenInv /\ OnceInv /\ CapInv
  BY DEF Inv
<1>2. \A x \in Item : got[x] \in 0..2 /\ got'[x] = IF x \in reply.items /\ got[x] < 2 THEN got[x] + 1 ELSE got[x]
  BY <1>1 DEF Collect, TypeOK
<1>3. got' \in [Item -> 0..2]
  <2>1. \A x \in Item : (IF x \in reply.items /\ got[x] < 2 THEN got[x] + 1 ELSE got[x]) \in 0..2
    BY <1>2
  <2> QED BY <2>1 DEF Collect
<1>4. \A x \in Item : got'[x] > 0 <=> got[x] > 0 \/ x \in reply.items
  BY <1>2
<1>5. page' \in 0..MaxFollowPages /\ page' = page + 1
  BY <1>1, PagesAssumption, CapAssumption DEF TypeOK, HistInv, Turn
<1>6. ~lost /\ (style = "cursor" \/ ~shifted) => \A x \in Item : got'[x] <= 1
  BY <1>1, <1>2 DEF OnceInv, Under
<1>7. ASSUME edits = 0, ~lost, reply.items # {} PROVE page + 1 <= Cardinality(Collected')
  <2>1. /\ reply.items \in SUBSET Item /\ Collected \in SUBSET Item /\ reply.items \subseteq list
        /\ list \in SUBSET Item
    BY <1>1, <1>7 DEF TypeOK, Reply, Collected, SeenInv, Under
  <2>2. \A x \in reply.items : ~(got[x] > 0)
    <3>1. \A x \in reply.items : got[x] = 0
      BY <1>1, <1>7 DEF OnceInv, HistInv, Under
    <3> QED BY <3>1
  <2>3. Collected' = Collected \cup reply.items /\ Collected \cap reply.items = {}
    BY <1>4, <2>1, <2>2 DEF Collected
  <2>4. Cardinality(Collected') = Cardinality(Collected) + Cardinality(reply.items)
    BY <2>1, <2>3, CardDisjoint
  <2>5. Cardinality(reply.items) # 0 /\ Cardinality(reply.items) \in Nat /\ Cardinality(Collected) \in Nat
    BY <1>7, <2>1, ItemsFinite, FS_EmptySet
  <2>6. page <= Cardinality(Collected) /\ page \in Nat
    BY <1>1, <1>7 DEF CapInv, TypeOK
  <2> QED BY <2>4, <2>5, <2>6
<1> QED BY <1>1, <1>3, <1>4, <1>5, <1>6, <1>7

\* The cursor of the next page.
LEMMA NextCursorIs ==
  ASSUME TypeOK
  PROVE  /\ style \in Handed => NextCursor = reply.next
         /\ style \notin Handed /\ NextCursor # 0 =>
              /\ NextCursor = cursor + Cardinality(reply.items)
              /\ NextCursor < reply.total
         /\ NextCursor \in 0..N
<1>1. style \in Handed => NextCursor = reply.next
  <2>1. style = "cursor" => NextCursor = reply.next
    BY Zenon DEF NextCursor, Handed
  <2>2. style = "link" => NextCursor = reply.next
    BY Zenon DEF NextCursor, Handed
  <2> QED BY <2>1, <2>2 DEF Handed
<1>2. style \notin Handed /\ NextCursor # 0 =>
        NextCursor = offsetNext(cursor, Cardinality(reply.items), reply.total)
  BY Zenon DEF NextCursor
<1>3. /\ reply.items \in SUBSET Item /\ reply.next \in 0..N /\ reply.total \in 0..N /\ cursor \in 0..N
  BY DEF TypeOK, Reply
<1>4. Cardinality(reply.items) \in 0..N
  BY <1>3, ItemsFinite
<1> QED BY <1>1, <1>2, <1>3, <1>4, PagesAssumption, CapAssumption DEF offsetNext

\* The loop ends with everything,
LEMMA LastPageInv ==
  ASSUME Inv, LastPage PROVE Inv'
<1>1. /\ TypeOK /\ HistInv /\ SeenInv /\ OnceInv /\ LastInv
  BY DEF Inv
<1>2. /\ pc = "extract" /\ NextCursor = 0 /\ Collect /\ page' = Turn /\ pc' = "done" /\ outcome' = "ok"
      /\ UNCHANGED <<list, style, lost, cursor, reply, old, removed, shifted, edits>>
  BY DEF LastPage, Return, history
<1>3. /\ got' \in [Item -> 0..2] /\ page' \in 0..MaxFollowPages
      /\ \A x \in Item : got'[x] > 0 <=> got[x] > 0 \/ x \in reply.items
      /\ ~lost /\ (style = "cursor" \/ ~shifted) => \A x \in Item : got'[x] <= 1
  BY <1>2, Collecting
<1>4. TypeOK'
  BY <1>1, <1>2, <1>3 DEF TypeOK
<1>5. SeenInv'
  BY <1>1, <1>2, <1>3 DEF SeenInv, Under
<1>6. EveryItem'
  <2>1. Stayed' = Stayed /\ Stayed \subseteq Item
    BY <1>1, <1>2 DEF Stayed, TypeOK
  <2> QED BY <1>1, <1>2, <1>3, <2>1 DEF LastInv, EveryItem, Under
<1> QED BY <1>1, <1>2, <1>3, <1>4, <1>5, <1>6
    DEF Inv, HistInv, OnceInv, CursorInv, OffsetInv, LastInv, CapInv, CapIsHonest, Under

\* or at the cap,
LEMMA CapReachedInv ==
  ASSUME Inv, CapReached PROVE Inv'
<1>1. /\ TypeOK /\ HistInv /\ SeenInv /\ OnceInv /\ CapInv
  BY DEF Inv
<1>2. /\ pc = "extract" /\ NextCursor # 0 /\ Collect /\ page' = Turn /\ ~Room
      /\ pc' = "done" /\ outcome' = "truncated" /\ cursor' = NextCursor
      /\ UNCHANGED <<list, style, lost, reply, old, removed, shifted, edits>>
  BY DEF CapReached, Return, history
<1>3. /\ got' \in [Item -> 0..2] /\ page' \in 0..MaxFollowPages /\ page' = page + 1
      /\ \A x \in Item : got'[x] > 0 <=> got[x] > 0 \/ x \in reply.items
      /\ ~lost /\ (style = "cursor" \/ ~shifted) => \A x \in Item : got'[x] <= 1
      /\ edits = 0 /\ ~lost /\ reply.items # {} => page + 1 <= Cardinality(Collected')
  BY <1>2, Collecting
<1>4. TypeOK'
  BY <1>1, <1>2, <1>3, NextCursorIs DEF TypeOK
<1>5. SeenInv'
  BY <1>1, <1>2, <1>3 DEF SeenInv, Under
<1>6. CapIsHonest'
  <2> SUFFICES ASSUME edits = 0, ~lost
               PROVE  /\ Cardinality(Collected') >= MaxFollowPages
                      /\ (\E x \in list : got'[x] = 0) \/ (style \in Handed /\ reply.isLast)
    BY <1>2 DEF CapIsHonest, Collected
  <2>1. Cardinality(Collected') \in Nat
    <3>1. Collected' \in SUBSET Item
      BY <1>4 DEF TypeOK, Collected
    <3> QED BY <3>1, ItemsFinite
  <2>2. page + 1 >= MaxFollowPages /\ page + 1 <= Cardinality(Collected') /\ page \in Nat
    BY <1>1, <1>2, <1>3, PagesAssumption, CapAssumption DEF Room, Turn, CapInv, Under, TypeOK
  <2>3. \A x \in list : got[x] = 0 /\ x \notin reply.items => got'[x] = 0
    BY <1>1, <1>3 DEF TypeOK
  <2> QED BY <1>1, <1>2, <2>1, <2>2, <2>3, PagesAssumption, CapAssumption DEF CapInv, Under
<1> QED BY <1>1, <1>2, <1>3, <1>4, <1>5, <1>6
    DEF Inv, HistInv, OnceInv, CursorInv, OffsetInv, LastInv, CapInv, EveryItem, Under

\* or goes round again.
LEMMA NextPageInv ==
  ASSUME Inv, NextPage PROVE Inv'
<1>1. /\ TypeOK /\ HistInv /\ SeenInv /\ OnceInv /\ CursorInv /\ OffsetInv /\ CapInv
  BY DEF Inv
<1>2. /\ pc = "extract" /\ NextCursor # 0 /\ Collect /\ page' = Turn /\ Room
      /\ pc' = "fetch" /\ cursor' = NextCursor
      /\ UNCHANGED <<list, style, lost, reply, outcome, old, removed, shifted, edits>>
  BY DEF NextPage, history
<1>3. /\ got' \in [Item -> 0..2] /\ page' \in 0..MaxFollowPages /\ page' = page + 1
      /\ \A x \in Item : got'[x] > 0 <=> got[x] > 0 \/ x \in reply.items
      /\ ~lost /\ (style = "cursor" \/ ~shifted) => \A x \in Item : got'[x] <= 1
      /\ edits = 0 /\ ~lost /\ reply.items # {} => page + 1 <= Cardinality(Collected')
  BY <1>2, Collecting
<1>4. /\ style = "cursor" => cursor' = reply.next /\ reply.next # 0
      /\ Counts => cursor' = cursor + Cardinality(reply.items)
      /\ cursor' \in 0..N
  <2>1. ASSUME Counts, style \in Handed PROVE cursor' = cursor + Cardinality(reply.items)
    <3>1. style = "link"
      BY <2>1 DEF Counts, Handed
    <3> QED BY <1>1, <1>2, <2>1, <3>1, NextCursorIs DEF OffsetInv, Under
  <2> QED BY <1>1, <1>2, <2>1, NextCursorIs DEF Handed
<1>5. TypeOK'
  BY <1>1, <1>2, <1>3, <1>4 DEF TypeOK
<1>6. HistInv'
  BY <1>1, <1>2 DEF HistInv, Room
<1>7. SeenInv' /\ OnceInv' /\ LastInv' /\ EveryItem' /\ CapIsHonest'
  BY <1>1, <1>2, <1>3 DEF SeenInv, OnceInv, LastInv, EveryItem, CapIsHonest, HistInv, Under
<1>8. Stayed' = Stayed /\ Stayed \subseteq Item /\ list \subseteq Item /\ old \subseteq Item
  BY <1>1, <1>2 DEF Stayed, TypeOK
<1>9. CursorInv'
  <2> SUFFICES ASSUME style = "cursor", ~lost
               PROVE  /\ \A x \in Item : got'[x] > 0 => x <= cursor'
                      /\ \A x \in Stayed : x <= cursor' => got'[x] > 0
    BY <1>2, <1>8 DEF CursorInv, Under
  <2>1. /\ cursor' > cursor /\ cursor \in Int /\ cursor' \in Int
        /\ \A x \in reply.items : x <= cursor'
    BY <1>1, <1>2, <1>4 DEF CursorInv, Under, TypeOK
  <2>2. \A x \in Item : got[x] > 0 => x <= cursor'
    BY <1>1, <1>2, <2>1 DEF CursorInv, Item
  <2>3. \A x \in Stayed : x <= cursor' => got[x] > 0 \/ x \in reply.items
    BY <1>1, <1>2, <1>4, <1>8, <2>1 DEF CursorInv, Under, Item
  <2> QED BY <1>3, <1>8, <2>1, <2>2, <2>3
<1>10. OffsetInv'
  <2> SUFFICES ASSUME Counts
               PROVE  /\ ~shifted => \A x \in list : got'[x] > 0 => Rank(list, x) < cursor'
                      /\ removed = {} => \A x \in old : Rank(list, x) < cursor' => got'[x] > 0
    <3>1. \A x : Rank(list, x)' = Rank(list, x)
      BY <1>2 DEF Rank
    <3> QED BY <1>2, <3>1 DEF OffsetInv, Counts, Under
  <2>1. cursor \in Nat /\ Cardinality(reply.items) \in Nat /\ \A x : Rank(list, x) \in Nat
    <3>1. reply.items \in SUBSET Item
      BY <1>1 DEF TypeOK, Reply
    <3> QED BY <1>1, <1>8, <3>1, ItemsFinite, RankType, PagesAssumption, CapAssumption DEF TypeOK
  <2>2. ASSUME ~shifted, NEW x \in list, got'[x] > 0 PROVE Rank(list, x) < cursor'
    <3>1. got[x] > 0 \/ x \in reply.items
      BY <1>3, <1>8, <2>2
    <3>2. got[x] > 0 => Rank(list, x) < cursor
      BY <1>1, <1>2, <2>2 DEF OffsetInv
    <3>3. x \in reply.items => Rank(list, x) < cursor + Cardinality(reply.items)
      BY <1>1, <1>2, <2>2 DEF OffsetInv, Under
    <3> QED BY <1>4, <2>1, <3>1, <3>2, <3>3
  <2>3. ASSUME removed = {}, NEW x \in old, Rank(list, x) < cursor' PROVE got'[x] > 0
    BY <1>1, <1>2, <1>3, <1>4, <1>8, <2>3 DEF OffsetInv, Under
  <2> QED BY <2>2, <2>3
<1>11. CapInv'
  BY <1>1, <1>2, <1>3 DEF CapInv, Under
<1> QED BY <1>5, <1>6, <1>7, <1>9, <1>10, <1>11 DEF Inv

-----------------------------------------------------------------------------
(* Theorems. *)

LEMMA Invariant == Spec => []Inv
<1>1. Inv /\ [Next]_vars => Inv'
  BY AnswerInv, EditsInv, LastPageInv, NextPageInv, CapReachedInv, FailInv, StutterInv DEF Next
<1> QED BY <1>1, InitInv, PTL DEF Spec

\* The variables of the loop and of the collection have their types.
THEOREM TypeCorrect == Spec => []TypeOK
<1>1. Inv => TypeOK
  BY DEF Inv
<1> QED BY <1>1, Invariant, PTL

\* --all returns every item that was there all along, for any collection, any number of
\* changes, any page size and any cap, from a service that hands out right cursors; the
\* exception is a removal in a list that is paged by counting (FollowAll).
THEOREM MissesNothing == Spec => []EveryItem
<1>1. Inv => EveryItem
  BY DEF Inv
<1> QED BY <1>1, Invariant, PTL

\* --all repeats no item, unless something was inserted before the end of a list that is
\* paged by counting, or the service hands out wrong cursors (FollowAll).
THEOREM RepeatsNothing == Spec => []OnceEach
<1>1. Inv => OnceEach
  BY DEF Inv, OnceInv, OnceEach
<1> QED BY <1>1, Invariant, PTL

\* In a collection at rest the cap strikes only when as many items were collected as it
\* allows pages, and only while items are missing, or after a last page to which the
\* service gave a token or link all the same (FollowAll, TruncatedError).
THEOREM CapsHonestly == Spec => []CapIsHonest
<1>1. Inv => CapIsHonest
  BY DEF Inv
<1> QED BY <1>1, Invariant, PTL


-----------------------------------------------------------------------------
(* AncestorWalk: the invariant. *)

\* What is above what is above z is the upper part of what is above z.
TreeInv ==
  \A z \in Content : \A i \in 1..Len(above[z]) :
    above[above[z][i]] = SubSeq(above[z], 1, i - 1)

\* Everything met is remembered; no answer repeats anything, and nothing is met twice.
MetInv ==
  /\ seen = {Start} \cup Range(items) /\ Start \notin Range(items)
  /\ IsInjective(items) /\ IsInjective(batch)

\* Every batch that was added has something in it.
WalkCapInv ==
  /\ page <= Len(items)
  /\ pc # "done" <=> outcome = "none"
  /\ pc # "done" => page < MaxFollowPages
  /\ outcome = "truncated" => page = MaxFollowPages

\* u is s and then t. The name keeps the provers from taking a concatenation apart.
Joined(s, t, u) == s \o t = u

\* At rest: what is above the place where the walk is, and what was collected, make
\* the chain above the page; an answer is the lower part of the former.
AtRestInv ==
  moves = 0 =>
    /\ Joined(above[id], items, above[Start])
    /\ pc = "read" => /\ \E top \in Seq(Content) : Joined(top, batch, above[id])
                      /\ batch = <<>> => above[id] = <<>>
    /\ outcome = "ok" => above[id] = <<>>
    /\ outcome # "repeated"
    /\ outcome = "unsupported" => \E x \in Range(above[Start]) : type[x] = Alien

WalkInv == WalkTypeOK /\ kind = type[id] /\ TreeInv /\ MetInv /\ WalkCapInv /\ AtRestInv

-----------------------------------------------------------------------------
(* AncestorWalk: trees and sequences. *)

LEMMA PartOf ==
  ASSUME NEW S, NEW s \in Seq(S), NEW m \in 1..Len(s) + 1, NEW n \in 0..Len(s), m <= n + 1
  PROVE  /\ SubSeq(s, m, n) \in Seq(S) /\ Len(SubSeq(s, m, n)) = n - m + 1
         /\ \A i \in 1..(n - m + 1) : SubSeq(s, m, n)[i] = s[m + i - 1]
<1>1. Len(s) \in Nat /\ \A i \in m..n : s[i] \in S
  BY ElementOfSeq, LenProperties
<1> QED BY <1>1, SubSeqProperties

LEMMA UpperPart ==
  ASSUME NEW S, NEW s \in Seq(S), NEW i \in 1..Len(s)
  PROVE  /\ SubSeq(s, 1, i - 1) \in Seq(S) /\ Len(SubSeq(s, 1, i - 1)) = i - 1
         /\ \A j \in 1..(i - 1) : SubSeq(s, 1, i - 1)[j] = s[j]
<1>1. Len(s) \in Nat
  BY LenProperties
<1>2. /\ 1 \in 1..Len(s) + 1 /\ i - 1 \in 0..Len(s) /\ 1 <= (i - 1) + 1
      /\ (i - 1) - 1 + 1 = i - 1 /\ \A n \in 1..(i - 1) : 1 + n - 1 = n
  BY <1>1
<1> QED BY <1>2, PartOf

LEMMA InRange ==
  ASSUME NEW s \in Seq(Content), NEW x
  PROVE  x \in Range(s) <=> \E i \in 1..Len(s) : s[i] = x
BY RangeEquality

LEMMA LowerPart ==
  ASSUME NEW s \in Seq(Content), NEW m \in 1..Len(s) + 1
  PROVE  /\ SubSeq(s, m, Len(s)) \in Seq(Content) /\ Len(SubSeq(s, m, Len(s))) = Len(s) - m + 1
         /\ \A i \in 1..(Len(s) - m + 1) : SubSeq(s, m, Len(s))[i] = s[m + i - 1]
         /\ SubSeq(s, 1, m - 1) \in Seq(Content) /\ Joined(SubSeq(s, 1, m - 1), SubSeq(s, m, Len(s)), s)
<1>1. Len(s) \in Nat
  BY LenProperties
<1>2. /\ 1 \in 1..Len(s) + 1 /\ m - 1 \in 0..Len(s) /\ 1 <= (m - 1) + 1
      /\ m - 1 \in (1 - 1)..Len(s) /\ Len(s) \in (m - 1)..Len(s) /\ (m - 1) + 1 = m
      /\ Len(s) \in 0..Len(s) /\ m <= Len(s) + 1
  BY <1>1
<1>3. SubSeq(s, 1, m - 1) \in Seq(Content)
  BY <1>2, PartOf
<1>4. SubSeq(s, 1, m - 1) \o SubSeq(s, (m - 1) + 1, Len(s)) = SubSeq(s, 1, Len(s))
  BY <1>2, ConcatAdjacentSubSeq
<1>5. Joined(SubSeq(s, 1, m - 1), SubSeq(s, m, Len(s)), s)
  BY <1>2, <1>4, SubSeqFull DEF Joined
<1> QED BY <1>2, <1>3, <1>5, PartOf

LEMMA JoinedParts ==
  ASSUME NEW s \in Seq(Content), NEW t \in Seq(Content), NEW u, Joined(s, t, u)
  PROVE  /\ u \in Seq(Content) /\ Len(s) \in Nat /\ Len(t) \in Nat /\ Len(u) \in Nat
         /\ Len(u) - Len(s) = Len(t)
         /\ \A i \in 1..Len(s) : u[i] = s[i]
         /\ \A i \in 1..Len(t) : u[Len(s) + i] = t[i]
<1>1. /\ s \o t \in Seq(Content) /\ Len(s) \in Nat /\ Len(t) \in Nat /\ Len(s \o t) = Len(s) + Len(t)
      /\ \A i \in 1..Len(s) + Len(t) : (s \o t)[i] = IF i <= Len(s) THEN s[i] ELSE t[i - Len(s)]
  BY ConcatProperties, LenProperties
<1>2. u = s \o t
  BY DEF Joined
<1>3. \A i \in 1..Len(s) : u[i] = s[i]
  BY <1>1, <1>2
<1>4. ASSUME NEW i \in 1..Len(t) PROVE u[Len(s) + i] = t[i]
  <2>1. Len(s) + i \in 1..Len(s) + Len(t) /\ ~(Len(s) + i <= Len(s)) /\ (Len(s) + i) - Len(s) = i
    BY <1>1
  <2> QED BY <1>1, <1>2, <2>1
<1> HIDE DEF Joined
<1> QED BY <1>1, <1>2, <1>3, <1>4

LEMMA JoinedRange ==
  ASSUME NEW s \in Seq(Content), NEW t \in Seq(Content), NEW u, Joined(s, t, u)
  PROVE  Range(u) = Range(s) \cup Range(t)
<1>1. Range(s \o t) = Range(s) \cup Range(t) /\ u = s \o t
  BY RangeConcatenation DEF Joined
<1> QED BY <1>1

\* What is nowhere twice in the whole is not in both parts.
LEMMA JoinedApart ==
  ASSUME NEW s \in Seq(Content), NEW t \in Seq(Content), NEW u, Joined(s, t, u), IsInjective(u)
  PROVE  Range(s) \cap Range(t) = {}
<1> SUFFICES ASSUME NEW x \in Range(s), x \in Range(t) PROVE FALSE
  OBVIOUS
<1>1. PICK i \in 1..Len(s) : s[i] = x
  BY InRange
<1>2. PICK j \in 1..Len(t) : t[j] = x
  BY InRange
<1>3. /\ Len(s) \in Nat /\ Len(t) \in Nat /\ Len(u) \in Nat /\ Len(u) - Len(s) = Len(t)
      /\ u[i] = x /\ u[Len(s) + j] = x
  BY <1>1, <1>2, JoinedParts
<1>4. i \in 1..Len(u) /\ Len(s) + j \in 1..Len(u) /\ i # Len(s) + j
  BY <1>3
<1>5. DOMAIN u = 1..Len(u)
  BY JoinedParts, LenProperties
<1> QED BY <1>3, <1>4, <1>5 DEF IsInjective

\* The second part is the lower end of the whole.
LEMMA JoinedEnd ==
  ASSUME NEW s \in Seq(Content), NEW t \in Seq(Content), NEW u, Joined(s, t, u)
  PROVE  t = SubSeq(u, Len(u) - Len(t) + 1, Len(u))
<1>1. /\ u \in Seq(Content) /\ Len(s) \in Nat /\ Len(t) \in Nat /\ Len(u) \in Nat
      /\ Len(u) - Len(s) = Len(t)
  BY JoinedParts
<1>2. \A i \in 1..Len(t) : u[Len(s) + i] = t[i]
  BY JoinedParts
<1> DEFINE m == Len(u) - Len(t) + 1
<1>3. m \in 1..Len(u) + 1 /\ m - 1 = Len(s) /\ Len(u) - m + 1 = Len(t)
  BY <1>1
<1> HIDE DEF m
<1> DEFINE low == SubSeq(u, m, Len(u))
<1>4. /\ low \in Seq(Content) /\ Len(low) = Len(u) - m + 1
      /\ \A i \in 1..(Len(u) - m + 1) : low[i] = u[m + i - 1]
  BY <1>1, <1>3, LowerPart
<1>5. \A i \in 1..Len(t) : i \in 1..(Len(u) - m + 1) /\ m + i - 1 = Len(s) + i
  BY <1>1, <1>3
<1> HIDE DEF low
<1>6. Len(low) = Len(t) /\ \A i \in 1..Len(t) : low[i] = t[i]
  BY <1>2, <1>3, <1>4, <1>5
<1>7. t = low
  BY <1>4, <1>6, SeqEqual
<1> QED BY <1>7 DEF low, m

LEMMA JoinedTwice ==
  ASSUME NEW s \in Seq(Content), NEW t \in Seq(Content), NEW u \in Seq(Content), NEW v, NEW w,
         Joined(s, t, v), Joined(v, u, w)
  PROVE  Joined(s, t \o u, w)
<1>1. v = s \o t /\ w = v \o u
  BY DEF Joined
<1>2. (s \o t) \o u = s \o (t \o u)
  BY ConcatAssociative
<1> QED BY <1>1, <1>2, Zenon DEF Joined

LEMMA AboveAbove ==
  ASSUME above \in [Content -> Seq(Content)], TreeInv,
         NEW z \in Content, NEW i \in 1..Len(above[z])
  PROVE  /\ above[z][i] \in Content
         /\ Len(above[above[z][i]]) = i - 1
         /\ \A j \in 1..(i - 1) : above[above[z][i]][j] = above[z][j]
<1>1. above[z] \in Seq(Content) /\ above[above[z][i]] = SubSeq(above[z], 1, i - 1)
  BY DEF TreeInv
<1> QED BY <1>1, UpperPart, ElementOfSeq

\* Nothing is above itself, and nothing is twice above anything.
LEMMA NoCircle ==
  ASSUME above \in [Content -> Seq(Content)], TreeInv, NEW z \in Content
  PROVE  IsInjective(above[z]) /\ z \notin Range(above[z])
<1>1. above[z] \in Seq(Content) /\ Len(above[z]) \in Nat /\ DOMAIN above[z] = 1..Len(above[z])
  BY LenProperties
<1>2. ASSUME NEW i \in 1..Len(above[z]) PROVE Len(above[above[z][i]]) = i - 1
  BY AboveAbove
<1>3. IsInjective(above[z])
  <2> SUFFICES ASSUME NEW i \in 1..Len(above[z]), NEW j \in 1..Len(above[z]),
                      above[z][i] = above[z][j]
               PROVE  i = j
    BY <1>1 DEF IsInjective
  <2> QED BY <1>1, <1>2
<1>4. ASSUME NEW i \in 1..Len(above[z]), above[z][i] = z PROVE FALSE
  BY <1>1, <1>2, <1>4
<1> QED BY <1>1, <1>3, <1>4, InRange

LEMMA WithinType ==
  ASSUME above \in [Content -> Seq(Content)], NEW y \in Content \cup {None}
  PROVE  /\ Within(y) \in Seq(Content)
         /\ y = None => Within(y) = <<>>
         /\ y # None => /\ y \in Content /\ Len(Within(y)) = Len(above[y]) + 1
                        /\ Within(y)[Len(Within(y))] = y
                        /\ \A i \in 1..Len(above[y]) : Within(y)[i] = above[y][i]
<1>1. CASE y = None
  BY <1>1, EmptySeq DEF Within
<1>2. CASE y # None
  BY <1>2, AppendProperties DEF Within
<1> QED BY <1>1, <1>2

\* A move leaves a tree.
LEMMA MoveTree ==
  ASSUME above \in [Content -> Seq(Content)], TreeInv,
         NEW x \in Content, NEW y \in Content \cup {None}, Move(x, y)
  PROVE  above' \in [Content -> Seq(Content)] /\ TreeInv'
<1> DEFINE Below(z) == z = x \/ x \in Range(above[z])
           k == Len(above[x])
           O == Within(y)
<1>1. \A z \in Content : above[z] \in Seq(Content) /\ Len(above[z]) \in Nat
  BY LenProperties
<1>2. O \in Seq(Content) /\ Len(O) \in Nat /\ k \in Nat
  BY <1>1, WithinType, LenProperties
<1>3. ASSUME NEW z \in Content
      PROVE  above'[z] = IF Below(z) THEN O \o SubSeq(above[z], k + 1, Len(above[z]))
                         ELSE above[z]
  BY DEF Move
\* What is above y does not move, nor does y.
<1>4. ASSUME NEW i \in 1..Len(O)
      PROVE  O[i] \in Content /\ ~Below(O[i]) /\ above[O[i]] = SubSeq(O, 1, i - 1)
  <2>1. y # None /\ y \in Content /\ above[y] \in Seq(Content) /\ Len(O) = Len(above[y]) + 1
    BY <1>1, <1>2, WithinType, EmptySeq
  <2>2. x # y /\ x \notin Range(above[y])
    BY <2>1 DEF Move
  <2>3. CASE i = Len(O)
    <3>1. O[i] = y
      BY <2>1, <2>3, WithinType
    <3>2. above[y] = SubSeq(O, 1, i - 1)
      <4>1. SubSeq(O, 1, i - 1) \in Seq(Content) /\ Len(SubSeq(O, 1, i - 1)) = i - 1
            /\ \A j \in 1..(i - 1) : SubSeq(O, 1, i - 1)[j] = O[j]
        BY <1>2, PartOf
      <4>2. \A j \in 1..(i - 1) : O[j] = above[y][j]
        BY <1>1, <2>1, <2>3, WithinType
      <4> QED BY <1>1, <2>1, <2>3, <4>1, <4>2, SeqEqual
    <3> QED BY <2>1, <2>2, <3>1, <3>2
  <2>4. CASE i # Len(O)
    <3>1. i \in 1..Len(above[y]) /\ O[i] = above[y][i] /\ O[i] \in Content
      BY <1>1, <2>1, <2>4, WithinType, ElementOfSeq
    <3>2. above[O[i]] = SubSeq(above[y], 1, i - 1)
      BY <2>1, <3>1 DEF TreeInv
    <3>3. /\ SubSeq(above[y], 1, i - 1) \in Seq(Content) /\ Len(SubSeq(above[y], 1, i - 1)) = i - 1
          /\ \A j \in 1..(i - 1) : SubSeq(above[y], 1, i - 1)[j] = above[y][j]
      BY <2>1, <3>1, PartOf
    <3>4. O[i] # x
      BY <2>1, <2>2, <3>1, InRange
    <3>5. x \notin Range(above[O[i]])
      <4>1. Len(above[O[i]]) = i - 1 /\ \A j \in 1..(i - 1) : above[O[i]][j] = above[y][j]
        BY <2>1, <3>1, AboveAbove
      <4>2. \A j \in 1..(i - 1) : j \in 1..Len(above[y])
        BY <1>1, <2>1, <3>1
      <4>3. \A j \in 1..Len(above[y]) : above[y][j] # x
        BY <2>1, <2>2, InRange
      <4>4. above[O[i]] \in Seq(Content) /\ \A j \in 1..Len(above[O[i]]) : above[O[i]][j] # x
        BY <1>1, <3>1, <4>1, <4>2, <4>3
      <4> QED BY <4>4, InRange
    <3>6. SubSeq(O, 1, i - 1) = SubSeq(above[y], 1, i - 1)
      <4>1. /\ SubSeq(O, 1, i - 1) \in Seq(Content) /\ Len(SubSeq(O, 1, i - 1)) = i - 1
            /\ \A j \in 1..(i - 1) : SubSeq(O, 1, i - 1)[j] = O[j]
        BY <1>2, PartOf
      <4>2. \A j \in 1..(i - 1) : O[j] = above[y][j]
        <5>1. \A j \in 1..(i - 1) : j \in 1..Len(above[y])
          BY <1>1, <2>1, <3>1
        <5> QED BY <2>1, <5>1, WithinType
      <4> QED BY <3>1, <3>3, <4>1, <4>2, SeqEqual
    <3> QED BY <3>1, <3>2, <3>4, <3>5, <3>6
  <2> QED BY <2>3, <2>4
\* What does not move has nothing above it that moves.
<1>5. ASSUME NEW z \in Content, ~Below(z), NEW i \in 1..Len(above[z])
      PROVE  above[z][i] \in Content /\ ~Below(above[z][i])
  <2>1. above[z][i] \in Content /\ above[z][i] # x
    BY <1>1, <1>5, ElementOfSeq, InRange
  <2>2. Len(above[above[z][i]]) = i - 1 /\ \A j \in 1..(i - 1) : above[above[z][i]][j] = above[z][j]
    BY AboveAbove
  <2>3. \A j \in 1..(i - 1) : above[above[z][i]][j] # x
    <3>1. \A j \in 1..(i - 1) : j \in 1..Len(above[z])
      BY <1>1
    <3>2. \A j \in 1..Len(above[z]) : above[z][j] # x
      BY <1>1, <1>5, InRange
    <3> QED BY <2>2, <3>1, <3>2
  <2>4. x \notin Range(above[above[z][i]])
    <3>1. /\ above[above[z][i]] \in Seq(Content)
          /\ \A j \in 1..Len(above[above[z][i]]) : above[above[z][i]][j] # x
      BY <1>1, <2>1, <2>2, <2>3
    <3> QED BY <3>1, InRange
  <2> QED BY <2>1, <2>4
\* What moves has x below what is above x, and from there on all moves.
<1>6. ASSUME NEW z \in Content, Below(z)
      PROVE  /\ k <= Len(above[z])
             /\ z # x => k < Len(above[z]) /\ above[z][k + 1] = x
  <2>1. CASE z = x
    BY <1>2, <2>1
  <2>2. CASE z # x
    <3>1. PICK m \in 1..Len(above[z]) : above[z][m] = x
      BY <1>1, <1>6, <2>2, InRange
    <3>2. k = m - 1
      BY <3>1, AboveAbove
    <3> QED BY <1>1, <3>1, <3>2
  <2> QED BY <2>1, <2>2
<1>7. ASSUME NEW z \in Content, Below(z), NEW j \in (k + 1)..Len(above[z])
      PROVE  above[z][j] \in Content /\ Below(above[z][j])
  <2>1. j \in 1..Len(above[z]) /\ above[z][j] \in Content
    BY <1>1, <1>2, <1>7, ElementOfSeq
  <2>2. z # x /\ above[z][k + 1] = x
    BY <1>1, <1>2, <1>6, <1>7
  <2>3. CASE j = k + 1
    BY <2>1, <2>2, <2>3
  <2>4. CASE j # k + 1
    <3>1. k + 1 \in 1..(j - 1)
      BY <1>1, <1>2, <2>1, <2>4
    <3>2. Len(above[above[z][j]]) = j - 1 /\ above[above[z][j]][k + 1] = x
      BY <2>1, <2>2, <3>1, AboveAbove
    <3>3. x \in Range(above[above[z][j]])
      BY <1>1, <2>1, <3>1, <3>2, InRange
    <3> QED BY <2>1, <3>3
  <2> QED BY <2>3, <2>4
\* The new place of what moves.
<1>8. ASSUME NEW z \in Content, Below(z)
      PROVE  /\ above'[z] \in Seq(Content)
             /\ Len(above'[z]) = Len(O) + Len(above[z]) - k
             /\ \A i \in 1..Len(O) : above'[z][i] = O[i]
             /\ \A j \in (k + 1)..Len(above[z]) : above'[z][Len(O) + j - k] = above[z][j]
  <2> DEFINE low == SubSeq(above[z], k + 1, Len(above[z]))
  <2>1. /\ low \in Seq(Content) /\ Len(low) = Len(above[z]) - k
        /\ \A i \in 1..(Len(above[z]) - k) : low[i] = above[z][k + i]
    <3>1. k + 1 \in 1..Len(above[z]) + 1 /\ Len(above[z]) \in 0..Len(above[z])
          /\ Len(above[z]) - (k + 1) + 1 = Len(above[z]) - k
          /\ \A i \in 1..(Len(above[z]) - k) : (k + 1) + i - 1 = k + i
      BY <1>1, <1>2, <1>6, <1>8
    <3> QED BY <1>1, <3>1, PartOf
  <2>2. above'[z] = O \o low
    BY <1>3, <1>8
  <2>3. /\ O \o low \in Seq(Content) /\ Len(O \o low) = Len(O) + Len(low)
        /\ \A i \in 1..Len(O) + Len(low) :
             (O \o low)[i] = IF i <= Len(O) THEN O[i] ELSE low[i - Len(O)]
    BY <1>2, <2>1, ConcatProperties
  <2>4. ASSUME NEW j \in (k + 1)..Len(above[z])
        PROVE  above'[z][Len(O) + j - k] = above[z][j]
    <3>1. /\ Len(O) + j - k \in 1..Len(O) + Len(low) /\ ~(Len(O) + j - k <= Len(O))
          /\ (Len(O) + j - k) - Len(O) = j - k /\ j - k \in 1..(Len(above[z]) - k)
          /\ k + (j - k) = j
      BY <1>1, <1>2, <2>1
    <3> QED BY <2>1, <2>2, <2>3, <3>1
  <2>5. Len(above'[z]) = Len(O) + Len(above[z]) - k /\ above'[z] \in Seq(Content)
    BY <1>1, <1>2, <2>1, <2>2, <2>3
  <2>6. \A i \in 1..Len(O) : above'[z][i] = O[i]
    <3>1. \A i \in 1..Len(O) : i \in 1..Len(O) + Len(low) /\ i <= Len(O)
      BY <1>1, <1>2, <1>6, <1>8, <2>1
    <3> QED BY <2>2, <2>3, <3>1
  <2> QED BY <2>4, <2>5, <2>6
<1>9. above' \in [Content -> Seq(Content)]
  <2>1. \A z \in Content : above'[z] \in Seq(Content)
    BY <1>1, <1>3, <1>8
  <2> QED BY <2>1 DEF Move
<1>10. ASSUME NEW z \in Content, NEW i \in 1..Len(above'[z])
       PROVE  above'[above'[z][i]] = SubSeq(above'[z], 1, i - 1)
  <2>1. CASE ~Below(z)
    <3>1. above'[z] = above[z]
      BY <1>3, <2>1
    <3>2. above[z][i] \in Content /\ ~Below(above[z][i])
      BY <1>5, <2>1, <3>1
    <3>3. above'[above[z][i]] = above[above[z][i]]
      BY <1>3, <3>2
    <3> QED BY <3>1, <3>3 DEF TreeInv
  <2>2. CASE Below(z)
    <3> DEFINE up == SubSeq(above'[z], 1, i - 1)
    <3>1. /\ above'[z] \in Seq(Content) /\ Len(above'[z]) = Len(O) + Len(above[z]) - k
          /\ k <= Len(above[z])
      BY <1>6, <1>8, <2>2
    <3>2. /\ up \in Seq(Content) /\ Len(up) = i - 1
          /\ \A n \in 1..(i - 1) : up[n] = above'[z][n]
      BY <3>1, UpperPart
    <3>3. CASE i <= Len(O)
      <4>1. above'[z][i] = O[i] /\ \A n \in 1..(i - 1) : above'[z][n] = O[n]
        BY <1>2, <1>8, <2>2, <3>3
      <4>2. above'[O[i]] = SubSeq(O, 1, i - 1)
        BY <1>2, <1>3, <1>4, <3>3
      <4>3. /\ SubSeq(O, 1, i - 1) \in Seq(Content) /\ Len(SubSeq(O, 1, i - 1)) = i - 1
            /\ \A n \in 1..(i - 1) : SubSeq(O, 1, i - 1)[n] = O[n]
        BY <1>2, <3>3, UpperPart
      <4>4. SubSeq(O, 1, i - 1) = up
        BY <3>2, <4>1, <4>3, SeqEqual
      <4> QED BY <4>1, <4>2, <4>4
    <3>4. CASE ~(i <= Len(O))
      <4> DEFINE j == i - Len(O) + k
                 w == above[z][j]
      <4>1. j \in (k + 1)..Len(above[z]) /\ j \in 1..Len(above[z]) /\ i = Len(O) + j - k
        BY <1>1, <1>2, <3>1, <3>4
      <4>2. above'[z][i] = w /\ w \in Content /\ Below(w)
        BY <1>7, <1>8, <2>2, <4>1
      <4>3. Len(above[w]) = j - 1 /\ \A n \in 1..(j - 1) : above[w][n] = above[z][n]
        BY <4>1, AboveAbove
      <4>4. /\ above'[w] \in Seq(Content) /\ Len(above'[w]) = i - 1
            /\ \A n \in 1..Len(O) : above'[w][n] = O[n]
            /\ \A n \in (k + 1)..(j - 1) : above'[w][Len(O) + n - k] = above[z][n]
        <5>1. /\ above'[w] \in Seq(Content) /\ Len(above'[w]) = Len(O) + Len(above[w]) - k
              /\ \A n \in 1..Len(O) : above'[w][n] = O[n]
              /\ \A n \in (k + 1)..Len(above[w]) : above'[w][Len(O) + n - k] = above[w][n]
          BY <1>8, <4>2
        <5>2. \A n \in (k + 1)..(j - 1) : n \in 1..(j - 1)
          BY <1>2
        <5>3. Len(O) + (j - 1) - k = i - 1
          BY <1>1, <1>2, <4>1
        <5> QED BY <4>3, <5>1, <5>2, <5>3
      <4> HIDE DEF j, up
      <4>5. ASSUME NEW n \in 1..(i - 1) PROVE above'[w][n] = up[n]
        <5>1. CASE n <= Len(O)
          <6>1. n \in 1..Len(O)
            BY <1>2, <5>1
          <6>2. above'[z][n] = O[n]
            BY <1>8, <2>2, <6>1
          <6> QED BY <3>2, <4>4, <6>1, <6>2
        <5>2. CASE ~(n <= Len(O))
          <6> DEFINE m == n - Len(O) + k
          <6>1. m \in (k + 1)..(j - 1) /\ m \in (k + 1)..Len(above[z]) /\ n = Len(O) + m - k
            BY <1>1, <1>2, <4>1, <5>2
          <6> HIDE DEF m
          <6> QED BY <1>8, <2>2, <3>2, <4>4, <6>1
        <5> QED BY <5>1, <5>2
      <4>6. above'[w] = up
        <5>1. above'[w] \in Seq(Content) /\ Len(above'[w]) = Len(up)
          BY <3>2, <4>4
        <5>2. \A n \in 1..Len(above'[w]) : above'[w][n] = up[n]
          BY <4>4, <4>5
        <5> QED BY <3>2, <5>1, <5>2, SeqEqual
      <4>7. SubSeq(above'[z], 1, i - 1) = up
        BY DEF up
      <4> HIDE DEF w
      <4> QED BY <4>2, <4>6, <4>7
    <3> QED BY <3>3, <3>4
  <2> QED BY <2>1, <2>2
<1> QED BY <1>9, <1>10 DEF TreeInv

-----------------------------------------------------------------------------
(* AncestorWalk: the steps of the walk. *)

LEMMA WalkInitInv == WalkInit => WalkInv
<1> SUFFICES ASSUME WalkInit PROVE WalkInv
  OBVIOUS
<1> USE WalkAssumption, CapAssumption
<1>1. PICK c \in Chains : above = TreeOf(c)
  BY DEF WalkInit
<1>2. PICK n \in Nat : c \in [1..n -> Content \ {Start}] /\ IsInjective(c)
  <2>1. Cardinality(Content) \in Nat
    BY FS_CardinalityType
  <2> QED BY <1>1, <2>1 DEF Chains
<1> DEFINE down == Append(c, Start)
           place(x) == CHOOSE i \in DOMAIN down : down[i] = x
<1>3. c \in Seq(Content) /\ Len(c) = n
  BY <1>2
<1>4. /\ down \in Seq(Content) /\ Len(down) = n + 1 /\ DOMAIN down = 1..(n + 1)
      /\ \A i \in 1..n : down[i] = c[i]
      /\ down[n + 1] = Start
  BY <1>2, <1>3, AppendProperties, LenProperties
<1>5. IsInjective(down)
  BY <1>2, <1>4 DEF IsInjective
<1>6. \A i \in 1..(n + 1) : down[i] \in Content /\ place(down[i]) = i
  BY <1>4, <1>5, ElementOfSeq DEF IsInjective
<1> HIDE DEF down, place
<1>7. ASSUME NEW x \in Content
      PROVE  above[x] = IF \E i \in DOMAIN down : down[i] = x
                        THEN SubSeq(down, 1, place(x) - 1) ELSE <<>>
  BY <1>1 DEF TreeOf, down, place
<1>8. \A i \in 1..(n + 1) : above[down[i]] = SubSeq(down, 1, i - 1)
  BY <1>4, <1>6, <1>7
<1>9. ASSUME NEW x \in Content, NEW i \in 1..(n + 1), x = down[i]
      PROVE  /\ above[x] \in Seq(Content) /\ Len(above[x]) = i - 1
             /\ \A j \in 1..(i - 1) : above[x][j] = down[j]
  <2>1. i \in 1..Len(down) /\ above[x] = SubSeq(down, 1, i - 1)
    BY <1>4, <1>8, <1>9
  <2> QED BY <1>4, <2>1, UpperPart
<1>10. above \in [Content -> Seq(Content)]
  <2>1. ASSUME NEW x \in Content PROVE above[x] \in Seq(Content)
    <3>1. CASE \E i \in 1..(n + 1) : x = down[i]
      BY <1>9, <3>1
    <3>2. CASE ~ \E i \in 1..(n + 1) : x = down[i]
      <4>1. above[x] = <<>>
        BY <1>4, <1>7, <3>2
      <4> QED BY <4>1, EmptySeq
    <3> QED BY <3>1, <3>2
  <2> QED BY <1>1, <2>1 DEF TreeOf
<1>11. TreeInv
  <2> SUFFICES ASSUME NEW z \in Content, NEW j \in 1..Len(above[z])
               PROVE  above[above[z][j]] = SubSeq(above[z], 1, j - 1)
    BY DEF TreeInv
  <2>1. PICK i \in 1..(n + 1) : z = down[i]
    BY <1>4, <1>7, EmptySeq
  <2>2. /\ above[z] \in Seq(Content) /\ Len(above[z]) = i - 1
        /\ \A m \in 1..(i - 1) : above[z][m] = down[m]
    BY <1>9, <2>1
  <2>3. j \in 1..(i - 1) /\ j \in 1..(n + 1) /\ \A m \in 1..(j - 1) : m \in 1..(i - 1)
    BY <1>2, <2>1, <2>2
  <2>4. /\ above[down[j]] \in Seq(Content) /\ Len(above[down[j]]) = j - 1
        /\ \A m \in 1..(j - 1) : above[down[j]][m] = down[m]
    BY <1>6, <1>9, <2>3
  <2>5. /\ SubSeq(above[z], 1, j - 1) \in Seq(Content) /\ Len(SubSeq(above[z], 1, j - 1)) = j - 1
        /\ \A m \in 1..(j - 1) : SubSeq(above[z], 1, j - 1)[m] = above[z][m]
    BY <2>2, <2>3, UpperPart
  <2>6. above[down[j]] = SubSeq(above[z], 1, j - 1)
    BY <2>2, <2>3, <2>4, <2>5, SeqEqual
  <2> QED BY <2>2, <2>3, <2>6
<1>12. Range(<<>>) = {} /\ Len(<<>>) = 0 /\ <<>> \in Seq(Content) /\ IsInjective(<<>>)
  BY EmptySeq DEF Range, IsInjective
<1>13. Joined(above[Start], <<>>, above[Start])
  BY <1>10, ConcatEmptySeq DEF Joined
<1> QED
  BY <1>10, <1>11, <1>12, <1>13
  DEF WalkInit, WalkInv, WalkTypeOK, Outcome, MetInv, WalkCapInv, AtRestInv

LEMMA WalkTypeStep == WalkInv /\ [WalkNext]_walkVars => WalkTypeOK'
<1> SUFFICES ASSUME WalkInv, [WalkNext]_walkVars PROVE WalkTypeOK'
  OBVIOUS
<1> USE CapAssumption, WalkAssumption DEF WalkInv, WalkTypeOK, Outcome
<1>1. CASE AnswerAbove
  <2>1. above[id] \in Seq(Content) /\ Len(above[id]) \in Nat
    BY LenProperties
  <2>2. PICK n \in 1..BatchSize :
          batch' = SubSeq(above[id], IF Len(above[id]) > n THEN Len(above[id]) - n + 1 ELSE 1,
                          Len(above[id]))
    BY <1>1 DEF AnswerAbove
  <2> DEFINE m == IF Len(above[id]) > n THEN Len(above[id]) - n + 1 ELSE 1
  <2>3. m \in 1..Len(above[id]) + 1 /\ m <= Len(above[id]) + 1 /\ Len(above[id]) - m + 1 <= n
    BY <2>1
  <2>4. batch' \in Seq(Content) /\ Len(batch') <= BatchSize
    <3>1. batch' = SubSeq(above[id], m, Len(above[id])) /\ Len(above[id]) \in 0..Len(above[id])
      BY <2>1, <2>2
    <3> HIDE DEF m
    <3>2. batch' \in Seq(Content) /\ Len(batch') = Len(above[id]) - m + 1
      BY <2>1, <2>3, <3>1, PartOf
    <3> QED BY <2>1, <2>3, <3>2
  <2> QED BY <1>1, <2>4 DEF AnswerAbove, tree, walk
<1>2. CASE Climb
  <2>1. batch # <<>> /\ batch[1] \in Content /\ Range(batch) \subseteq Content
    BY <1>2, EmptySeq, ElementOfSeq, RangeOfSeq, LenProperties DEF Climb
  <2>2. batch \o items \in Seq(Content)
    BY ConcatProperties
  <2>3. page' \in 0..MaxFollowPages
    BY <1>2 DEF Climb, WalkCapInv
  <2> QED BY <1>2, <2>1, <2>2, <2>3 DEF Climb, Highest, Prepended, Return, tree
<1>3. CASE Top \/ Repeated \/ Unsupported \/ WalkFails
  BY <1>3 DEF Top, Repeated, Unsupported, WalkFails, Return, tree, walk
<1>4. ASSUME NEW x \in Content, NEW y \in Content \cup {None}, Move(x, y) PROVE WalkTypeOK'
  <2>1. above' \in [Content -> Seq(Content)]
    BY <1>4, MoveTree
  <2> QED BY <1>4, <2>1 DEF Move, walk
<1>5. CASE UNCHANGED walkVars
  BY <1>5 DEF walkVars, tree, walk
<1> QED BY <1>1, <1>2, <1>3, <1>4, <1>5 DEF WalkNext

\* The walk itself leaves the tree and its place consistent.
LEMMA PlaceStep == WalkInv /\ [WalkNext]_walkVars => TreeInv' /\ kind' = type'[id']
<1> SUFFICES ASSUME WalkInv, [WalkNext]_walkVars PROVE TreeInv' /\ kind' = type'[id']
  OBVIOUS
<1>1. ASSUME UNCHANGED above PROVE TreeInv'
  BY <1>1 DEF WalkInv, TreeInv
<1>2. CASE Climb
  BY <1>1, <1>2 DEF Climb, tree
<1>3. CASE AnswerAbove \/ Top \/ Repeated \/ Unsupported \/ WalkFails \/ UNCHANGED walkVars
  BY <1>1, <1>3 DEF AnswerAbove, Top, Repeated, Unsupported, WalkFails, walkVars, tree, walk, WalkInv
<1>4. ASSUME NEW x \in Content, NEW y \in Content \cup {None}, Move(x, y)
      PROVE  TreeInv' /\ kind' = type'[id']
  <2>1. TreeInv'
    BY <1>4, MoveTree DEF WalkInv, WalkTypeOK
  <2> QED BY <1>4, <2>1 DEF Move, walk, WalkInv
<1> QED BY <1>2, <1>3, <1>4 DEF WalkNext

\* A batch that is put before what was collected.
LEMMA Prepending ==
  ASSUME NEW s \in Seq(Content), NEW t \in Seq(Content), IsInjective(s), IsInjective(t),
         Range(s) \cap Range(t) = {}
  PROVE  /\ s \o t \in Seq(Content) /\ Range(s \o t) = Range(s) \cup Range(t)
         /\ IsInjective(s \o t)
<1>1. /\ s \o t \in Seq(Content) /\ Len(s) \in Nat /\ Len(t) \in Nat
      /\ Len(s \o t) = Len(s) + Len(t) /\ DOMAIN (s \o t) = 1..(Len(s) + Len(t))
      /\ DOMAIN s = 1..Len(s) /\ DOMAIN t = 1..Len(t)
      /\ \A i \in 1..Len(s) + Len(t) :
           (s \o t)[i] = IF i <= Len(s) THEN s[i] ELSE t[i - Len(s)]
  BY ConcatProperties, LenProperties
<1>2. \A i \in 1..Len(s), j \in 1..Len(t) : s[i] # t[j]
  BY <1>1 DEF Range
<1>3. IsInjective(s \o t)
  <2> SUFFICES ASSUME NEW i \in 1..(Len(s) + Len(t)), NEW j \in 1..(Len(s) + Len(t)),
                      (s \o t)[i] = (s \o t)[j]
               PROVE  i = j
    BY <1>1 DEF IsInjective
  <2>1. CASE i <= Len(s) /\ j <= Len(s)
    <3>1. i \in 1..Len(s) /\ j \in 1..Len(s) /\ s[i] = s[j]
      BY <1>1, <2>1
    <3> QED BY <1>1, <3>1 DEF IsInjective
  <2>2. CASE ~(i <= Len(s)) /\ ~(j <= Len(s))
    <3>1. i - Len(s) \in 1..Len(t) /\ j - Len(s) \in 1..Len(t) /\ t[i - Len(s)] = t[j - Len(s)]
      BY <1>1, <2>2
    <3>2. i - Len(s) = j - Len(s)
      BY <1>1, <3>1 DEF IsInjective
    <3> QED BY <1>1, <3>2
  <2>3. CASE i <= Len(s) /\ ~(j <= Len(s))
    <3>1. i \in 1..Len(s) /\ j - Len(s) \in 1..Len(t) /\ s[i] = t[j - Len(s)]
      BY <1>1, <2>3
    <3> QED BY <1>2, <3>1
  <2>4. CASE ~(i <= Len(s)) /\ j <= Len(s)
    <3>1. j \in 1..Len(s) /\ i - Len(s) \in 1..Len(t) /\ s[j] = t[i - Len(s)]
      BY <1>1, <2>4
    <3> QED BY <1>2, <3>1
  <2> QED BY <2>1, <2>2, <2>3, <2>4
<1> QED BY <1>1, <1>3, RangeConcatenation

\* An answer is the lower part of what is above the place where the walk is.
LEMMA AnswerIsLow ==
  ASSUME WalkInv, AnswerAbove
  PROVE  /\ IsInjective(batch')
         /\ \E top \in Seq(Content) : Joined(top, batch', above[id])
         /\ batch' = <<>> => above[id] = <<>>
<1>0. PICK s \in Seq(Content) : s = above[id]
  BY DEF WalkInv, WalkTypeOK
<1>1. s = above[id] /\ Len(s) \in Nat /\ DOMAIN s = 1..Len(s) /\ IsInjective(s)
  BY <1>0, NoCircle, LenProperties DEF WalkInv, WalkTypeOK
<1>2. PICK m \in 1..(Len(s) + 1) : /\ batch' = SubSeq(s, m, Len(s))
                                   /\ Len(s) # 0 => m <= Len(s)
  <2>1. PICK n \in 1..BatchSize :
          batch' = SubSeq(s, IF Len(s) > n THEN Len(s) - n + 1 ELSE 1, Len(s))
    BY <1>0 DEF AnswerAbove
  <2>2. (IF Len(s) > n THEN Len(s) - n + 1 ELSE 1) \in 1..(Len(s) + 1)
    BY <1>1, <2>1
  <2>3. Len(s) # 0 => (IF Len(s) > n THEN Len(s) - n + 1 ELSE 1) <= Len(s)
    BY <1>1, <2>1
  <2> QED BY <2>1, <2>2, <2>3
<1>3. /\ batch' \in Seq(Content) /\ Len(batch') = Len(s) - m + 1
      /\ DOMAIN batch' = 1..(Len(s) - m + 1)
      /\ \A i \in 1..(Len(s) - m + 1) : batch'[i] = s[m + i - 1]
  <2> DEFINE low == SubSeq(s, m, Len(s))
  <2>0. batch' = low
    BY <1>2
  <2>1. /\ batch' \in Seq(Content) /\ Len(batch') = Len(s) - m + 1
        /\ \A i \in 1..(Len(s) - m + 1) : batch'[i] = s[m + i - 1]
    <3>1. /\ low \in Seq(Content) /\ Len(low) = Len(s) - m + 1
          /\ \A i \in 1..(Len(s) - m + 1) : low[i] = s[m + i - 1]
      BY LowerPart
    <3> HIDE DEF low
    <3> QED BY <2>0, <3>1
  <2> QED BY <2>1, LenProperties
<1>4. IsInjective(batch')
  <2> SUFFICES ASSUME NEW i \in 1..(Len(s) - m + 1), NEW j \in 1..(Len(s) - m + 1),
                      batch'[i] = batch'[j]
               PROVE  i = j
    BY <1>3 DEF IsInjective
  <2>1. m + i - 1 \in 1..Len(s) /\ m + j - 1 \in 1..Len(s)
    BY <1>1, <1>2
  <2>2. s[m + i - 1] = s[m + j - 1]
    BY <1>3
  <2>3. m + i - 1 = m + j - 1
    BY <1>1, <2>1, <2>2 DEF IsInjective
  <2> QED BY <1>1, <1>2, <2>3
<1>5. SubSeq(s, 1, m - 1) \in Seq(Content) /\ Joined(SubSeq(s, 1, m - 1), batch', s)
  <2>1. SubSeq(s, 1, m - 1) \in Seq(Content) /\ Joined(SubSeq(s, 1, m - 1), SubSeq(s, m, Len(s)), s)
    BY LowerPart
  <2>2. batch' = SubSeq(s, m, Len(s))
    BY <1>2
  <2> QED BY <2>1, <2>2, Zenon
<1>6. batch' = <<>> => s = <<>>
  <2>1. ASSUME batch' = <<>> PROVE Len(s) = 0
    BY <1>1, <1>2, <1>3, <2>1
  <2> QED BY <1>1, <2>1, EmptySeq
<1> QED BY <1>0, <1>4, <1>5, <1>6

LEMMA MetStep == WalkInv /\ [WalkNext]_walkVars => MetInv'
<1> SUFFICES ASSUME WalkInv, [WalkNext]_walkVars PROVE MetInv'
  OBVIOUS
<1>1. CASE AnswerAbove
  BY <1>1, AnswerIsLow DEF AnswerAbove, walk, WalkInv, MetInv
<1>2. CASE Climb
  <2>1. /\ batch \in Seq(Content) /\ items \in Seq(Content) /\ DOMAIN batch = 1..Len(batch)
        /\ MetInv
    BY LenProperties DEF WalkInv, WalkTypeOK
  <2>2. Range(batch) \cap seen = {}
    BY <1>2, <2>1 DEF Climb, Repeats, Range
  <2>3. Range(batch) \cap Range(items) = {} /\ Start \notin Range(batch)
    BY <2>1, <2>2 DEF MetInv
  <2>4. Range(batch \o items) = Range(batch) \cup Range(items) /\ IsInjective(batch \o items)
    BY <2>1, <2>3, Prepending DEF MetInv
  <2> QED BY <1>2, <2>1, <2>3, <2>4 DEF Climb, Prepended, MetInv
<1>3. CASE Top \/ Repeated \/ Unsupported \/ WalkFails \/ UNCHANGED walkVars
  BY <1>3 DEF Top, Repeated, Unsupported, WalkFails, walkVars, walk, WalkInv, MetInv
<1>4. ASSUME NEW x \in Content, NEW y \in Content \cup {None}, Move(x, y) PROVE MetInv'
  BY <1>4 DEF Move, walk, WalkInv, MetInv
<1> QED BY <1>1, <1>2, <1>3, <1>4 DEF WalkNext

LEMMA WalkCapStep == WalkInv /\ [WalkNext]_walkVars => WalkCapInv'
<1> SUFFICES ASSUME WalkInv, [WalkNext]_walkVars PROVE WalkCapInv'
  OBVIOUS
<1> USE CapAssumption DEF WalkInv, WalkCapInv
<1>1. CASE Climb
  <2>1. Len(batch) \in Nat \ {0} /\ Len(items) \in Nat /\ Len(items') = Len(batch) + Len(items)
    BY <1>1, EmptySeq, LenProperties, ConcatProperties DEF Climb, Prepended, WalkTypeOK
  <2>2. page \in Nat
    BY DEF WalkTypeOK
  <2> QED BY <1>1, <2>1, <2>2 DEF Climb, RoomAbove, Return
<1>2. CASE AnswerAbove
  BY <1>2 DEF AnswerAbove, walk
<1>3. CASE Top \/ Repeated \/ Unsupported \/ WalkFails
  BY <1>3 DEF Top, Repeated, Unsupported, WalkFails, Return, walk
<1>4. ASSUME NEW x \in Content, NEW y \in Content \cup {None}, Move(x, y) PROVE WalkCapInv'
  BY <1>4 DEF Move, walk
<1>5. CASE UNCHANGED walkVars
  BY <1>5 DEF walkVars, walk
<1> QED BY <1>1, <1>2, <1>3, <1>4, <1>5 DEF WalkNext

\* At rest nothing that an answer holds was met before.
LEMMA NewAtRest ==
  ASSUME WalkInv, moves = 0, pc = "read" PROVE ~Repeats
<1>1. /\ batch \in Seq(Content) /\ items \in Seq(Content) /\ above[id] \in Seq(Content)
      /\ above[Start] \in Seq(Content) /\ Joined(above[id], items, above[Start])
  BY WalkAssumption DEF WalkInv, WalkTypeOK, AtRestInv
<1>2. PICK top \in Seq(Content) : Joined(top, batch, above[id])
  BY DEF WalkInv, AtRestInv
<1>3. Range(batch) \subseteq Range(above[id])
  BY <1>1, <1>2, JoinedRange
<1>4. Range(above[id]) \subseteq Range(above[Start]) /\ Start \notin Range(above[Start])
  <2>1. Range(above[Start]) = Range(above[id]) \cup Range(items)
    BY <1>1, JoinedRange
  <2> QED BY <2>1, NoCircle, WalkAssumption DEF WalkInv, WalkTypeOK
<1>5. Range(above[id]) \cap Range(items) = {}
  <2>1. IsInjective(above[Start])
    BY NoCircle, WalkAssumption DEF WalkInv, WalkTypeOK
  <2> QED BY <1>1, <2>1, JoinedApart
<1>6. Range(batch) \cap seen = {}
  BY <1>3, <1>4, <1>5 DEF WalkInv, MetInv
<1> QED BY <1>6 DEF Repeats, Range

LEMMA AtRestStep == WalkInv /\ [WalkNext]_walkVars => AtRestInv'
<1> SUFFICES ASSUME WalkInv, [WalkNext]_walkVars, moves' = 0 PROVE AtRestInv'
  BY DEF AtRestInv
<1>1. moves = 0 /\ UNCHANGED tree
  <2>1. ASSUME NEW x \in Content, NEW y \in Content \cup {None}, Move(x, y) PROVE FALSE
    BY <2>1 DEF Move, WalkInv, WalkTypeOK
  <2> QED BY <2>1 DEF WalkNext, AnswerAbove, Top, Repeated, Unsupported, Climb, WalkFails, walkVars
<1>2. /\ batch \in Seq(Content) /\ items \in Seq(Content) /\ above[id] \in Seq(Content)
      /\ above[Start] \in Seq(Content) /\ Joined(above[id], items, above[Start])
      /\ pc # "done" <=> outcome = "none"
  BY <1>1, WalkAssumption DEF WalkInv, WalkTypeOK, AtRestInv, WalkCapInv
<1>3. CASE AnswerAbove
  <2>1. UNCHANGED walk /\ UNCHANGED outcome /\ outcome = "none"
    BY <1>2, <1>3 DEF AnswerAbove
  <2> QED BY <1>1, <1>2, <1>3, <2>1, AnswerIsLow DEF AtRestInv, tree, walk
<1>4. CASE Top
  BY <1>1, <1>2, <1>4 DEF Top, Return, AtRestInv, tree, walk, WalkInv
<1>5. CASE Repeated
  BY <1>1, <1>5, NewAtRest DEF Repeated
<1>6. CASE Unsupported
  <2>1. Highest \in Range(above[Start]) /\ type[Highest] = Alien
    <3>1. PICK top \in Seq(Content) : Joined(top, batch, above[id])
      BY <1>1, <1>6 DEF WalkInv, AtRestInv, Unsupported
    <3>2. Highest \in Range(batch) /\ Highest \in Content
      BY <1>2, <1>6, EmptySeq, InRange, ElementOfSeq DEF Unsupported, Highest
    <3>3. Highest \in Range(above[Start])
      <4>1. Range(above[Start]) = Range(above[id]) \cup Range(items)
        BY <1>2, JoinedRange
      <4>2. Range(above[id]) = Range(top) \cup Range(batch)
        BY <1>2, <3>1, JoinedRange
      <4> QED BY <3>2, <4>1, <4>2
    <3> QED BY <1>6, <3>2, <3>3 DEF Unsupported, WalkInv, WalkTypeOK
  <2> QED BY <1>1, <1>2, <1>6, <2>1 DEF Unsupported, Return, AtRestInv, tree, walk
<1>7. CASE Climb
  <2>1. PICK top \in Seq(Content) : Joined(top, batch, above[id])
    BY <1>1, <1>7 DEF WalkInv, AtRestInv, Climb
  <2>2. /\ Len(top) \in Nat /\ Len(batch) \in Nat /\ Len(above[id]) \in Nat
        /\ Len(above[id]) - Len(top) = Len(batch)
        /\ \A i \in 1..Len(top) : above[id][i] = top[i]
        /\ \A i \in 1..Len(batch) : above[id][Len(top) + i] = batch[i]
    <3>1. top \in Seq(Content) /\ batch \in Seq(Content) /\ Joined(top, batch, above[id])
      BY <1>2, <2>1
    <3> QED BY <3>1, JoinedParts
  <2>3. Len(top) + 1 \in 1..Len(above[id]) /\ above[id][Len(top) + 1] = batch[1]
    <3>1. Len(batch) # 0
      BY <1>2, <1>7, EmptySeq DEF Climb
    <3> QED BY <2>2, <3>1
  <2>4. above[batch[1]] = top
    <3>1. /\ batch[1] \in Content /\ Len(above[batch[1]]) = Len(top)
          /\ \A j \in 1..Len(top) : above[batch[1]][j] = above[id][j]
      <4> DEFINE n == Len(top) + 1
      <4>1. n - 1 = Len(top) /\ n \in 1..Len(above[id]) /\ above[id][n] = batch[1] /\ id \in Content
        BY <2>2, <2>3 DEF WalkInv, WalkTypeOK
      <4>2. above \in [Content -> Seq(Content)] /\ TreeInv
        BY DEF WalkInv, WalkTypeOK
      <4> HIDE DEF n
      <4> QED BY <4>1, <4>2, AboveAbove
    <3>2. \A j \in 1..Len(top) : above[id][j] = top[j]
      BY <2>2
    <3>3. above[batch[1]] \in Seq(Content)
      BY <3>1 DEF WalkInv, WalkTypeOK
    <3> QED BY <3>1, <3>2, <3>3, SeqEqual
  <2>5. Joined(above[batch[1]], batch \o items, above[Start])
    BY <1>2, <2>1, <2>4, JoinedTwice
  <2>6. outcome' \in {"none", "truncated"} /\ pc' # "read"
    BY <1>2, <1>7 DEF Climb, Return
  <2> QED BY <1>1, <1>7, <2>5, <2>6 DEF Climb, Highest, Prepended, AtRestInv, tree
<1>8. CASE WalkFails
  BY <1>1, <1>2, <1>8 DEF WalkFails, Return, AtRestInv, tree, walk
<1>9. CASE UNCHANGED walkVars
  BY <1>1, <1>9 DEF walkVars, AtRestInv, tree, walk, WalkInv
<1>10. ASSUME NEW x \in Content, NEW y \in Content \cup {None}, Move(x, y) PROVE FALSE
  BY <1>10 DEF Move, WalkInv, WalkTypeOK
<1> QED BY <1>3, <1>4, <1>5, <1>6, <1>7, <1>8, <1>9, <1>10 DEF WalkNext

LEMMA WalkInvariant == WalkSpec => []WalkInv
<1>1. WalkInv /\ [WalkNext]_walkVars => WalkInv'
  BY WalkTypeStep, PlaceStep, MetStep, WalkCapStep, AtRestStep DEF WalkInv
<1> QED BY WalkInitInv, <1>1, PTL DEF WalkSpec

-----------------------------------------------------------------------------

\* Types: a walk asks for content of a type it knows, and an answer is no longer than
\* the service may make it (GetPageAncestorsAll).
THEOREM WalkTypeCorrect == WalkSpec => []WalkTypeOK
BY WalkInvariant, PTL DEF WalkInv

\* However the tree changes between two requests, the walk lists nothing twice, and
\* not the page itself: seen catches what a moved tree repeats.
THEOREM RepeatsNoAncestor == WalkSpec => []NoRepeats
BY WalkInvariant, PTL DEF WalkInv, MetInv, NoRepeats

\* In a tree at rest the walk returns the whole chain or says why it does not.
THEOREM FindsWholeChain == WalkSpec => []WholeChain
<1>1. WalkInv => WholeChain
  <2> SUFFICES ASSUME WalkInv, moves = 0
               PROVE  /\ items = SubSeq(above[Start], Len(above[Start]) - Len(items) + 1,
                                        Len(above[Start]))
                      /\ outcome = "ok" => items = above[Start]
                      /\ outcome = "truncated" => Len(above[Start]) >= page
    BY DEF WholeChain, WalkInv, AtRestInv, WalkCapInv
  <2> DEFINE chain == above[Start]
  <2>1. /\ items \in Seq(Content) /\ above[id] \in Seq(Content) /\ chain \in Seq(Content)
        /\ Joined(above[id], items, chain)
    BY WalkAssumption DEF WalkInv, WalkTypeOK, AtRestInv
  <2>2. items = SubSeq(chain, Len(chain) - Len(items) + 1, Len(chain))
    BY <2>1, JoinedEnd
  <2>3. outcome = "ok" => items = chain
    <3>1. <<>> \o items = items
      BY <2>1, ConcatEmptySeq
    <3> QED BY <2>1, <3>1 DEF Joined, WalkInv, AtRestInv
  <2>4. Len(chain) >= page
    <3>1. /\ Len(above[id]) \in Nat /\ Len(items) \in Nat /\ Len(chain) \in Nat
          /\ Len(chain) - Len(above[id]) = Len(items)
      BY <2>1, JoinedParts
    <3> QED BY <3>1 DEF WalkInv, WalkCapInv, WalkTypeOK
  <2> QED BY <2>2, <2>3, <2>4
<1> QED BY <1>1, WalkInvariant, PTL
=============================================================================
