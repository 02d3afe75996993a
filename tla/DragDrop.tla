------------------------------ MODULE DragDrop ------------------------------
(***************************************************************************)
(* Dragging lists and cards over the board canvas                          *)
(* (frontend/src/components/board/BoardCanvas.tsx).  handleDragEnd moves   *)
(* the item on the canvas at once, sends the ranks of its two neighbours,  *)
(* and loads the board when the answer comes.  The item keeps its old rank *)
(* on the canvas until the board was loaded.                               *)
(*                                                                         *)
(* The canvas shows the cards that pass the filter; the indices of a drop  *)
(* count the cards that are shown, and are applied to all the cards.       *)
(***************************************************************************)
EXTENDS Lexorank, Sequences, SequencesExt, Bags

CONSTANTS
    Root,        \* the container of the lists (the droppable "board-lists")
    FirstPlaces, \* where the lists and cards are at the start
    Hidden,      \* cards that the filter hides, as it does with subcards
    MaxMoves     \* bound: moves by the user of the page and by others

ASSUME DragBounds ==
    /\ MaxMoves \in Nat /\ Hidden \subseteq DOMAIN FirstPlaces
    /\ \A i \in DOMAIN FirstPlaces : FirstPlaces[i].rank \in Int

VARIABLES
    placed,      \* the rows: container and rank of each item
    boardLists,  \* board.lists: the rows of the last load
    localLists,  \* the canvas: the items of each container, in order
    known,       \* the rows as the items on the canvas carry them
    moving,      \* move requests on their way
    fetches,     \* bag of the board loads on their way: {} or {what was read}
    claims,      \* history variable: what the user has put between what
    moves        \* moves so far

dragVars == <<placed, boardLists, localLists, known, moving, fetches, claims, moves>>

Dragged      == DOMAIN FirstPlaces
Containers == {Root} \cup {i \in Dragged : FirstPlaces[i].in = Root}
Places     == [Dragged -> [in : Containers, rank : Int]]

\* The items of a container, by rank.
Ordered(places, c) ==
    SetToSortSeq({i \in Dragged : places[i].in = c},
                 LAMBDA i, j : places[i].rank < places[j].rank)

ListsOf(places) == [c \in Containers |-> Ordered(places, c)]

DragTypeOK ==
    /\ {placed, boardLists, known} \subseteq Places
    /\ \A c \in Containers : localLists[c] \in Seq(Dragged)
    /\ \A d \in moving : d.id \in Dragged /\ d.to \in Containers
    /\ IsABag(fetches) /\ moves \in 0..MaxMoves

DragInit ==
    /\ placed = FirstPlaces /\ boardLists = FirstPlaces /\ known = FirstPlaces
    /\ localLists = ListsOf(FirstPlaces)
    /\ moving = {} /\ fetches = EmptyBag /\ claims = {} /\ moves = 0

-----------------------------------------------------------------------------
\* filterCards.
FilterCards(s) == SelectSeq(s, LAMBDA i : i \notin Hidden)

\* The item at an index, if there is one.
At(s, k) == {i \in Dragged : k \in DOMAIN s /\ s[k] = i}

\* The canvas after an item of one container is spliced into another.
Splice(from, k, to, n) ==
    LET rest   == [localLists EXCEPT ![from] = RemoveAt(@, k)]
    IN  [rest EXCEPT ![to] = InsertAt(@, n, localLists[from][k])]

\* The ranks that are sent, of the items before and after index n.
Neighbours_Self(s, n) == [prev |-> At(s, n), next |-> At(s, n + 1)]

Neighbours(s, n) == [prev |-> At(s, n - 1), next |-> At(s, n + 1)]

RanksOf(ids) == {known[i].rank : i \in ids}

\* The page knows where i is, and it stays there.
Settled(i, c) ==
    placed[i] = known[i] /\ placed[i].in = c /\ \A d \in moving : d.id # i

\* The first item below an index that is shown.
ShownBelow(s, n) ==
    {i \in Dragged \ Hidden : \E j \in DOMAIN s :
        j > n /\ s[j] = i /\ \A m \in (n + 1)..(j - 1) : s[m] \in Hidden}

\* What the user sees: item i is put between the items above and below it.
ClaimOf(i, to, s, n) ==
    [id |-> i, to |-> to, above |-> At(s, n - 1), below |-> ShownBelow(s, n)]

\* It is a claim on the order to come when no hidden card comes before it (so
\* that i is the item that moves), the items around it are settled, and the
\* canvas has these in the order of their ranks.
Clear(i, id, s, n) == i = id /\ \A j \in 1..(n - 1) : s[j] \notin Hidden

InOrder(above, next, below) ==
    /\ \A x \in above, y \in next : placed[x].rank < placed[y].rank
    /\ \A y \in below : \E x \in next : placed[x].rank <= placed[y].rank

Without(i) == {c \in claims : i \notin {c.id} \cup c.above \cup c.below}

StartFetch(old) == fetches' = old (+) SetToBag({{}})

\* handleDragEnd: item i, shown at index k of a container, is dropped at
\* index n of a container.  The cards that are moved and sent are the ones
\* at these indices of the whole lists.
HandleDragEnd(i, from, k, to, n) ==
    LET canvas == Splice(from, k, to, n)
        id     == localLists[from][k]
        ids    == Neighbours(canvas[to], n)
        claim  == ClaimOf(i, to, canvas[to], n)
        next   == At(canvas[to], n + 1)
    IN  /\ moves < MaxMoves /\ moves' = moves + 1
        /\ At(FilterCards(localLists[from]), k) = {i}
        /\ <<from, k>> # <<to, n>>
        /\ localLists' = canvas
        /\ moving' = moving \cup
             {[nr |-> moves, id |-> id, to |-> to, prev |-> RanksOf(ids.prev),
               next |-> RanksOf(ids.next), back |-> boardLists, step |-> "sent"]}
        /\ claims' = (Without(i) \cap Without(id)) \cup
             {c \in {claim} :
                /\ Clear(i, id, canvas[to], n)
                /\ \A d \in moving : d.id # i
                /\ \A x \in claim.above \cup next \cup claim.below : x # i /\ Settled(x, to)
                /\ InOrder(claim.above, next, claim.below)}
        /\ UNCHANGED <<placed, boardLists, known, fetches>>

\* ListService.move and CardService.move.  A rank that cannot be computed
\* refuses the move of a list; a card gets the initial rank.
ServeMove(d) ==
    /\ d.step = "sent" /\ HasRoom(d.prev, d.next)
    /\ LET between == GetRankBetween(d.prev, d.next) IN
       \E rank \in IF between = {} /\ d.to # Root THEN {InitialRank} ELSE between :
          placed' = [placed EXCEPT ![d.id] = [in |-> d.to, rank |-> rank]]
    /\ moving' = (moving \ {d}) \cup {[d EXCEPT !.step = "served"]}
    /\ UNCHANGED <<boardLists, localLists, known, fetches, claims, moves>>

MoveAnswered(d) ==
    /\ d.step = "served"
    /\ moving' = moving \ {d}
    /\ StartFetch(fetches)
    /\ UNCHANGED <<placed, boardLists, localLists, known, claims, moves>>

\* The move was refused, or its answer was lost: the canvas goes back to
\* the board as it was when the drag ended.
MoveFailed(d) ==
    /\ moving' = moving \ {d}
    /\ localLists' = ListsOf(d.back) /\ known' = d.back
    /\ claims' = Without(d.id)
    /\ StartFetch(fetches)
    /\ UNCHANGED <<placed, boardLists, moves>>

\* Somebody else puts an item at the end of a container; the broadcast
\* makes the page load the board.
MovedByOther(i, to) ==
    /\ moves < MaxMoves /\ moves' = moves + 1
    /\ LET ranks == {placed[j].rank : j \in {x \in Dragged \ {i} : placed[x].in = to}}
           last  == {r \in ranks : \A s \in ranks : s <= r}
       IN  \E rank \in GetRankBetween(last, {}) :
             placed' = [placed EXCEPT ![i] = [in |-> to, rank |-> rank]]
    /\ claims' = Without(i)
    /\ StartFetch(fetches)
    /\ UNCHANGED <<boardLists, localLists, known, moving>>

FetchRead(f) ==
    /\ f = {}
    /\ fetches' = (fetches (-) SetToBag({f})) (+) SetToBag({{placed}})
    /\ UNCHANGED <<placed, boardLists, localLists, known, moving, claims, moves>>

\* The effect on board.lists: the canvas shows what was loaded.
FetchDone(f) ==
    /\ \E places \in f :
         boardLists' = places /\ known' = places /\ localLists' = ListsOf(places)
    /\ fetches' = fetches (-) SetToBag({f})
    /\ UNCHANGED <<placed, moving, claims, moves>>

DragNext ==
    \/ moves < MaxMoves /\ \E i \in Dragged \ Hidden :
        LET tos == IF placed[i].in = Root THEN {Root} ELSE Containers \ {Root} IN
        \/ \E from, to \in tos :
             \E k \in DOMAIN localLists[from] :
               \E n \in 1..(Len(FilterCards(localLists[to])) + IF from = to THEN 0 ELSE 1) :
                  HandleDragEnd(i, from, k, to, n)
        \/ \E to \in tos : MovedByOther(i, to)
    \/ \E d \in moving : ServeMove(d) \/ MoveAnswered(d) \/ MoveFailed(d)
    \/ \E f \in BagToSet(fetches) : FetchRead(f) \/ FetchDone(f)

-----------------------------------------------------------------------------
\* What the user put between two items ends up between them, however the
\* requests and loads of several drags overlap: as long as none of the three
\* was moved again, the neighbours were not on their way themselves, and no
\* card that the filter hides came before (the indices are off by the cards
\* that are hidden, and another card moves).
DropsAsSeen ==
    moving = {} =>
        \A c \in claims :
            /\ placed[c.id].in = c.to
            /\ \A x \in c.above : placed[x].rank < placed[c.id].rank
            /\ \A x \in c.below : placed[c.id].rank < placed[x].rank

=============================================================================
