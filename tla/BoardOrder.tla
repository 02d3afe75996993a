----------------------------- MODULE BoardOrder -----------------------------
(***************************************************************************)
(* One board, its lists and their cards: where they are, in which order,   *)
(* and whether they are archived or deleted.  BoardService, ListService    *)
(* and CardService over their repositories, LexorankService, and the       *)
(* queries that show a board, its views and its archive.                   *)
(*                                                                         *)
(* A service reads the rows it checks, then writes one row by its id: the  *)
(* write repeats none of the checks.  Nothing makes the ranks of a         *)
(* container unique.                                                       *)
(***************************************************************************)
EXTENDS BoardAccess, Lexorank

CONSTANTS
    Board,       \* the board
    Lists,       \* list ids, used or not
    Cards,       \* card ids, used or not
    FirstRows,   \* the rows there are at the start
    PageSize     \* listPageSize and cardPageSize of a board load (50)

ASSUME DisjointIds == Board \notin Lists /\ Board \notin Cards /\ Lists \cap Cards = {}
ASSUME PageSizeIsPositive == PageSize \in Nat \ {0}

VARIABLES
    row,         \* the rows of the boards, lists and cards tables
    loose        \* history variable: rows whose rank nobody chose against their neighbours

orderVars == <<row, loose>>

Row == [in : Lists \cup {Board}, rank : Int, archived : BOOLEAN, deleted : BOOLEAN]

\* A board in order: no two items of a container have the same rank.
ASSUME FirstRowsInOrder ==
    /\ IsFiniteSet(DOMAIN FirstRows) /\ \A i \in DOMAIN FirstRows : FirstRows[i] \in Row
    /\ \A i, j \in DOMAIN FirstRows \ {Board} :
           i # j /\ FirstRows[i].in = FirstRows[j].in => FirstRows[i].rank # FirstRows[j].rank

OrderTypeOK ==
    /\ DOMAIN row \subseteq Lists \cup Cards \cup {Board}
    /\ \A i \in DOMAIN row : row[i] \in Row /\ (row[i].in = Board <=> i \notin Cards)
    /\ loose \subseteq DOMAIN row

OrderInit == row = FirstRows /\ loose = {}

-----------------------------------------------------------------------------
(* What the repositories find *)

\* findById and findActiveById.
Live(i) == i \in DOMAIN row /\ ~row[i].archived /\ ~row[i].deleted

\* The live rows of a container.
In(c) == {i \in DOMAIN row \ {Board} : row[i].in = c /\ Live(i)}

Ranks(c) == {<<i, row[i].rank>> : i \in In(c)}

\* findLastInBoard, findLastInList, and the rank after it.
EndRank_First(c) ==
    GetRankBetween(IF In(c) = {} THEN {} ELSE {Min({row[i].rank : i \in In(c)})}, {})

EndRank(c) ==
    GetRankBetween(IF In(c) = {} THEN {} ELSE {Max({row[i].rank : i \in In(c)})}, {})

\* findByIdWithContent: the first page of a container, by rank.
Page(c) ==
    {i \in In(c) : Cardinality({j \in In(c) : row[j].rank < row[i].rank}) < PageSize}

\* The calendar, timeline and table views: the cards that are live, whatever
\* their list is.
ViewContent == IF Live(Board) THEN {c \in Cards : Live(c)} ELSE {}

-----------------------------------------------------------------------------
(* create and createSubcard append a row; move puts one between two others *)

AskAppend(u, op, c) ==
    /\ \E rank \in EndRank(c) :
           Admit(u, op, [id |-> Board, to |-> c, rank |-> rank, seen |-> Ranks(c),
                         above |-> In(c), below |-> {}, blind |-> FALSE,
                         open |-> Live(Board)])
    /\ UNCHANGED orderVars

ListCreate(u) == Live(Board) /\ AskAppend(u, "list.create", Board)

\* CardService.create looks at the list, not at the board.
CardCreate(u, l) == Live(l) /\ AskAppend(u, "card.create", l)

\* A subcard goes to the end of its parent's list.
CreateSubcard(u, p) ==
    Live(Board) /\ Live(p) /\ AskAppend(u, "card.subcard", row[p].in)

\* A user drops row i on the page of c, below the rows above it; rows that
\* tie are shown in any order.  fallback stands in for a rank that cannot
\* be computed.
AskPlace(u, op, i, c, fallback) ==
    /\ LET page == Page(c) \ {i}
           RanksOf(S) == {row[j].rank : j \in S}
       IN  \E above \in SUBSET page :
             LET below   == page \ above
                 prev    == IF above = {} THEN {} ELSE {Max(RanksOf(above))}
                 next    == IF below = {} THEN {} ELSE {Min(RanksOf(below))}
                 between == GetRankBetween(prev, next)
             IN  /\ \A j \in above, k \in below : row[j].rank <= row[k].rank
                 /\ HasRoom(prev, next)
                 /\ \E rank \in IF between = {} THEN fallback ELSE between :
                      Admit(u, op,
                        [id |-> i, to |-> c, rank |-> rank,
                         seen |-> {e \in Ranks(c) : e[1] # i},
                         above |-> above, below |-> below,
                         blind |-> between = {} \/ (below = {} /\ Page(c) # In(c)),
                         open |-> Live(Board)])
    /\ UNCHANGED orderVars

ListMove(u, l) == Live(Board) /\ Live(l) /\ AskPlace(u, "list.move", l, Board, {})

CardMove(u, c, l) ==
    Live(Board) /\ Live(c) /\ Live(l) /\ AskPlace(u, "card.move", c, l, {InitialRank})

\* The container is as the request saw it.
Steady(r) == {e \in Ranks(r.data.to) : e[1] # r.data.id} = r.data.seen

Placed(r, i) ==
    loose' = IF Steady(r) /\ ~r.data.blind THEN loose \ {i} ELSE loose \cup {i}

Insert(r, ids) ==
    /\ ids \ DOMAIN row # {}
    /\ LET i == CHOOSE x \in ids \ DOMAIN row : TRUE IN
       /\ row' = [x \in DOMAIN row \cup {i} |->
                    IF x \in DOMAIN row THEN row[x]
                    ELSE [in |-> r.data.to, rank |-> r.data.rank,
                          archived |-> FALSE, deleted |-> FALSE]]
       /\ Placed(r, i)
    /\ Finish(r)

InsertList(r) == r.op = "list.create" /\ Insert(r, Lists)
InsertCard(r) == r.op \in {"card.create", "card.subcard"} /\ Insert(r, Cards)

\* The rank of the list, or the list and the rank of the card.
MoveRow(r) ==
    /\ r.op \in {"list.move", "card.move"}
    /\ row' = [row EXCEPT ![r.data.id].in = r.data.to, ![r.data.id].rank = r.data.rank]
    /\ Placed(r, r.data.id)
    /\ Finish(r)

-----------------------------------------------------------------------------
(* archive, unarchive and deletePermanently of a board, a list or a card *)

AskState(u, op, i) ==
    /\ Admit(u, op, [id |-> i, open |-> Live(Board)])
    /\ UNCHANGED orderVars

BoardArchive(u) == Live(Board) /\ AskState(u, "board.archive", Board)

ListArchive(u, l) == Live(Board) /\ Live(l) /\ AskState(u, "list.archive", l)

CardArchive_AnyBoard(u, c) == Live(c) /\ AskState(u, "card.archive", c)

CardArchive(u, c) == Live(Board) /\ Live(c) /\ AskState(u, "card.archive", c)

\* findByIdIncludingArchived finds deleted rows as well.
BoardUnarchive(u) == AskState(u, "board.unarchive", Board)

ListUnarchive(u, l) == Live(Board) /\ AskState(u, "list.unarchive", l)

CardUnarchive(u, c) == Live(Board) /\ AskState(u, "card.unarchive", c)

BoardDelete(u) == ~row[Board].deleted /\ AskState(u, "board.delete", Board)

ListDelete(u, l) == Live(Board) /\ ~row[l].deleted /\ AskState(u, "list.delete", l)

CardDelete(u, c) == Live(Board) /\ ~row[c].deleted /\ AskState(u, "card.delete", c)

WriteArchive(r) ==
    /\ r.op \in {"board.archive", "list.archive", "card.archive"}
    /\ row' = [row EXCEPT ![r.data.id].archived = TRUE]
    /\ Finish(r)
    /\ UNCHANGED loose

\* The rank of a restored row is the one it had.
WriteUnarchive(r) ==
    /\ r.op \in {"board.unarchive", "list.unarchive", "card.unarchive"}
    /\ row' = [row EXCEPT ![r.data.id].archived = FALSE]
    /\ loose' = IF row[r.data.id].archived THEN loose \cup {r.data.id} ELSE loose
    /\ Finish(r)

WriteDelete(r) ==
    /\ r.op \in {"board.delete", "list.delete", "card.delete"}
    /\ row' = [row EXCEPT ![r.data.id].deleted = TRUE]
    /\ Finish(r)
    /\ UNCHANGED loose

StateNext(u, c) == CardArchive(u, c) \/ CardUnarchive(u, c) \/ CardDelete(u, c)

WriteState(r) == WriteArchive(r) \/ WriteUnarchive(r) \/ WriteDelete(r)

OrderNext ==
    \/ MayAsk /\ \E u \in DOMAIN RoleOf :
        \/ ListCreate(u) \/ BoardArchive(u) \/ BoardUnarchive(u) \/ BoardDelete(u)
        \/ \E l \in Lists \cap DOMAIN row :
            \/ CardCreate(u, l) \/ ListMove(u, l)
            \/ ListArchive(u, l) \/ ListUnarchive(u, l) \/ ListDelete(u, l)
        \/ \E c \in Cards \cap DOMAIN row :
            \/ CreateSubcard(u, c) \/ StateNext(u, c)
            \/ \E l \in Lists \cap DOMAIN row : CardMove(u, c, l)
    \/ \E r \in inflight : InsertList(r) \/ InsertCard(r) \/ MoveRow(r) \/ WriteState(r)

-----------------------------------------------------------------------------
\* Two live rows of a container have the same rank only if one of them was
\* restored from the archive, or was placed while another request changed
\* the container, between two rows that tied already, or at the end of a
\* page that is not the whole container.  Otherwise LexorankService keeps
\* the order strict, although no constraint of the schema does.
TiesExplained ==
    \A i, j \in (Lists \cup Cards) \cap DOMAIN row :
        Live(i) /\ Live(j) /\ i # j /\ row[i].in = row[j].in /\ row[i].rank = row[j].rank
            => {i, j} \cap loose # {}

\* A row lands where it was dropped, and a new one at the end: after the
\* rows it was put below and before the rows it was put above, unless the
\* container changed meanwhile or these rows tied.
DropsLand ==
    [][\A r \in inflight \ inflight' :
         (/\ r.op \in {"list.move", "card.move", "list.create", "card.create", "card.subcard"}
          /\ Steady(r)
          /\ \A i, j \in r.data.above \cup r.data.below : i # j => row[i].rank # row[j].rank)
         => /\ \A i \in r.data.above : row[i].rank < r.data.rank
            /\ \A i \in r.data.below : r.data.rank < row[i].rank]_<<inflight, orderVars>>

\* Archiving or deleting a board freezes it: a request that comes later
\* changes nothing on it, except through CardService.create, addLabel and
\* addAssignee, which never look at the board.  Labels and the definitions
\* of custom fields belong to the workspace.
ArchivedBoardFrozen ==
    \A r \in inflight :
        "open" \in DOMAIN r.data /\ ~r.data.open
            => \/ r.data.id = Board /\ r.op \in {"board.archive", "board.unarchive", "board.delete"}
               \/ r.op \in {"card.create", "card.label", "card.assign"}
               \/ r.op \in Ops(WorkspaceLabelRoutes \cup FieldDefRoutes)

=============================================================================
