----------------------------- MODULE BoardEdits -----------------------------
(***************************************************************************)
(* The columns of a board, a list and a card that requests edit in place:  *)
(* update of BoardService, ListService and CardService, updatePriority and *)
(* updateStatus of CardService, setEstimate of CardTimeService, and the    *)
(* stars of a board.  An update names the columns it sets and writes only  *)
(* these, later and by id; nothing compares the row with the one it read.  *)
(***************************************************************************)
EXTENDS BoardOrder

CONSTANTS
    EditedList, EditedCard  \* the list and the card

ASSUME EditedRows == EditedList \in Lists /\ EditedCard \in Cards

VARIABLES
    attr,    \* the columns
    wanted,  \* history variable: the columns if each update were one step
    raced,   \* history variable: a completion was toggled over another status
    stars    \* the users who starred the board

editVars == <<attr, wanted, raced, stars>>

Statuses == {"not_started", "active", "done", "closed"}
Values   == 0..2   \* bound: a title, a priority or an estimate

Columns == [board_title : Values, list_title : Values, title : Values,
            priority : Values, estimate : Values, status : Statuses]

EditsTypeOK ==
    /\ {attr, wanted} \subseteq Columns
    /\ raced \in BOOLEAN /\ stars \subseteq DOMAIN RoleOf

EditsInit ==
    /\ attr = [board_title |-> 0, list_title |-> 0, title |-> 0, priority |-> 0,
               estimate |-> 0, status |-> "not_started"]
    /\ wanted = attr /\ raced = FALSE /\ stars = {}

-----------------------------------------------------------------------------
EditedOpen == Live(Board) /\ Live(EditedCard)

\* set is what the request names; complete is {} or its isComplete.
AskEdit(u, op, set, complete) ==
    /\ Admit(u, op, [id |-> EditedCard, open |-> Live(Board), set |-> set,
                     complete |-> complete, read |-> attr.status])
    /\ UNCHANGED <<orderVars, editVars>>

BoardUpdate(u, v) == Live(Board) /\ AskEdit(u, "board.update", [board_title |-> v], {})

ListUpdate(u, v) ==
    Live(Board) /\ Live(EditedList) /\ AskEdit(u, "list.update", [list_title |-> v], {})

CardUpdate(u, set, complete) == EditedOpen /\ AskEdit(u, "card.update", set, complete)

\* A request for the priority or the status the card has changes nothing.
UpdatePriority(u, v) ==
    /\ EditedOpen /\ v # attr.priority
    /\ AskEdit(u, "card.priority", [priority |-> v], {})

UpdateStatus(u, s) ==
    /\ EditedOpen /\ s # attr.status
    /\ AskEdit(u, "card.status", [status |-> s], {})

SetEstimate(u, v) == EditedOpen /\ AskEdit(u, "time.estimate", [estimate |-> v], {})

\* What update makes of isComplete, given the status it read.
StatusOf(complete, status) ==
    IF complete THEN IF status # "closed" THEN "done" ELSE status
                ELSE IF status # "not_started" THEN "active" ELSE status

Writes(r, status) ==
    Merged(r.data.set, [c \in {"status" : x \in r.data.complete} |->
                           StatusOf(TRUE \in r.data.complete, status)])

IsEdit(r) == "set" \in DOMAIN r.data

WriteColumns_StatusToo(r) ==
    /\ IsEdit(r)
    /\ attr' = Merged(Writes(r, r.data.read), [attr EXCEPT !.status = r.data.read])
    /\ wanted' = Merged(Writes(r, wanted.status), wanted)
    /\ raced' = (raced \/ (r.data.complete # {} /\ r.data.read # attr.status))
    /\ UNCHANGED <<orderVars, stars>>
    /\ Finish(r)

WriteColumns(r) ==
    /\ IsEdit(r)
    /\ attr' = Merged(Writes(r, r.data.read), attr)
    /\ wanted' = Merged(Writes(r, wanted.status), wanted)
    /\ raced' = (raced \/ (r.data.complete # {} /\ r.data.read # attr.status))
    /\ UNCHANGED <<orderVars, stars>>
    /\ Finish(r)

\* starBoard and unstarBoard check the board; an upsert and a deleteMany.
StarBoard(u) ==
    /\ Live(Board) /\ Admit(u, "board.star", [id |-> Board, open |-> TRUE])
    /\ UNCHANGED <<orderVars, editVars>>

UnstarBoard(u) ==
    /\ Live(Board) /\ Admit(u, "board.unstar", [id |-> Board, open |-> TRUE])
    /\ UNCHANGED <<orderVars, editVars>>

WriteStar(r) ==
    /\ \/ r.op = "board.star" /\ stars' = stars \cup {r.user}
       \/ r.op = "board.unstar" /\ stars' = stars \ {r.user}
    /\ Finish(r)
    /\ UNCHANGED <<orderVars, attr, wanted, raced>>

EditsNext ==
    \/ MayAsk /\ \E u \in DOMAIN RoleOf :
        \/ StarBoard(u) \/ UnstarBoard(u)
        \/ \E v \in Values :
            \/ BoardUpdate(u, v) \/ ListUpdate(u, v) \/ UpdatePriority(u, v) \/ SetEstimate(u, v)
            \/ CardUpdate(u, [title |-> v, priority |-> v], {})
        \/ \E s \in Statuses : UpdateStatus(u, s) \/ CardUpdate(u, [status |-> s], {TRUE})
        \/ \E complete \in BOOLEAN : CardUpdate(u, <<>>, {complete})
    \/ \E r \in inflight : WriteColumns(r) \/ WriteStar(r)

-----------------------------------------------------------------------------
\* No edit is lost to an edit of another column: every column holds what the
\* last request that set it asked for, although each request checked an
\* older row.  The exception is the status of a card: setting isComplete
\* rewrites it from the status read before, and undoes a change made since.
EditsKept ==
    \A c \in DOMAIN attr : attr[c] = wanted[c] \/ (c = "status" /\ raced)

=============================================================================
