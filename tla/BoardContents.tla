--------------------------- MODULE BoardContents ---------------------------
(***************************************************************************)
(* The requests that change a board: its order, the details of one of its  *)
(* cards, and its files, with the archiving and deleting of the card and   *)
(* the board going on meanwhile.                                           *)
(*                                                                         *)
(* Nothing the areas of a card's details do reads or writes another area,  *)
(* so a behaviour is about one of them (focus): the state space is their   *)
(* sum, not their product.                                                 *)
(***************************************************************************)
EXTENDS CardDetails, Uploads, BoardEdits

VARIABLES focus  \* what this behaviour is about

contentVars == <<requestVars, orderVars, detailVars, file, editVars>>

Areas == {"order", "time", "checklist", "comments", "worn", "field", "files", "edits"}

ContentsTypeOK ==
    /\ asked \in 0..MaxRequests /\ Cardinality(inflight) <= MaxInFlight
    /\ OrderTypeOK /\ DetailsTypeOK /\ UploadsTypeOK /\ EditsTypeOK

ContentsInit ==
    /\ inflight = {} /\ asked = 0
    /\ OrderInit /\ DetailsInit /\ UploadsInit /\ EditsInit

\* Outside its own area a behaviour only opens and closes the card and the board.
Closing ==
    \/ MayAsk /\ \E u \in DOMAIN RoleOf : StateNext(u, Card) \/ BoardArchive(u)
    \/ \E r \in inflight : WriteState(r)

ContentsNext ==
    \/ focus = "order" /\ OrderNext /\ UNCHANGED <<detailVars, file, editVars>>
    \/ focus \in Areas \ {"order"} /\ Closing /\ UNCHANGED <<detailVars, file, editVars>>
    \/ focus = "time" /\ TimeNext /\ UNCHANGED <<file, editVars>>
    \/ focus = "checklist" /\ ChecklistNext /\ UNCHANGED <<file, editVars>>
    \/ focus = "comments" /\ CommentNext /\ UNCHANGED <<file, editVars>>
    \/ focus = "worn" /\ WornNext /\ UNCHANGED <<file, editVars>>
    \/ focus = "field" /\ FieldNext /\ UNCHANGED <<file, editVars>>
    \/ focus = "files" /\ UploadsNext /\ UNCHANGED <<detailVars, editVars>>
    \/ focus = "edits" /\ EditsNext /\ UNCHANGED <<detailVars, file>>

\* Who may write what: no request on its way exceeds the role of its user,
\* and none was let in by an archived board, but through the three methods
\* of CardService that do not look at it.
WritesPermitted == RolesRespected /\ ArchivedBoardFrozen

\* Nothing that users put on a card or a board is lost to a concurrent
\* request or a failed second write: minutes, promoted items, comments,
\* field values and the columns that were edited.
ContentsKept ==
    LoggedMatches /\ PromotedIsDone /\ CommentsReach /\ FieldValueAllowed /\ EditsKept

=============================================================================
