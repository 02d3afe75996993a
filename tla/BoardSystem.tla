---------------------------- MODULE BoardSystem ----------------------------
(***************************************************************************)
(* A board: the requests that change it (BoardContents) and what follows a *)
(* change, on the screen and behind it - the open board page and its       *)
(* socket, the drags over its canvas, the subcards of an open card, the    *)
(* listeners of the domain events, and the count on the notification bell. *)
(*                                                                         *)
(* They share the tables of routes, calls and events and no state that     *)
(* changes, so a behaviour is about one of them (focus).                   *)
(***************************************************************************)
EXTENDS BoardContents, BoardClient, EventReactions, DragDrop, SubcardSection,
        UnreadCounter

Views == {"page", "listeners", "canvas", "subcards", "bell"}

vars == <<contentVars, clientVars, reactionVars, dragVars, subcardVars, unreadVars, focus>>

\* The parts out of focus stay as they were.
TypeOK ==
    \/ focus \in Areas /\ ContentsTypeOK
    \/ focus = "page" /\ ClientTypeOK
    \/ focus = "listeners" /\ ReactionsTypeOK
    \/ focus = "canvas" /\ DragTypeOK
    \/ focus = "subcards" /\ SubcardsTypeOK
    \/ focus = "bell" /\ UnreadTypeOK

Init ==
    /\ focus \in Areas \cup Views
    /\ ContentsInit /\ ClientInit /\ ReactionsInit
    /\ DragInit /\ SubcardsInit /\ UnreadInit

Next ==
    /\ UNCHANGED focus
    /\ \/ ContentsNext
            /\ UNCHANGED <<clientVars, reactionVars, dragVars, subcardVars, unreadVars>>
       \/ focus = "page" /\ ClientNext
            /\ UNCHANGED <<contentVars, reactionVars, dragVars, subcardVars, unreadVars>>
       \/ focus = "listeners" /\ ReactionsNext
            /\ UNCHANGED <<contentVars, clientVars, dragVars, subcardVars, unreadVars>>
       \/ focus = "canvas" /\ DragNext
            /\ UNCHANGED <<contentVars, clientVars, reactionVars, subcardVars, unreadVars>>
       \/ focus = "subcards" /\ SubcardsNext
            /\ UNCHANGED <<contentVars, clientVars, reactionVars, dragVars, unreadVars>>
       \/ focus = "bell" /\ UnreadNext
            /\ UNCHANGED <<contentVars, clientVars, reactionVars, dragVars, subcardVars>>

Spec == Init /\ [][Next]_vars

\* The screen at rest shows what is stored: the board page after broadcasts,
\* answers and loads, the subcards after optimistic changes and their
\* rollbacks, and a dragged item between the items it was put between.
ScreensRight == ScreenFresh /\ SubcardsShown /\ DropsAsSeen

=============================================================================
