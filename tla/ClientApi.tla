----------------------------- MODULE ClientApi -----------------------------
(***************************************************************************)
(* What the frontend asks of the server: the calls of                      *)
(* frontend/src/api/endpoints.ts, by the route they reach, and the calls   *)
(* that the handlers of a board page make (frontend/src/components).       *)
(***************************************************************************)
EXTENDS WorkspaceRoutes, FiniteSets

boardApi ==
    {"board.create", "board.list", "board.archived", "board.get", "board.update",
     "board.archive", "board.unarchive", "board.delete", "board.star", "board.unstar"}

listApi ==
    {"list.create", "list.update", "list.move", "list.archive", "list.unarchive",
     "list.archived", "list.delete"}

cardApi ==
    {"card.create", "card.get", "card.update", "card.move", "card.archive",
     "card.unarchive", "card.delete", "card.archived"}

cardPeopleApi == {"card.assign", "card.unassign", "card.label", "card.unlabel"}

cardStageApi ==
    {"card.priority", "card.status", "card.subcard", "card.attach", "card.detach",
     "card.withSubcards"}

checklistApi ==
    {"checklist.list", "checklist.create", "checklist.rename", "checklist.delete", "item.add",
     "item.update", "item.remove", "item.promote"}

labelApi ==
    {"label.list", "wlabel.list", "label.create", "wlabel.create", "label.update",
     "wlabel.update", "label.delete", "wlabel.delete", "wlabel.cards"}

commentApi ==
    {"comment.list", "comment.create", "comment.update", "comment.delete", "comment.thread"}
attachmentApi == {"attachment.list"}

documentApi ==
    {"document.create", "document.list", "document.get", "document.rename",
     "document.archive", "card.documents", "board.documents", "snapshot.list",
     "snapshot.create", "snapshot.restore"}

cardFieldApi ==
    {"field.list", "field.create", "field.update", "field.delete", "value.list", "value.set"}

cardTimeApi == {"time.get", "time.estimate", "time.log"}

boardViewApi == {"view.table", "view.calendar", "view.timeline"}

boardLabelApi == {"label.list", "label.create", "label.update", "label.delete"}

activityApi == {"activity.list", "activity.board"}

filesApi == {"file.request", "file.confirm", "file.download", "file.delete"}

\* The calls about one workspace; creating, listing and joining have no role.
workspaceApi ==
    {"workspace.get", "workspace.update", "workspace.archive", "workspace.leave",
     "workspace.transfer", "member.list", "member.role", "member.remove",
     "invitation.create", "invitation.list", "invitation.revoke"}

Calls ==
    boardApi \cup listApi \cup cardApi \cup cardPeopleApi \cup cardStageApi
        \cup checklistApi \cup labelApi \cup commentApi \cup attachmentApi
        \cup documentApi \cup cardFieldApi \cup cardTimeApi \cup boardViewApi
        \cup boardLabelApi \cup activityApi \cup filesApi \cup workspaceApi

-----------------------------------------------------------------------------
(* The calls that the components of a board page make to change something *)

BoardCanvas ==
    {"list.create", "list.update", "list.move", "list.archive", "card.create",
     "card.update", "card.move"}

BoardHeader == {"board.update", "board.star", "board.unstar"}

BoardLabelsModal == {"label.create", "label.update", "label.delete"}

ArchivedItemsModal == {"list.unarchive", "list.delete", "card.unarchive", "card.delete"}

CardModal ==
    {"card.update", "card.status", "card.priority", "card.archive", "card.delete",
     "card.detach"}

LabelPicker == {"card.label", "card.unlabel", "wlabel.create", "label.update", "label.delete"}

AssigneePicker == {"card.assign", "card.unassign"}

ChecklistSection ==
    {"checklist.create", "checklist.delete", "item.add", "item.update", "item.remove",
     "item.promote"}

CommentSection == {"comment.create", "comment.update", "comment.delete"}

SubcardCalls == {"card.subcard", "card.attach", "card.detach", "card.status"}

TimeTrackingSection == {"time.estimate", "time.log"}

CustomFieldsSection == {"value.set"}

AttachmentSection == {"file.confirm", "file.delete"}

CalendarView == {"card.create", "card.update"}

TableView == {"card.status"}

\* A card is opened over any view.
OnCard ==
    CardModal \cup LabelPicker \cup AssigneePicker \cup ChecklistSection
        \cup CommentSection \cup SubcardCalls \cup TimeTrackingSection
        \cup CustomFieldsSection \cup AttachmentSection

InView == OnCard \cup CalendarView \cup TableView

AroundBoard == (BoardHeader \ {"board.star", "board.unstar"}) \cup BoardLabelsModal
                   \cup ArchivedItemsModal

\* What a handler loads again when its call succeeds, as mode is what the
\* page shows: the cards over a view load the view as well, the header and
\* the dialogs around the board only the board, a star nothing.
Reloads(op, mode) ==
    IF mode = "board"
    THEN {r \in {{"board"}} : op \in BoardCanvas \cup OnCard \cup AroundBoard}
             \cup {r \in {{}} : op \in BoardHeader \ AroundBoard}
    ELSE {r \in {{"board", "view"}} : op \in InView}
             \cup {r \in {{"board"}} : op \in AroundBoard}
             \cup {r \in {{}} : op \in BoardHeader \ AroundBoard}

-----------------------------------------------------------------------------
(* The pages of a workspace: what they offer, and to which roles *)

MembersTab ==
    {"member.role", "member.remove"} \X AdminRoles
        \cup {"workspace.transfer"} \X OwnerRoles

InvitationsTab ==
    {"invitation.list", "invitation.create", "invitation.revoke"} \X AdminRoles

WorkspaceSettingsModal ==
    {"workspace.update"} \X AdminRoles \cup {"workspace.archive"} \X OwnerRoles
        \cup {"workspace.leave"} \X (ReadRoles \ OwnerRoles)

WorkspaceFieldDefsTab == {"field.create", "field.delete"} \X AdminRoles

\* Capturing a snapshot is offered to viewers as well, and refused.
SnapshotHistory ==
    {"snapshot.list"} \X ReadRoles \cup {"snapshot.restore"} \X AdminRoles

\* These show their buttons to every member, and the server refuses.
ArchivedBoardsModal == {"board.unarchive", "board.delete"}

WorkspaceLabelsTab == {"wlabel.create", "wlabel.update", "wlabel.delete", "wlabel.cards"}

BoardDocumentsModal == {"board.documents", "document.list", "document.create"}

LinkedDocsSection == {"card.documents", "document.create"}

Offered ==
    MembersTab \cup InvitationsTab \cup WorkspaceSettingsModal \cup WorkspaceFieldDefsTab
        \cup SnapshotHistory

OfferedToAll ==
    ArchivedBoardsModal \cup WorkspaceLabelsTab \cup BoardDocumentsModal
        \cup LinkedDocsSection

-----------------------------------------------------------------------------
\* Every call reaches a route of some controller, every handler makes calls
\* that there are, and what is offered to a role is not refused to it.
ASSUME CallsAreServed == Calls \subseteq Ops(Routes)
ASSUME HandlersCall ==
    BoardCanvas \cup BoardHeader \cup AroundBoard \cup InView \cup OfferedToAll \subseteq Calls
ASSUME OffersAreServed == Offered \subseteq Routes

=============================================================================
