-------------------------- MODULE WorkspaceRoutes --------------------------
(***************************************************************************)
(* Who may ask what of a workspace: the route tables of the controllers    *)
(* under src/modules/board, document, file, activity and workspace, as the *)
(* roles that their RbacGuard decorators list: pairs of a route and a role *)
(* that its decorator names.                                               *)
(***************************************************************************)
EXTENDS Integers

ROLE_WEIGHTS == [owner |-> 4, admin |-> 3, member |-> 2, viewer |-> 1]

OwnerRoles == {"owner"}
AdminRoles == OwnerRoles \cup {"admin"}
WriteRoles == AdminRoles \cup {"member"}
ReadRoles  == WriteRoles \cup {"viewer"}

BoardRoutes ==
    {"board.create", "board.archived"} \X WriteRoles
        \cup {"board.list"} \X ReadRoles

BoardStateRoutes ==
    {"board.get"} \X ReadRoles \cup {"board.update"} \X WriteRoles
        \cup {"board.archive"} \X AdminRoles

BoardRestoreRoutes ==
    {"board.unarchive"} \X WriteRoles \cup {"board.delete"} \X AdminRoles
        \cup {"board.star", "board.unstar"} \X ReadRoles

ListRoutes == {"list.create", "list.update"} \X WriteRoles

ListPlaceRoutes == {"list.move", "list.archive"} \X WriteRoles

ListRestoreRoutes ==
    {"list.unarchive", "list.archived"} \X WriteRoles
        \cup {"list.delete"} \X AdminRoles

CardRoutes ==
    {"card.create", "card.archived"} \X WriteRoles
        \cup {"card.get"} \X ReadRoles

CardUpdateRoutes ==
    {"card.update", "card.priority", "card.status"} \X WriteRoles

SubcardRoutes ==
    {"card.subcard", "card.attach"} \X WriteRoles
        \cup {"card.withSubcards"} \X ReadRoles

CardPlaceRoutes ==
    {"card.detach", "card.move", "card.archive"} \X WriteRoles

CardRestoreRoutes ==
    {"card.unarchive"} \X WriteRoles \cup {"card.delete"} \X AdminRoles

AssigneeRoutes == {"card.assign", "card.unassign"} \X WriteRoles

CardLabelRoutes == {"card.label", "card.unlabel"} \X WriteRoles

TimeRoutes ==
    {"time.estimate", "time.log"} \X WriteRoles \cup {"time.get"} \X ReadRoles

\* Reading the checklists of a card takes a writing role, unlike other reads.
ChecklistRoutes ==
    {"checklist.create", "checklist.list", "checklist.rename"} \X WriteRoles

ItemRoutes ==
    {"checklist.delete", "item.add", "item.update", "item.remove",
           "item.promote"} \X WriteRoles

CommentRoutes ==
    {"comment.create"} \X WriteRoles \cup {"comment.list"} \X ReadRoles

CommentChangeRoutes ==
    {"comment.update", "comment.delete"} \X WriteRoles
        \cup {"comment.thread"} \X ReadRoles

LabelRoutes ==
    {"label.create", "label.update", "label.delete"} \X WriteRoles
        \cup {"label.list"} \X ReadRoles

WorkspaceLabelRoutes ==
    {"wlabel.create", "wlabel.update", "wlabel.delete"} \X WriteRoles
        \cup {"wlabel.list", "wlabel.cards"} \X ReadRoles

FieldDefRoutes ==
    {"field.create", "field.update", "field.delete"} \X AdminRoles
        \cup {"field.list"} \X ReadRoles

FieldValueRoutes ==
    {"value.set"} \X WriteRoles \cup {"value.list"} \X ReadRoles

ViewRoutes == {"view.calendar", "view.timeline", "view.table"} \X ReadRoles

FileRoutes ==
    {"file.request", "file.confirm", "file.delete"} \X WriteRoles
        \cup {"file.download"} \X ReadRoles

AttachmentRoutes == {"attachment.list"} \X ReadRoles

DocumentRoutes ==
    {"document.create", "document.rename", "document.archive"} \X WriteRoles
        \cup {"document.list", "document.get"} \X ReadRoles

SnapshotRoutes ==
    {"snapshot.create"} \X WriteRoles \cup {"snapshot.list"} \X ReadRoles
        \cup {"snapshot.restore"} \X AdminRoles

LinkedDocumentRoutes == {"board.documents", "card.documents"} \X ReadRoles

ActivityRoutes == {"activity.list", "activity.board"} \X ReadRoles

WorkspaceRoutesOf ==
    {"workspace.get", "workspace.leave"} \X ReadRoles
        \cup {"workspace.update"} \X AdminRoles
        \cup {"workspace.archive", "workspace.transfer"} \X OwnerRoles

MemberRoutes ==
    {"member.list"} \X ReadRoles \cup {"member.role", "member.remove"} \X AdminRoles

InvitationRoutes ==
    {"invitation.create", "invitation.list", "invitation.revoke"} \X AdminRoles

Routes ==
    BoardRoutes \cup BoardStateRoutes \cup BoardRestoreRoutes
        \cup ListRoutes \cup ListPlaceRoutes \cup ListRestoreRoutes
        \cup CardRoutes \cup CardUpdateRoutes \cup SubcardRoutes \cup CardPlaceRoutes
        \cup CardRestoreRoutes \cup AssigneeRoutes \cup CardLabelRoutes
        \cup TimeRoutes \cup ChecklistRoutes \cup ItemRoutes
        \cup CommentRoutes \cup CommentChangeRoutes
        \cup LabelRoutes \cup WorkspaceLabelRoutes
        \cup FieldDefRoutes \cup FieldValueRoutes \cup ViewRoutes
        \cup FileRoutes \cup AttachmentRoutes
        \cup DocumentRoutes \cup SnapshotRoutes \cup LinkedDocumentRoutes
        \cup ActivityRoutes \cup WorkspaceRoutesOf \cup MemberRoutes \cup InvitationRoutes

\* The routes of a table.
Ops(table) == {entry[1] : entry \in table}

=============================================================================
