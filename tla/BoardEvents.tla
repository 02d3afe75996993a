----------------------------- MODULE BoardEvents -----------------------------
(***************************************************************************)
(* What follows a change of a board: the domain events that the services   *)
(* emit after their write, the broadcasts that BroadcastRelayService makes *)
(* of them for the board's room, the ones among these that a board page    *)
(* listens to, and the rows that the activity listeners make of them.      *)
(***************************************************************************)
EXTENDS ClientApi, TLC

-----------------------------------------------------------------------------
(* The events of each request: pairs of request and event *)

BoardEmits ==
    {<<"board.update", "board.updated">>, <<"board.archive", "board.archived">>,
     <<"board.unarchive", "board.unarchived">>, <<"board.delete", "board.deleted">>}

ListEmits ==
    {<<"list.create", "list.created">>, <<"list.update", "list.updated">>,
     <<"list.move", "list.moved">>, <<"list.archive", "list.archived">>,
     <<"list.unarchive", "list.unarchived">>, <<"list.delete", "list.deleted">>}

CardEmits ==
    {<<"card.create", "card.created">>, <<"card.update", "card.updated">>,
     <<"card.move", "card.moved">>, <<"card.archive", "card.archived">>,
     <<"card.unarchive", "card.unarchived">>, <<"card.delete", "card.deleted">>,
     <<"card.priority", "card.priority_changed">>,
     <<"card.status", "card.status_changed">>}

\* Attaching a card emits what creating a subcard does; detaching one, an update.
SubcardEmits ==
    {<<"card.subcard", "card.subcard_created">>, <<"card.attach", "card.subcard_created">>,
     <<"card.detach", "card.updated">>}

AssigneeEmits ==
    {<<"card.assign", "card.assignee_added">>, <<"card.unassign", "card.assignee_removed">>}

ChecklistEmits ==
    {<<"checklist.create", "checklist.created">>, <<"checklist.delete", "checklist.deleted">>,
     <<"item.promote", "card.subcard_created">>, <<"item.promote", "checklist.updated">>}
        \cup {"checklist.rename", "item.add", "item.update", "item.remove"}
                \X {"checklist.updated"}

CommentEmits ==
    {<<"comment.create", "comment.created">>, <<"comment.update", "comment.updated">>,
     <<"comment.delete", "comment.deleted">>}

TimeEmits == {<<"time.estimate", "card.updated">>, <<"time.log", "card.time_logged">>}

\* Labels, custom fields, files and stars: nothing is emitted, although
\* events for attachments are declared and relayed.
NothingEmitted ==
    {"card.label", "card.unlabel", "label.create", "label.update", "label.delete",
     "wlabel.create", "wlabel.update", "wlabel.delete", "field.create",
     "field.update", "field.delete", "value.set", "file.confirm", "file.delete",
     "board.star", "board.unstar"}

Emits ==
    BoardEmits \cup ListEmits \cup CardEmits \cup SubcardEmits \cup AssigneeEmits
        \cup ChecklistEmits \cup CommentEmits \cup TimeEmits

\* The requests that change a board.
Changes == Ops(Emits) \cup NothingEmitted

-----------------------------------------------------------------------------
(* What the relay sends to the room of the board: pairs of event and broadcast *)

BoardRelay ==
    {<<"board.updated", "board:updated">>, <<"board.archived", "board:archived">>,
     <<"board.unarchived", "board:unarchived">>, <<"board.deleted", "board:deleted">>}

ListRelay_NoMove ==
    {<<"list.created", "list:created">>, <<"list.updated", "list:updated">>,
     <<"list.archived", "list:archived">>,
     <<"list.unarchived", "list:unarchived">>, <<"list.deleted", "list:deleted">>}

ListRelay ==
    {<<"list.created", "list:created">>, <<"list.updated", "list:updated">>,
     <<"list.moved", "list:moved">>, <<"list.archived", "list:archived">>,
     <<"list.unarchived", "list:unarchived">>, <<"list.deleted", "list:deleted">>}

CardRelay ==
    {<<"card.created", "card:created">>, <<"card.updated", "card:updated">>,
     <<"card.moved", "card:moved">>, <<"card.archived", "card:archived">>,
     <<"card.unarchived", "card:unarchived">>, <<"card.deleted", "card:deleted">>}

CommentRelay ==
    {<<"comment.created", "card:comment-added">>, <<"comment.updated", "card:comment-updated">>,
     <<"comment.deleted", "card:comment-deleted">>}

AssigneeRelay ==
    {<<"card.assignee_added", "card:assignee-added">>,
     <<"card.assignee_removed", "card:assignee-removed">>}

ChecklistRelay ==
    {<<"checklist.created", "checklist:created">>, <<"checklist.updated", "checklist:updated">>,
     <<"checklist.deleted", "checklist:deleted">>}

StageRelay ==
    {<<"card.priority_changed", "card:priority_changed">>,
     <<"card.status_changed", "card:status_changed">>,
     <<"card.subcard_created", "card:created">>,
     <<"card.subcard_created", "card:subcard_created">>,
     <<"card.time_logged", "card:time_logged">>}

Relay ==
    BoardRelay \cup ListRelay \cup CardRelay \cup CommentRelay \cup AssigneeRelay
        \cup ChecklistRelay \cup StageRelay

\* The broadcasts for which BoardPage has a handler, among those that are sent.
EntityEvents ==
    {"board:updated", "board:archived", "board:unarchived", "board:deleted",
     "list:created", "list:updated", "list:moved", "list:archived", "list:unarchived",
     "list:deleted", "card:created", "card:updated", "card:moved", "card:archived",
     "card:unarchived", "card:deleted", "card:comment-added", "card:comment-updated",
     "card:comment-deleted", "card:assignee-added", "card:assignee-removed",
     "checklist:created", "checklist:updated", "checklist:deleted",
     "card:priority_changed", "card:status_changed", "card:subcard_created",
     "card:time_logged"}

\* The broadcasts of a request that the handlers of a page get.
Notes(op) ==
    {x[2] : x \in {y \in Relay : <<op, y[1]>> \in Emits}} \cap EntityEvents

\* Only the broadcast of a card update carries a cardId and an updatedAt.
Stamped(note) == note = "card:updated"

-----------------------------------------------------------------------------
(* The row of the activity feed for each event: entity and action *)

CardActivity ==
    "card.created" :> <<"card", "created">> @@ "card.moved" :> <<"card", "moved">>
        @@ "card.updated" :> <<"card", "updated">> @@ "card.archived" :> <<"card", "archived">>
        @@ "card.unarchived" :> <<"card", "unarchived">>
        @@ "card.deleted" :> <<"card", "deleted">>

\* A card that is attached is recorded as created.
CardStageActivity ==
    "card.assignee_added" :> <<"assignee", "created">>
        @@ "card.assignee_removed" :> <<"assignee", "deleted">>
        @@ "card.priority_changed" :> <<"card", "priority_changed">>
        @@ "card.status_changed" :> <<"card", "status_changed">>
        @@ "card.subcard_created" :> <<"card", "created">>
        @@ "card.time_logged" :> <<"card", "time_logged">>

ListActivity ==
    "list.created" :> <<"list", "created">> @@ "list.updated" :> <<"list", "updated">>
        @@ "list.moved" :> <<"list", "moved">> @@ "list.archived" :> <<"list", "archived">>
        @@ "list.unarchived" :> <<"list", "unarchived">>
        @@ "list.deleted" :> <<"list", "deleted">>

BoardActivity ==
    "board.created" :> <<"board", "created">> @@ "board.updated" :> <<"board", "updated">>
        @@ "board.archived" :> <<"board", "archived">>
        @@ "board.unarchived" :> <<"board", "unarchived">>
        @@ "board.deleted" :> <<"board", "deleted">>

CommentActivity ==
    "comment.created" :> <<"comment", "created">> @@ "comment.updated" :> <<"comment", "updated">>
        @@ "comment.deleted" :> <<"comment", "deleted">>

DocumentActivity ==
    "document.created" :> <<"document", "created">>
        @@ "document.renamed" :> <<"document", "updated">>
        @@ "document.archived" :> <<"document", "archived">>

\* Checklists have no row.
Activity ==
    CardActivity @@ CardStageActivity @@ ListActivity @@ BoardActivity
        @@ CommentActivity @@ DocumentActivity

=============================================================================
