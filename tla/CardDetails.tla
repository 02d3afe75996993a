---------------------------- MODULE CardDetails ----------------------------
(***************************************************************************)
(* What hangs on one card: logged time (CardTimeService), checklists       *)
(* (ChecklistService), comments (CommentService), labels and assignees     *)
(* (LabelService, CardService) and a custom field (CardFieldService), over *)
(* their repositories.  Each handler checks the board and the card (or     *)
(* not) when it starts and writes later by id.                             *)
(***************************************************************************)
EXTENDS BoardOrder, Sequences

CONSTANTS
    Card,        \* the card
    Checklists, Items, Labels, \* ids, used or not
    Options,     \* possible options of the custom field
    MaxComments  \* bound: comments on the card

ASSUME CardIsACard == Card \in Cards
ASSUME MaxCommentsIsNat == MaxComments \in Nat

VARIABLES
    time,        \* minutes entered, logged on the card; totals announced, or missed
    checklist,   \* the checklists of the card and their items
    comment,     \* the comments of the card, oldest first
    worn,        \* labels there are, labels of the card, its assignees
    field        \* definition of a custom field, and the card's value of it

detailVars == <<time, checklist, comment, worn, field>>

None == "none"   \* no value, or no parent

Item == [in : Checklists, done : BOOLEAN, subcards : Nat, excused : BOOLEAN]

DetailsTypeOK ==
    /\ time \in [entered : Nat, logged : Nat, announced : SUBSET Nat, missed : BOOLEAN]
    /\ checklist.lists \subseteq Checklists
    /\ \A i \in DOMAIN checklist.items :
           i \in Items /\ checklist.items[i] \in Item
               /\ checklist.items[i].in \in checklist.lists
    /\ \A k \in DOMAIN comment :
           comment[k] \in [author : DOMAIN RoleOf, parent : 0..(k-1), deleted : BOOLEAN]
    /\ worn \in [labels : SUBSET Labels, card : SUBSET Labels, assigned : SUBSET DOMAIN RoleOf]
    /\ field \in [exists : BOOLEAN, options : SUBSET Options,
                  value : Options \cup {None}, stale : BOOLEAN]

First(ids) == CHOOSE i \in ids : TRUE

\* A card in use: a checklist with an item, a label, a field with a value.
DetailsInit ==
    /\ time = [entered |-> 0, logged |-> 0, announced |-> {0}, missed |-> FALSE]
    /\ checklist = [lists |-> {First(Checklists)},
                    items |-> [i \in {First(Items)} |->
                                 [in |-> First(Checklists), done |-> FALSE,
                                  subcards |-> 0, excused |-> FALSE]]]
    /\ comment = <<>>
    /\ worn = [labels |-> {First(Labels)}, card |-> {First(Labels)}, assigned |-> {}]
    /\ field = [exists |-> TRUE, options |-> {First(Options)}, value |-> First(Options),
                stale |-> FALSE]

-----------------------------------------------------------------------------
\* assertBoardInWorkspace and assertCardInBoard, one or both.
BoardOpen == Live(Board)
CardOpen  == Live(Board) /\ Live(Card)

\* A request that reads nothing else; id is the card.
Ask(u, op, data) ==
    /\ Admit(u, op, Merged(data, [id |-> Card, open |-> BoardOpen]))
    /\ UNCHANGED <<orderVars, detailVars>>

Drop(r) == Finish(r) /\ UNCHANGED <<orderVars, detailVars>>

-----------------------------------------------------------------------------
(* CardTimeService.logTime: addEntry is a transaction; then the card is read again *)

AskLog(u, minutes) ==
    CardOpen /\ Ask(u, "time.log", [minutes |-> minutes, before |-> time.logged])

AddEntry_ReadModifyWrite(r) ==
    /\ r.op = "time.log"
    /\ time' = [time EXCEPT !.entered = @ + r.data.minutes,
                            !.logged = r.data.before + r.data.minutes]
    /\ Continue(r, "time.reread")
    /\ UNCHANGED <<orderVars, checklist, comment, worn, field>>

AddEntry(r) ==
    /\ r.op = "time.log"
    /\ time' = [time EXCEPT !.entered = @ + r.data.minutes, !.logged = @ + r.data.minutes]
    /\ Continue(r, "time.reread")
    /\ UNCHANGED <<orderVars, checklist, comment, worn, field>>

\* The total as of the request's first read, which misses what others logged.
Reread_FirstRead(r) ==
    /\ r.op = "time.reread"
    /\ inflight' = (inflight \ {r}) \cup {[r EXCEPT !.op = "time.announce",
                       !.data = [total |-> r.data.before + r.data.minutes]]}
    /\ UNCHANGED <<asked, time, orderVars, checklist, comment, worn, field>>

\* The total that the event will carry; a 404 and no event if the card is gone.
Reread(r) ==
    /\ r.op = "time.reread"
    /\ \/ /\ Live(Card)
          /\ inflight' = (inflight \ {r})
               \cup {[r EXCEPT !.op = "time.announce", !.data = [total |-> time.logged]]}
          /\ UNCHANGED <<asked, time>>
       \/ /\ ~Live(Card)
          /\ time' = [time EXCEPT !.missed = TRUE]
          /\ Finish(r)
    /\ UNCHANGED <<orderVars, checklist, comment, worn, field>>

\* card.time_logged, once the read was answered; others may have logged since.
Announce(r) ==
    /\ r.op = "time.announce"
    /\ time' = [time EXCEPT !.announced = @ \cup {r.data.total}]
    /\ Finish(r)
    /\ UNCHANGED <<orderVars, checklist, comment, worn, field>>

-----------------------------------------------------------------------------
(* ChecklistService *)

SetChecklist(r, next) ==
    /\ checklist' = next
    /\ Finish(r)
    /\ UNCHANGED <<orderVars, time, comment, worn, field>>

CreateChecklist(u) == CardOpen /\ Ask(u, "checklist.create", [list |-> None])

\* getChecklistInCard, and nothing but the title changes.
RenameChecklist(u, k) ==
    CardOpen /\ k \in checklist.lists /\ Ask(u, "checklist.rename", [list |-> k])

DeleteChecklist(u, k) ==
    CardOpen /\ k \in checklist.lists /\ Ask(u, "checklist.delete", [list |-> k])

\* addItem does not look at the card, findActiveChecklist only whether it is archived.
AddItem(u, k) ==
    /\ BoardOpen /\ k \in checklist.lists /\ ~row[Card].archived
    /\ Ask(u, "item.add", [list |-> k])

\* getItemInChecklist: the item is in the checklist, whosever that is.
AskItem(u, op, i, done) ==
    /\ CardOpen /\ i \in DOMAIN checklist.items
    /\ Ask(u, op, [item |-> i, done |-> done])

UpdateItem(u, i, done) == AskItem(u, "item.update", i, done)
RemoveItem(u, i)       == AskItem(u, "item.remove", i, TRUE)
PromoteItem(u, i)      == AskItem(u, "item.promote", i, TRUE)

InsertChecklist(r) ==
    /\ r.op = "checklist.create" /\ checklist.lists # Checklists
    /\ SetChecklist(r, [checklist EXCEPT !.lists = @ \cup {First(Checklists \ checklist.lists)}])

\* The row is gone by now: the query throws, and nothing changes.
Gone(r) ==
    \/ r.op \in {"checklist.rename", "checklist.delete", "item.add"}
          /\ r.data.list \notin checklist.lists
    \/ r.op \in {"item.update", "item.remove"} /\ r.data.item \notin DOMAIN checklist.items

WriteTitle(r) == r.op = "checklist.rename" /\ Drop(r)

\* The items of a checklist go with it.
EraseChecklist(r) ==
    /\ r.op = "checklist.delete" /\ ~Gone(r)
    /\ SetChecklist(r, [lists |-> checklist.lists \ {r.data.list},
                        items |-> [i \in {j \in DOMAIN checklist.items :
                                            checklist.items[j].in # r.data.list} |->
                                       checklist.items[i]]])

InsertItem(r) ==
    /\ r.op = "item.add" /\ ~Gone(r) /\ DOMAIN checklist.items # Items
    /\ LET new == First(Items \ DOMAIN checklist.items) IN
       SetChecklist(r, [checklist EXCEPT !.items =
           [i \in DOMAIN @ \cup {new} |->
              IF i \in DOMAIN @ THEN @[i]
              ELSE [in |-> r.data.list, done |-> FALSE, subcards |-> 0, excused |-> FALSE]]])

WriteItem(r) ==
    /\ r.op = "item.update" /\ ~Gone(r)
    /\ SetChecklist(r, [checklist EXCEPT
           !.items[r.data.item].done = r.data.done,
           !.items[r.data.item].excused = @ \/ ~r.data.done])

EraseItem(r) ==
    /\ r.op = "item.remove" /\ ~Gone(r)
    /\ SetChecklist(r, [checklist EXCEPT !.items = [i \in DOMAIN @ \ {r.data.item} |-> @[i]]])

\* promoteItemToSubcard: createSubcard checks again, and creates; then the item is ticked.
PromoteCheck(r) ==
    /\ r.op = "item.promote"
    /\ IF CardOpen THEN Continue(r, "promote.create") ELSE Finish(r)
    /\ UNCHANGED <<orderVars, detailVars>>

PromoteCreate(r) ==
    /\ r.op = "promote.create"
    /\ checklist' = IF r.data.item \in DOMAIN checklist.items
                    THEN [checklist EXCEPT !.items[r.data.item].subcards = @ + 1]
                    ELSE checklist
    /\ Continue(r, "promote.tick")
    /\ UNCHANGED <<orderVars, time, comment, worn, field>>

\* The item is gone, or the database fails: PROMOTE_FAILED tells the user.
PromoteTick_Swallowed(r) ==
    /\ r.op = "promote.tick"
    /\ \/ r.data.item \in DOMAIN checklist.items
           /\ SetChecklist(r, [checklist EXCEPT !.items[r.data.item].done = TRUE])
       \/ Drop(r)

PromoteTick(r) ==
    /\ r.op = "promote.tick"
    /\ IF r.data.item \in DOMAIN checklist.items
       THEN \/ SetChecklist(r, [checklist EXCEPT !.items[r.data.item].done = TRUE])
            \/ SetChecklist(r, [checklist EXCEPT !.items[r.data.item].excused = TRUE])
       ELSE Drop(r)

-----------------------------------------------------------------------------
(* CommentService: one level of replies; only the author edits or deletes *)

LiveComment(k) == k \in DOMAIN comment /\ ~comment[k].deleted

MayReply_ToReplies(k) == k = 0 \/ LiveComment(k)

MayReply(k) == k = 0 \/ (LiveComment(k) /\ comment[k].parent = 0)

CreateComment(u, k) ==
    CardOpen /\ MayReply(k) /\ Ask(u, "comment.create", [parent |-> k])

IsAuthor(u, k) == LiveComment(k) /\ comment[k].author = u

UpdateComment(u, k) ==
    CardOpen /\ IsAuthor(u, k) /\ Ask(u, "comment.update", [comment |-> k])

DeleteComment(u, k) ==
    CardOpen /\ IsAuthor(u, k) /\ Ask(u, "comment.delete", [comment |-> k])

SetComment(r, next) ==
    /\ comment' = next
    /\ Finish(r)
    /\ UNCHANGED <<orderVars, time, checklist, worn, field>>

InsertComment(r) ==
    /\ r.op = "comment.create" /\ Len(comment) < MaxComments
    /\ SetComment(r, Append(comment, [author |-> r.user, parent |-> r.data.parent,
                                      deleted |-> FALSE]))

\* Both write by id, whether the comment is deleted by then or not.
WriteContent(r) == r.op = "comment.update" /\ SetComment(r, comment)

SoftDelete(r) ==
    r.op = "comment.delete" /\ SetComment(r, [comment EXCEPT ![r.data.comment].deleted = TRUE])

\* findCardCommentsPage: the newest page of the comments that are not deleted.
CommentPage ==
    {k \in DOMAIN comment : LiveComment(k)
        /\ Cardinality({j \in DOMAIN comment : LiveComment(j) /\ j > k}) < PageSize}

\* CommentSection: the top-level comments of the page, and the replies to them.
CommentsShown ==
    {k \in CommentPage : comment[k].parent = 0 \/ comment[k].parent \in
         {j \in CommentPage : comment[j].parent = 0}}

-----------------------------------------------------------------------------
(* Labels and assignees *)

SetWorn(r, next) ==
    /\ worn' = next
    /\ Finish(r)
    /\ UNCHANGED <<orderVars, time, checklist, comment, field>>

\* A label made on the card is put on it, whatever the state of the card.
CreateLabel(u, onCard) == BoardOpen /\ Ask(u, "label.create", [onCard |-> onCard])

CreateWorkspaceLabel(u, onCard) == Ask(u, "wlabel.create", [onCard |-> onCard])

\* The label is one of the workspace.
UpdateLabel(u, l) ==
    BoardOpen /\ l \in worn.labels /\ Ask(u, "label.update", [label |-> l])

UpdateWorkspaceLabel(u, l) == l \in worn.labels /\ Ask(u, "wlabel.update", [label |-> l])

DeleteLabel(u, l) ==
    BoardOpen /\ l \in worn.labels /\ Ask(u, "label.delete", [label |-> l])

DeleteWorkspaceLabel(u, l) == l \in worn.labels /\ Ask(u, "wlabel.delete", [label |-> l])

\* addLabel and addAssignee do not look at the board.
AddLabel(u, l) ==
    Live(Card) /\ l \in worn.labels /\ Ask(u, "card.label", [label |-> l])

RemoveLabel(u, l) == CardOpen /\ Ask(u, "card.unlabel", [label |-> l])

AddAssignee(u, v) ==
    Live(Card) /\ v \in DOMAIN RoleOf /\ Ask(u, "card.assign", [assignee |-> v])

RemoveAssignee(u, v) == CardOpen /\ Ask(u, "card.unassign", [assignee |-> v])

InsertLabel(r) ==
    /\ r.op \in {"label.create", "wlabel.create"} /\ worn.labels # Labels
    /\ LET l == First(Labels \ worn.labels) IN
       SetWorn(r, [worn EXCEPT !.labels = @ \cup {l},
                               !.card = @ \cup IF r.data.onCard THEN {l} ELSE {}])

EraseLabel(r) ==
    /\ r.op \in {"label.delete", "wlabel.delete"} /\ r.data.label \in worn.labels
    /\ SetWorn(r, [worn EXCEPT !.labels = @ \ {r.data.label}, !.card = @ \ {r.data.label}])

\* An upsert: it fails if the label is gone.
WearLabel(r) ==
    /\ r.op = "card.label" /\ r.data.label \in worn.labels
    /\ SetWorn(r, [worn EXCEPT !.card = @ \cup {r.data.label}])

UnwearLabel(r) ==
    r.op = "card.unlabel" /\ SetWorn(r, [worn EXCEPT !.card = @ \ {r.data.label}])

\* An update of name and color, or a query about a label that is gone.
WriteLabel(r) ==
    /\ \/ r.op \in {"label.update", "wlabel.update"}
       \/ r.op \in {"label.delete", "wlabel.delete", "card.label"}
             /\ r.data.label \notin worn.labels
    /\ Drop(r)

WriteAssignee(r) ==
    \/ /\ r.op = "card.assign"
       /\ SetWorn(r, [worn EXCEPT !.assigned = @ \cup {r.data.assignee}])
    \/ /\ r.op = "card.unassign"
       /\ SetWorn(r, [worn EXCEPT !.assigned = @ \ {r.data.assignee}])

-----------------------------------------------------------------------------
(* CardFieldService: a select field of the workspace *)

SetField(r, next) ==
    /\ field' = next
    /\ Finish(r)
    /\ UNCHANGED <<orderVars, time, checklist, comment, worn>>

\* validateFieldValue: null always passes, a select value must be an option.
ValidateFieldValue_AnyText(options, value) == TRUE

ValidateFieldValue(options, value) == value = None \/ value \in options

\* createDef checks nothing; names are unique in the database.
CreateDef(u, options) == Ask(u, "field.create", [options |-> options])

UpdateDef(u, options) == field.exists /\ Ask(u, "field.update", [options |-> options])

DeleteDef(u) == field.exists /\ Ask(u, "field.delete", [options |-> {}])

SetValue(u, value) ==
    /\ CardOpen /\ field.exists
    /\ ValidateFieldValue(field.options, value)
    /\ Ask(u, "value.set", [value |-> value, options |-> field.options])

InsertDef(r) ==
    /\ r.op = "field.create" /\ ~field.exists
    /\ SetField(r, [exists |-> TRUE, options |-> r.data.options, value |-> None,
                    stale |-> FALSE])

\* stale: the options changed after the value was validated.
WriteDef(r) ==
    /\ r.op = "field.update" /\ field.exists
    /\ SetField(r, [field EXCEPT !.options = r.data.options, !.stale = field.value # None])

\* The values of a field go with it.
EraseDef(r) ==
    /\ r.op = "field.delete" /\ field.exists
    /\ SetField(r, [exists |-> FALSE, options |-> {}, value |-> None, stale |-> FALSE])

WriteValue(r) ==
    /\ r.op = "value.set" /\ field.exists
    /\ SetField(r, [field EXCEPT !.value = r.data.value,
                        !.stale = r.data.value # None /\ r.data.options # field.options])

\* A second field of the name, or a field that is gone.
FieldRefused(r) ==
    /\ \/ r.op = "field.create" /\ field.exists
       \/ r.op \in {"field.update", "field.delete", "value.set"} /\ ~field.exists
    /\ Drop(r)

-----------------------------------------------------------------------------
(* The requests of each area *)

TimeNext ==
    \/ MayAsk /\ \E u \in DOMAIN RoleOf, m \in {1, 2} : AskLog(u, m)
    \/ \E r \in inflight : AddEntry(r) \/ Reread(r) \/ Announce(r)

ChecklistNext ==
    \/ MayAsk /\ \E u \in DOMAIN RoleOf :
        \/ CreateChecklist(u)
        \/ \E k \in checklist.lists :
               RenameChecklist(u, k) \/ DeleteChecklist(u, k) \/ AddItem(u, k)
        \/ \E i \in DOMAIN checklist.items :
               \/ RemoveItem(u, i) \/ PromoteItem(u, i)
               \/ \E done \in BOOLEAN : UpdateItem(u, i, done)
    \/ \E r \in inflight :
        \/ InsertChecklist(r) \/ WriteTitle(r) \/ EraseChecklist(r)
        \/ InsertItem(r) \/ WriteItem(r) \/ EraseItem(r) \/ (Gone(r) /\ Drop(r))
        \/ PromoteCheck(r) \/ PromoteCreate(r) \/ PromoteTick(r)

CommentNext ==
    \/ MayAsk /\ \E u \in DOMAIN RoleOf :
        \/ \E k \in 0..Len(comment) : CreateComment(u, k)
        \/ \E k \in DOMAIN comment : UpdateComment(u, k) \/ DeleteComment(u, k)
    \/ \E r \in inflight : InsertComment(r) \/ WriteContent(r) \/ SoftDelete(r)

WornNext ==
    \/ MayAsk /\ \E u \in DOMAIN RoleOf :
        \/ \E onCard \in BOOLEAN : CreateLabel(u, onCard) \/ CreateWorkspaceLabel(u, onCard)
        \/ \E l \in Labels :
               \/ UpdateLabel(u, l) \/ UpdateWorkspaceLabel(u, l)
               \/ DeleteLabel(u, l) \/ DeleteWorkspaceLabel(u, l)
               \/ AddLabel(u, l) \/ RemoveLabel(u, l)
        \/ \E v \in DOMAIN RoleOf : AddAssignee(u, v) \/ RemoveAssignee(u, v)
    \/ \E r \in inflight :
        \/ InsertLabel(r) \/ WriteLabel(r) \/ EraseLabel(r)
        \/ WearLabel(r) \/ UnwearLabel(r) \/ WriteAssignee(r)

FieldNext ==
    \/ MayAsk /\ \E u \in DOMAIN RoleOf :
        \/ \E options \in SUBSET Options : CreateDef(u, options) \/ UpdateDef(u, options)
        \/ DeleteDef(u)
        \/ \E value \in Options \cup {None} : SetValue(u, value)
    \/ \E r \in inflight :
        InsertDef(r) \/ WriteDef(r) \/ EraseDef(r) \/ WriteValue(r) \/ FieldRefused(r)

-----------------------------------------------------------------------------
\* The time on the card is the sum of its entries, however many requests
\* log at once (addEntry increments in the database, in one transaction
\* with the entry).  The total that is stored has been announced, or is
\* about to be, unless a card vanished before it could be read again.  It
\* need not be the total announced last: of two requests, the one that read
\* first may emit last.
LoggedMatches ==
    /\ time.logged = time.entered
    /\ \/ time.logged \in time.announced
       \/ time.missed
       \/ Requested("time.reread") # {}
       \/ \E r \in Requested("time.announce") : r.data.total = time.logged

\* An item that was made a subcard is ticked, or its promotion is not over,
\* or somebody unticked it, or the user was told PROMOTE_FAILED.
PromotedIsDone ==
    \A i \in DOMAIN checklist.items :
        checklist.items[i].subcards > 0 /\ ~checklist.items[i].done
            => \/ checklist.items[i].excused
               \/ \E r \in Requested("promote.tick") : r.data.item = i

\* CommentSection shows every comment of the page it was given, except
\* replies whose parent was deleted or is older than the page.
CommentsReach ==
    \A k \in CommentPage \ CommentsShown :
        LET p == comment[k].parent IN
        \/ comment[p].deleted
        \/ Cardinality({j \in DOMAIN comment : LiveComment(j) /\ j > p}) >= PageSize

\* The value of a select field is one of its options, unless the options
\* changed after the value was validated.
FieldValueAllowed ==
    field.value = None \/ field.value \in field.options \/ field.stale

=============================================================================
