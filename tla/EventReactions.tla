--------------------------- MODULE EventReactions ---------------------------
(***************************************************************************)
(* What the listeners make of a domain event: the row that an activity     *)
(* listener inserts, the notifications that NotificationProducerListener   *)
(* publishes, the mail that MailListener sends.  EventEmitter2 starts each *)
(* listener and waits for none of them: a listener reads the card, the     *)
(* board and the document when it comes to it, and its errors end in the   *)
(* log.                                                                    *)
(***************************************************************************)
EXTENDS BoardEvents, Integers, Sequences, Bags

CONSTANTS
    Members,    \* users of the workspace
    Outsiders,  \* other users that a comment may mention
    MaxEvents,  \* bound: events
    MaxFailures \* bound: failing queries and publications, and crashes

ASSUME ReactionBounds == {MaxEvents, MaxFailures} \subseteq Nat
ASSUME SomeMember == Members # {}

VARIABLES
    card,       \* [assigned, live]: the card all the card events are about
    board,      \* is its board live (not archived)
    document,   \* is the document live
    events,     \* the events emitted so far
    jobs,       \* listeners at work
    feed,       \* bag of the rows of activities
    notices,    \* notifications published: event, type, recipient
    mails,      \* bag of the mails sent or queued, by event
    failed,     \* history variable: listeners that failed, by event and kind
    failures    \* failures so far

reactionVars == <<card, board, document, events, jobs, feed, notices, mails, failed, failures>>

AuthMails == {"auth.registered", "auth.email_verification_requested",
              "auth.email_verified", "auth.password_reset_requested"}
MailEvents == AuthMails \cup {"workspace.invitation_created"}

MemberActivity ==
    "workspace.created" :> <<"workspace", "created">>
        @@ "workspace.member_added" :> <<"workspace", "member_added">>
        @@ "workspace.member_removed" :> <<"workspace", "member_removed">>
        @@ "workspace.member_role_changed" :> <<"workspace", "member_role_changed">>
        @@ "workspace.member_left" :> <<"workspace", "member_left">>
        @@ "workspace.ownership_transferred" :> <<"workspace", "ownership_transferred">>

Recorded == Activity @@ MemberActivity

\* The type of the notification for each event that has one.
NotificationType ==
    [name \in {"card.assignee_added", "comment.created", "card.status_changed",
               "card.priority_changed", "workspace.member_added",
               "workspace.member_role_changed"} |->
        CASE name = "card.assignee_added" -> "card_assigned"
          [] name = "comment.created" -> "comment_added"
          [] name = "card.status_changed" -> "card_status_changed"
          [] name = "card.priority_changed" -> "card_priority_changed"
          [] name = "workspace.member_added" -> "workspace_invited"
          [] name = "workspace.member_role_changed" -> "workspace_role_changed"]

Names == DOMAIN Recorded \cup MailEvents
Kinds == {"activity", "notify", "mail"}
Users == Members \cup Outsiders

\* Bound: a comment mentions one user at most.
Mentions == {{}} \cup {{u} : u \in Users}

\* since and always: the users who were assigned to the live card at some
\* time, or all the time, from the event on.
Event == [name : Names, actor : Users, whom : SUBSET Users, since : SUBSET Users,
          always : SUBSET Users]
Job   == [event : Nat, kind : Kinds, step : {"resolve", "read", "publish", "mention", "write"},
          to : SUBSET Users]

ReactionsTypeOK ==
    /\ card \in [assigned : SUBSET Members, live : BOOLEAN]
    /\ board \in BOOLEAN /\ document \in BOOLEAN
    /\ Len(events) <= MaxEvents /\ \A i \in DOMAIN events : events[i] \in Event
    /\ \A j \in jobs : j \in Job
    /\ \A row \in BagToSet(feed) : row.event \in DOMAIN events
    /\ failures \in 0..MaxFailures

ReactionsInit ==
    /\ card = [assigned |-> {CHOOSE u \in Members : TRUE}, live |-> TRUE]
    /\ board = TRUE /\ document = TRUE
    /\ events = <<>> /\ jobs = {} /\ feed = EmptyBag /\ notices = {} /\ mails = EmptyBag
    /\ failed = {} /\ failures = 0

-----------------------------------------------------------------------------
(* Events: the write and the emit of a request *)

JobsOf(i, name, actor, whom) ==
    {[event |-> i, kind |-> "activity", step |-> "resolve", to |-> {}] :
        x \in {name} \cap DOMAIN Recorded}
    \cup {[event |-> i, kind |-> "notify", step |-> "resolve", to |-> {}] :
            x \in {y \in {name} \cap DOMAIN NotificationType :
                     ~(y = "card.assignee_added" /\ whom = {actor})}}
    \cup {[event |-> i, kind |-> "mail", step |-> "write", to |-> {}] :
            x \in {name} \cap MailEvents}

\* The events that change the card, the board or the document, or whose
\* listeners read one of them.
Handled == {"card.assignee_added", "card.assignee_removed", "card.archived",
            "comment.created", "card.status_changed", "card.priority_changed",
            "board.archived", "document.renamed", "document.archived"}

\* An event, and the card, the board and the document after it.  Bound: an
\* event that is not one of these comes alone; its listeners would not
\* notice another.
Happen(name, actor, whom, c, b, d) ==
    LET seen == IF c.live THEN c.assigned ELSE {} IN
    /\ Len(events) < MaxEvents
    /\ \A i \in DOMAIN events : events[i].name \in Handled
    /\ card' = c /\ board' = b /\ document' = d
    /\ events' = Append([i \in DOMAIN events |->
                           [events[i] EXCEPT !.since = @ \cup seen, !.always = @ \cap seen]],
                        [name |-> name, actor |-> actor, whom |-> whom,
                         since |-> seen, always |-> seen])
    /\ jobs' = jobs \cup JobsOf(Len(events) + 1, name, actor, whom)
    /\ UNCHANGED <<feed, notices, mails, failed, failures>>

CardAssigned(u, v) ==
    /\ card.live
    /\ Happen("card.assignee_added", u, {v},
              [card EXCEPT !.assigned = @ \cup {v}], board, document)

CardUnassigned(u, v) ==
    /\ card.live /\ board
    /\ Happen("card.assignee_removed", u, {v},
              [card EXCEPT !.assigned = @ \ {v}], board, document)

CardClosed(u) ==
    /\ card.live /\ board
    /\ Happen("card.archived", u, {}, [card EXCEPT !.live = FALSE], board, document)

\* A comment mentions users by their addresses.
Commented(u, mentioned) ==
    card.live /\ board /\ Happen("comment.created", u, mentioned, card, board, document)

StageChanged(u, name) ==
    /\ card.live /\ board /\ name \in {"card.status_changed", "card.priority_changed"}
    /\ Happen(name, u, {}, card, board, document)

BoardClosed(u) == board /\ Happen("board.archived", u, {}, card, FALSE, document)

DocumentRenamed(u) ==
    document /\ Happen("document.renamed", u, {}, card, board, document)

DocumentClosed(u) ==
    document /\ Happen("document.archived", u, {}, card, board, FALSE)

\* The requests of one member about another, or about oneself.
AboutMember == {"workspace.member_removed", "workspace.member_role_changed",
                "workspace.ownership_transferred"}

\* The other events leave the card, the board and the document as they are;
\* v is the user they affect.
OtherEvent(u, v, name) ==
    /\ name \in Names \ Handled /\ events = <<>>
    /\ name \notin AboutMember => v = u
    /\ Happen(name, u, {v}, card, board, document)

-----------------------------------------------------------------------------
(* Listeners *)

Ends(j) == jobs' = jobs \ {j}
GoesOn(j, step, to) == jobs' = (jobs \ {j}) \cup {[j EXCEPT !.step = step, !.to = to]}

Fails(j) ==
    /\ failures < MaxFailures /\ failures' = failures + 1
    /\ failed' = failed \cup {<<j.event, j.kind>>}
    /\ Ends(j)
    /\ UNCHANGED <<card, board, document, events, feed, notices, mails>>

\* findWorkspaceIdByBoardId finds archived boards as well; the workspace of
\* a renamed document is read off the document, which must not be archived.
Resolve_ActiveOnly(j) ==
    /\ j.step = "resolve"
    /\ IF events[j.event].name = "document.renamed" /\ ~document
       THEN Ends(j) /\ failed' = failed \cup {<<j.event, j.kind>>}
       ELSE IF board THEN GoesOn(j, IF j.kind = "activity" THEN "write" ELSE "read", {})
                              /\ UNCHANGED failed
       ELSE Ends(j) /\ UNCHANGED failed
    /\ UNCHANGED <<card, board, document, events, feed, notices, mails, failures>>

Resolve(j) ==
    /\ j.step = "resolve"
    /\ IF events[j.event].name = "document.renamed" /\ ~document
       THEN Ends(j) /\ failed' = failed \cup {<<j.event, j.kind>>}
       ELSE GoesOn(j, IF j.kind = "activity" THEN "write" ELSE "read", {}) /\ UNCHANGED failed
    /\ UNCHANGED <<card, board, document, events, feed, notices, mails, failures>>

\* The actorId of the row: the events of a removal and of a change of role
\* carry the member they are about, and nobody else.
ActorId(e) ==
    IF e.name \in {"workspace.member_removed", "workspace.member_role_changed"}
    THEN e.whom ELSE {e.actor}

\* ActivityRepository.record.
Record(j) ==
    /\ j.kind = "activity" /\ j.step = "write"
    /\ feed' = feed (+) SetToBag({[event |-> j.event, what |-> Recorded[events[j.event].name],
                                   actorId |-> ActorId(events[j.event])]})
    /\ Ends(j)
    /\ UNCHANGED <<card, board, document, events, notices, mails, failed, failures>>

\* sendMail, or publishEmail when mail is queued: one or the other.
SendMail(j) ==
    /\ j.kind = "mail"
    /\ mails' = mails (+) SetToBag({j.event})
    /\ Ends(j)
    /\ UNCHANGED <<card, board, document, events, feed, notices, failed, failures>>

\* findAssigneeIdsByCardId: nobody when the card is archived.
Assignees == IF card.live THEN card.assigned ELSE {}

Recipients_ActorToo(e) ==
    IF e.name \in {"card.assignee_added", "workspace.member_added",
                   "workspace.member_role_changed"}
    THEN e.whom ELSE Assignees

Recipients(e) ==
    IF e.name \in {"card.assignee_added", "workspace.member_added",
                   "workspace.member_role_changed"}
    THEN e.whom ELSE Assignees \ {e.actor}

ReadRecipients(j) ==
    /\ j.kind = "notify" /\ j.step = "read"
    /\ GoesOn(j, "publish", Recipients(events[j.event]))
    /\ UNCHANGED <<card, board, document, events, feed, notices, mails, failed, failures>>

Publish(j, u) ==
    /\ u \in j.to
    /\ notices' = notices \cup
         {[event |-> j.event, to |-> u,
           type |-> IF j.step = "mention" THEN "comment_mentioned"
                    ELSE NotificationType[events[j.event].name]]}
    /\ GoesOn(j, j.step, j.to \ {u})
    /\ UNCHANGED <<card, board, document, events, feed, mails, failed, failures>>

\* The broker refuses one message; the loop goes on.
PublishFails(j, u) ==
    /\ u \in j.to
    /\ failures < MaxFailures /\ failures' = failures + 1
    /\ failed' = failed \cup {<<j.event, j.kind>>}
    /\ GoesOn(j, j.step, j.to \ {u})
    /\ UNCHANGED <<card, board, document, events, feed, notices, mails>>

\* After the assignees of a comment come the members that it mentions.
Published(j) ==
    /\ j.step \in {"publish", "mention"} /\ j.to = {}
    /\ IF j.step = "publish" /\ events[j.event].name = "comment.created"
       THEN GoesOn(j, "mention", events[j.event].whom \cap Members)
       ELSE Ends(j)
    /\ UNCHANGED <<card, board, document, events, feed, notices, mails, failed, failures>>

\* The process dies: its listeners are not started again.
Crash ==
    /\ jobs # {} /\ failures < MaxFailures
    /\ failures' = failures + 1
    /\ failed' = failed \cup {<<j.event, j.kind>> : j \in jobs}
    /\ jobs' = {}
    /\ UNCHANGED <<card, board, document, events, feed, notices, mails>>

ReactionsNext ==
    \/ \E u \in Members :
        \/ \E v \in Members :
            \/ CardAssigned(u, v) \/ CardUnassigned(u, v)
            \/ \E name \in Names : OtherEvent(u, v, name)
        \/ \E mentioned \in Mentions : Commented(u, mentioned)
        \/ \E name \in Names : StageChanged(u, name)
        \/ CardClosed(u) \/ BoardClosed(u) \/ DocumentRenamed(u) \/ DocumentClosed(u)
    \/ \E j \in jobs :
        \/ Resolve(j) \/ Record(j) \/ SendMail(j) \/ ReadRecipients(j) \/ Published(j)
        \/ Fails(j)
        \/ \E u \in j.to : Publish(j, u) \/ PublishFails(j, u)
    \/ Crash

-----------------------------------------------------------------------------
AtWork(i, kind) == \E j \in jobs : j.event = i /\ j.kind = kind

\* Every event leaves its trace exactly once: one row of the feed, and one
\* mail where there is one to send, whatever was archived before the
\* listener came to it.  The exceptions are logged failures, among them the
\* rename of a document that was archived meanwhile, and listeners that
\* died with their process.
TracedOnce ==
    \A i \in DOMAIN events :
        LET rows == {row \in BagToSet(feed) : row.event = i} IN
            /\ \A row, other \in rows : feed[row] = 1 /\ row = other
            /\ i \in BagToSet(mails) => mails[i] = 1
            /\ events[i].name \in DOMAIN Recorded /\ ~AtWork(i, "activity")
                 => rows # {} \/ <<i, "activity">> \in failed
            /\ events[i].name \in MailEvents /\ ~AtWork(i, "mail")
                 => i \in BagToSet(mails) \/ <<i, "mail">> \in failed

\* Notifications reach the right users although the assignees are read
\* after the event: nobody is told of what they did themselves (except by
\* mentioning themselves), nobody who was never assigned meanwhile is told
\* of a change of the card, and everybody who was assigned all the while is,
\* unless the listener failed.
NoticesRight ==
    LET CardEvent(e) == e.name \in {"comment.created", "card.status_changed",
                                    "card.priority_changed"}
    IN  /\ \A n \in notices :
             LET e == events[n.event] IN
             /\ n.to = e.actor => n.type \in {"comment_mentioned", "workspace_invited",
                                              "workspace_role_changed"}
             /\ n.type = "comment_mentioned" => n.to \in e.whom \cap Members
             /\ CardEvent(e) /\ n.type # "comment_mentioned" => n.to \in e.since
        /\ \A i \in DOMAIN events :
             CardEvent(events[i]) /\ ~AtWork(i, "notify") /\ <<i, "notify">> \notin failed
               => \A u \in events[i].always \ {events[i].actor} :
                     \E n \in notices : n.event = i /\ n.to = u /\ n.type # "comment_mentioned"

\* What the listeners make of an event after it happened: one trace of it in
\* the feed and the mail, and notifications for the right users.
ListenersRight == TracedOnce /\ NoticesRight

=============================================================================
