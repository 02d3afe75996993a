# SyncBoard in TLA+

SyncBoard is a NestJS server for collaborative boards and documents: PostgreSQL
behind Prisma, Redis, RabbitMQ, Socket.IO, Yjs for the documents' text, and a
React client. Nearly all of its logic is asynchronous handlers that read some
rows, check something, and write, with other handlers running at every `await`
in between. Locks and conditional writes are rare. What is hard to test is
therefore always of the same kind: what happens when another step falls into an
await, when a call fails half-way, and when a message comes twice, late or not
at all. These modules cut every modelled handler at its awaits, let everything
else run there, and ask what is still true.

Paths below are relative to the repository's `src/modules/` unless they start
with `src/common/`, `frontend/` or `docs/`.

## Inventory

| Component | State it keeps | Hard behaviour | Right when | Module |
|---|---|---|---|---|
| Document manager (`document/services/document-manager.service.ts`) | live Y.Docs with dirty flag, connections, save timer; loads in flight; `documents.yjs_state` | overlapping saves, edits during a save, sweep against open, failing query, crash | no merged update disappears; one live Y.Doc per document; a dirty document is saved | `DocumentManager` |
| Document gateway, editors, editor component (`document/realtime/`, `frontend/src/components/document/DocumentEditor.tsx`) | room, editors by socket; the tab's Y.Doc and list of editors | reconnection before the server sees the old socket go, disconnect during join, lost updates, restored snapshots | tabs and server agree once settled; nobody who left is shown | `DocumentSync` |
| RabbitMQ publisher, retry topology; notification and email consumers (`src/common/rabbitmq/`, `notification/listeners/`, `mail/listeners/`) | queues, idempotency keys, rows, SMTP | lost connection, redelivery beside a live run, crash between key and row | handled, pushed and mailed once; empty again once an outage is over | `MessagePipeline` |
| Notification inbox (`notification/services/notification.service.ts`) | `isRead`, cached count in Redis | GET-test-DECR, expiry, a bump between update and delete | the count shown is the real one | `UnreadCounter` |
| Sessions (`auth/`, `frontend/src/api/client.ts`, auth store) | refresh-token families, reset keys, password; cookie and access token of each tab | refresh against refresh, against sign-out and password change; lost answer | one usable token per family; what ended stays ended | `Sessions`, abstractly `SessionLifecycle` |
| Workspace membership (`workspace/services/membership.service.ts`) | role per member row, `ownerId` | owners counted, then written; two writes without a transaction | ownerId names an owner; only owners make owners | `WorkspaceMembership` |
| Invitations (`workspace/services/invitation.service.ts`) | status of each invitation | accept against revoke, two invites, an inviter demoted meanwhile | an invitation admits once, while pending, in the role offered | `Invitations`, on top of `WorkspaceMembership` |
| Board presence (`board/realtime/`) | sorted set, hash and set of boards in Redis; the page's list of viewers | several round trips per operation, sweep, crash, missed heartbeat | the list shows who is there; entries of dead sockets go | `BoardPresence` |
| Cards and subcards (`board/card/`) | parentCardId, status, isComplete, archivedAt | checks apart from writes | no cycle, depth at most 2, completion follows status | `CardTree` |
| Boards, lists, ranks (`board/core/`, `board/list/`, `board/lexorank/`) | rank, archivedAt and deletedAt of each row | ranks from rows read earlier; archiving above what is being changed | strict order; rows land where they were dropped | `BoardOrder`, `Lexorank` |
| Card details (`board/checklist/`, `comment/`, `label/`, `card-fields/`, `card-time/`) | items, comments, labels, assignees, field definitions and values, minutes | second write of a promotion fails; options change after validation | see the properties | `CardDetails` |
| Edits | columns of board, list, card; stars | column written from a row read before | no edit lost to another column's edit | `BoardEdits` |
| Uploads (`file/`, `FileUploadButton.tsx`) | row status, object in the store | confirm against sweep and deletion, and without any bytes | bytes that were there at confirm stay while the file is offered; a deletion leaves none | `Uploads` |
| Roles (`src/common/guards/`, the controllers) | - | forty routes with their own decorators | nobody writes above their role; what the client offers is served | `WorkspaceRoutes`, `BoardAccess`, `ClientApi` |
| Events and listeners (`board/realtime/services/broadcast-relay.service.ts`, `activity/`, `notification-producer.listener.ts`, `mail.listener.ts`) | feed rows, messages | listeners read after the event | one trace per event; the right users are told | `BoardEvents`, `EventReactions` |
| Board page, canvas, subcard section (`frontend/src/pages/BoardPage.tsx`, `components/board/BoardCanvas.tsx`, `components/card/SubcardSection.tsx`) | what is shown, loads and calls in flight | loads and broadcasts out of order, optimistic changes and rollbacks | a page at rest shows what is stored | `BoardClient`, `DragDrop`, `SubcardSection` |
| Workspace, document and snapshot services | metadata | single queries | - | partly, in the modules above |
| Guards of sockets, filters, Redis and Prisma clients, health, configuration, seeds, rendering | none of their own | - | - | not modelled |

Interaction: HTTP controllers and the two Socket.IO gateways call services, behind
the role guard; services write through repositories and emit domain events; the
relay broadcasts them to the board's room, the activity listeners record them, the
producer and the mail listener turn them into RabbitMQ messages; the consumers write
rows, bump the Redis counter and push. The client calls the routes, shows what it
loads, and loads again when a broadcast arrives.

`BoardContents` composes `BoardOrder`, `CardDetails`, `BoardEdits` and `Uploads`;
`BoardSystem` composes it with the client, the listeners and the counter.
`Invitations` composes with `WorkspaceMembership`. `MessagePipeline` starts where
`EventReactions` publishes and ends where `UnreadCounter` stores; `DocumentSync`
treats saving as one step, which `DocumentManager` takes apart.

Every hazard is listed with its line in `PROJECT.json`.

## The modules

Common conventions. A JavaScript handler runs alone until it awaits, so an action
is the code from one await to the next, with everything it assigns. A request in
progress is a record with the step it waits at and what it has read. The
database, Redis, the broker, SMTP and the object store answer at any time, in any
order, and may fail where the code can see a failure; each failure that is not left
unbounded counts against a named bound. Definitions named `X_Something` directly
before `X` are mutants: plausible bugs of X, used to check that each property can
fail.

Most handlers of this program are correct only while nothing interferes. To say
*exactly* when, the modules carry history variables, which no action reads:
`raced`, `overlapped`, `history`, `loose`, `excused`, `mixed`, and per item the loss
windows `exposed`, `stranded`, `ambiguous`. The properties then read "unless it went
through this window", which is both what the code guarantees and the list of what
it does not. Three promises of the documents about such windows have a run of their
own, which states the promise without the exception and exhibits the behaviour that
breaks it; Findings lists these and the other disagreements. Each module states the
types of its variables (`TypeOK`); several are proved, and the cfgs leave them out
to keep to the properties that could really fail.

**DocumentManager.** A Y.Doc is the set of updates merged into it; `dbState` is the
set that was encoded when the row was last written. `open` is the docs map, `gen`
the identity of its entry objects, `loading`/`fetched`/`waiting` the load promise
and the handlers behind it, `saves` the `saveState` calls in flight. Saves are encoded
when they start and take effect when answered, in any order. `exposed` holds the loss windows:
an update merged while a save of its document is in flight, or after its Y.Doc was
destroyed; a dirty entry that is dropped; a row hidden because it is archived.

**DocumentSync.** Tabs, one socket per connection, a FIFO channel each way; Yjs's
clocks, so an update whose predecessor is missing stays pending. Joins are cut at
their await; the server may notice a dead socket after the tab is back. Restored
snapshots reach the tabs by the broadcast after a save.

**MessagePipeline.** A message is its id; a copy is the id with its retry count. The
handlers take the raw message from a fourth parameter, and the subscriber (external)
passes three: `Retry`, the count a handler sees, is 0 whatever the header of the copy
says, so every failure schedules the first retry and no retry is the last. A
handler run is `received`, `working` (it holds the key), `failed`, `retrying` or
`stored`, and knows whether it is still attached to its channel. The broker's own
behaviour is external, modelled from the queue arguments and subscriber options.
Windows: `stranded` (the key outlives the run that set it, or a run without a channel
could not hand its message on), `ambiguous` (SMTP took the mail and the call failed,
or the key expired before the last redelivery).

**UnreadCounter.** One user's rows and the Redis key. `FindUnread`, `Update`, `Get`,
`Decr`, `SetZero` are the awaits of `markRead`; `MarkAllRead`, `Del` those of
`markAllRead`; `Store`, `Incr`, `Expire` those of the consumer; `UnreadShown` is
`getUnreadCount`.

**Sessions.** One user's token rows and the tabs that hold them: the cookie is shared by
the tabs of a browser, the access token and the promise that stops concurrent
refreshes belong to a tab. Sign-in, refresh with rotation and reuse detection,
sign-out, sign-out everywhere, password change and reset, expiry and cleanup, each
cut at its round trips; requests and answers are lost. Each token has its own lifetime,
seven days from its issue, so tokens expire one by one in that order (`RefreshExpires`),
also between the read of a refresh and its rotation. `SessionLifecycle` says what a family
promises: it starts, ends, and never comes back. A family goes on while it has a usable
token or a refresh that found one and has yet to replace it (`Renewing`).

**WorkspaceMembership** and **Invitations.** One workspace; `Start` is the guard, then one
action per await. `rowId` distinguishes the rows of a user who left and joined again.
Viewers are members here. `Invitations` replaces the unconstrained `Join` by the
invitation's own life.

**BoardPresence.** One board's entries in Redis, the handlers of each socket, the
sweep, and the viewers each page shows. Each step is one round trip. Heartbeats matter
only when one is missed or overlaps another step (`MaxOddBeats`).

**CardTree.** One board's cards and their parents. `ReadFor...` does a request's reads
and checks up to its last read; the writes repeat no check.

**BoardContents.** `BoardAccess` has the request slots and the role guard; a request is
taken up with what it read (the actions named after the service methods) and
writes in a second step. `BoardOrder`: the board, its lists and cards with ranks;
`Lexorank` computes ranks as integers that are halved, the package itself is external.
`CardDetails`: time, checklists, comments, labels and assignees, a select field. Logging
time is three steps, the entry, the read of the new total and its announcement, so
totals may be announced in another order than they were reached.
`BoardEdits`: the columns. `Uploads`: row and object. The upload button confirms after
its PUT, but anybody who may manage the file can confirm at any time (`AskConfirm`), and
the server does not ask the store; `blind` notes that a row was completed without bytes.
The areas do not read
each other's state, so a behaviour is about one of them (`focus`), while the
card and the board are archived and deleted under it.

**ClientApi, BoardEvents.** Tables: the routes each API function and dialog calls, the
roles a dialog is offered to, the events of each operation, what the relay and the
feed make of them. Their consistency (every call is served, every handler calls
something that exists, every offer is allowed except the ones named) is stated as
assumptions that TLC evaluates.

**BoardClient, DragDrop, SubcardSection, EventReactions.** The page as the version of the
board it shows; the canvas as lists of ids with the ranks it knows; the subcards
with their optimistic entries; the listeners as jobs that read after the event. An event
has an actor and the users it is about, who differ when an admin removes a member,
changes a role or transfers the ownership; `ActorId` is whom the row of the feed names.

## Runs

Each cfg is checked with its `MC` module, e.g.
`tlc -workers 2 -config BoardSystem_safety.cfg MCBoardSystem`. The `MC` modules only
add constants and symmetry sets; no run with a liveness property uses symmetry.

| Run | Shows | Bounds and why they suffice |
|---|---|---|
| `doc` | `NoSilentLoss`, `CopiesComplete`, `LiveStateGrows`, `WaitersAnswered`, `DirtyIsSaved` | 1 document (documents interact only in the flush), 1 edit and a restore that may be empty, 2 entries, 2 saves at once, 2 waiting handlers, 1 sweep, 1 fault. The theorems remove the bounds from the first three |
| `doc_edit_lost` | finding 1 | two edits, no sweep, no fault |
| `docsync` | `Converges`, `EditorsRight` (nobody who left is listed by a tab, `NoPhantomEditors`, or kept by the server, `OnlyLateJoinsLinger`), `CatchesUp` | two tabs of two users, two edits, three connections, one fault: a reconnection beside the old socket, a gap in the clocks |
| `docsync_offline` | finding 2 | the same without faults |
| `pipe_safety` | `Accounted`, `OneWorker`, `PushedOnce`, `MailedOnce`, `Recovers` | one notification, one mail and one malformed mail, two runs at once, one fault (a redelivery beside a live run, a crash, a failed DEL, a lost confirm) and any number of failing inserts and sends before the outage ends. A rejected retry of a run that lost its channel takes two faults: the theorems remove the bound from the four invariants |
| `pipe_drains` | finding 3 | one notification and the malformed mail, one run at a time, no faults, three retries |
| `session_safety` | `ImplementsLifecycle`, `OneLiveToken`, `SignOutEnds`, `PasswordHolds` (`PasswordEndsSessions` and `ResetOnce`), `ReplayIsSeen` | two tabs of a browser, four tokens (a family, its successors and another), three requests, one lost answer |
| `card_safety` | `CompleteMatchesStatus`, `NoCycleUnraced`, `DepthTwoUnrestored` | three cards (a third level needs three), two requests at once |
| `member_safety` | `OwnerIdUnraced`, `OwnersMakeOwners` | three users (actor, target, successor), two requests, one row per user |
| `invite_safety` | `ImplementsMembership`, `OneOpenPerAddress`, `AdmitsOnce`, `OwnersInviteAdmins` | three users, two calls at once and three in all, one membership request at a time, two rows per user: join, leave, try the link again |
| `presence` | `ListedWhileViewed`, `RosterSettles`, `DistinctColours`, `GhostsLeave` | two sockets of two users whose hashes collide, a palette of two, one odd heartbeat |
| `board` | `WritesPermitted` (`RolesRespected`, `ArchivedBoardFrozen`), `TiesExplained`, `DropsLand`, `ContentsKept` (`LoggedMatches`, `PromotedIsDone`, `CommentsReach`, `FieldValueAllowed`, `EditsKept`), `FilesMatchStore` (`ServesItsBytes`, `DeletedBytesGone`), `ScreensRight` (`ScreenFresh`, `SubcardsShown`, `DropsAsSeen`), `ListenersRight` (`TracedOnce`, `NoticesRight`), `CountRight` (`CountMatchesUnraced`, `DriftBounded`) | three requests, two at once; two changes, two loads, one broken connection; two drags or moves over two lists, four cards and a hidden one, so that an item is dropped between two others and beside a hidden one; two events that depend on each other or one of any other kind, one failure; three clicks on subcards; two notifications, two overlapping reads, two Redis faults |

Every property of a passing run, and every part of one that is a conjunction, is
broken by a mutant of the code it is about (`PROJECT.json`, "mutants"). Deadlock is checked for the document manager; the
other instances stop when their requests, messages and faults are used up, which is a
bound and not a behaviour of the code.

Refinements: `ImplementsLifecycle` (Sessions under `SessionState` implements
`SessionLifecycle`) and `ImplementsMembership` (every step of `Invitations` is a step
of `WorkspaceMembership` or leaves it alone, so what is proved of it holds of the
composition).

### Fairness

`DocumentManager`: weak fairness of due timers, of each step of a load, of the answer
to a save, of time passing for an untouched document, of the cron sweep, of the flush
loop and of the continuation of each waiting handler. The event loop, `setTimeout`,
the connection pool and the cron decorator provide them. Nothing is assumed of
clients, and no failure is fair. `MessagePipeline`: weak fairness of the broker's
deliveries, expiries and reconnection, and of each handler run; failures of the database
and SMTP are answers and unbounded. `BoardPresence`: started handlers end, the
sweep's interval fires, the clock runs. `DocumentSync`: the event loops serve what
has arrived, and the save timer fires; nothing makes a tab reconnect.

## Findings

Shown by runs:

1. `document-manager.service.ts:291`: `persistNow` clears `isDirty` after the await, so
   an edit merged meanwhile is marked clean and its own timer returns early.
   `docs/05-realtime-engine.md:355` promises persistence within five seconds.
2. `DocumentEditor.tsx:244`: an update made offline, or lost with the connection, is never
   sent again; `docs/05-realtime-engine.md:23` says that offline edits merge on return.
3. `notification-consumer.listener.ts:127`, `email.consumer.ts:105`: the retry count is read from a
   parameter the subscriber does not fill and is always 0, so a message that keeps
   failing circulates for ever. The repository's `README.md:217` says "up to 3 times before
   terminal dead-lettering". That the queues empty after an outage is `Recovers`.

Promises of the repository that the models contradict and no run is kept for. Each was
found by checking the promise where the property below has its exception, and each
exception names the window:

- `document-manager.service.ts:270`: a debounced save that fails is only logged, no timer is
  armed, and the sweep passes over a document somebody has open, so it stays dirty until
  the next edit. The comment at :260 says that "the next cycle retries" (`DirtyIsSaved`
  asks nothing after a fault).
- `auth.service.ts:174`: a refresh that read its row before all sessions were revoked for a new
  password rotates it afterwards; its successor is live.
  `docs/test-cases/test-cases-auth.md:533` wants "no orphan active rows" from this race
  (`raced`, `torn` in `Sessions`).
- `card.service.ts:530`: two overlapping attachments close a cycle, which the comment at :477
  excludes (`NoCycleUnraced`).
- `card.repository.ts:183`: archive, attach, unarchive builds a third level of subcards, since
  only active subcards are counted; `docs/03-api-design.md:1287` says depth at most 2
  (`DepthTwoUnrestored`).
- `membership.service.ts:217`: owners who leave, or are changed, at once leave a workspace without
  one (`docs/03-api-design.md:499`; `OwnerIdUnraced`).
- `invitation.service.ts:212`: an acceptance that read the invitation as pending admits the user
  although it was revoked since (`docs/test-cases/test-cases-workspace.md:608`; `contested`).
- `board.gateway.ts:384`: users who join at once get one colour; the comment calls it
  collision-free (`clashed`).
- `card-view.repository.ts:26`: the views contain the cards of archived lists;
  `docs/test-cases/test-cases-board.md:793` says "cards hidden everywhere". `TiesExplained`
  says nothing of them.
- `card.service.ts:914`: `create`, `addLabel` and `addAssignee` never look at the board;
  `docs/10-testing-strategy.md:101` asks for read-only archived boards
  (`ArchivedBoardFrozen` exempts the three).
- `file.service.ts:207`: a file is completed without its bytes. The repository's `README.md:234` has
  confirm "verify object size"; the test cases and the e2e tests accept it
  (`ServesItsBytes` sets `blind` files apart).
- `file.service.ts:285`: deleting a file deletes its bytes, while the comment on
  `FileRepository.archive` (`file.repository.ts:82`) says "bytes stay in S3".
- `workspace-activity.listener.ts:64`: the row of a removal or a change of role names the member
  concerned as its actor (`ActorId`); `docs/test-cases/test-cases-activity.md:25` filters the
  feed by it.

The exceptions in the properties are the other places where an interleaving or a
failure breaks what one would expect. The ones a reader of the code should know:

- Shutdown destroys entries while handlers still merge (`exposed`;
  `docs/05-realtime-engine.md:141` guarantees the flush).
- The idempotency key is set before the row is written, so a run that ends between
  them leaves a message that is skipped as a duplicate (`stranded`; the consumer's comment
  says exactly-once).
- Two tabs that refresh at once both get a successor, or one is taken for a replay.
- A page that reconnects joins the room and loads nothing (`excused`), although
  `docs/04-websocket-events.md:370` and `docs/test-cases/test-cases-realtime-ws.md:18` let it refetch.
  Out-of-order loads, and stamps that are not newer, also leave it behind.
- `isComplete` rewrites a status that changed since it was read (`EditsKept`).
- Restored rows, concurrent creations and the end of a page that is not the whole list
  tie (`TiesExplained`).
- The total of a card's time that is announced last need not be the stored one: of two
  requests, the one that read first may emit last (`LoggedMatches` says that the stored
  total is announced, not when). An open page shows the older one until its next load.
- Promoting an item twice makes two subcards; replies to a deleted comment are never shown.
- Drag indices count the cards shown and are applied to all cards, so a hidden subcard
  before the position moves another card (`Clear`); a failed drag puts back the board
  as of the drag.
- A creation whose answer was lost hides the subcard until the next load.
- The rename of a document that was archived meanwhile is never recorded; mentioning
  oneself notifies oneself.
- Capturing a snapshot, editing labels and the archived boards are offered to roles the
  server refuses (`OfferedToAll`); copying an invitation's link copies the stored hash.

## Proofs

Checked with `tlapm M_proofs.tla`. They hold for every value of the constants that
satisfies the named ASSUMEs, which TLC evaluates for each instance. None of the
invariants below is inductive as it is stated: each proof strengthens it (the
strengthenings held on TLC's instances before they were proved) and has one lemma or
case per action.

- `DocumentManager_proofs`: `TypeCorrect`, `Durability` (`NoSilentLoss`),
  `CompleteCopies` and `LiveStateOnlyGrows`, for any documents, updates, sweeps and
  faults. A save answered late overwrites the row with bytes encoded earlier, and a
  load installs a row read earlier. `DurabilityInv` adds that those copies are complete
  (`CopiesComplete`), that nothing is merged while a fetched row waits to be installed
  (`LoadExclusive`), and that every copy holds only updates that were merged before
  (`Provenance`).
- `MessagePipeline_proofs`: `WorksAlone`, `PushesOnce`, `MailsOnce` and `NothingLost`, for
  any messages, handlers, deliveries and faults. `KeyInv` says who holds the Redis key
  of a message: the handler that works on it (`KeyHeld`), which alone still owes its push
  (`PushOwed`); a mail that was sent keeps its key (`SentKeepsKey`); and a key that is set
  belongs to a message that is done, stranded or at work (`KeyJustified`). `Accounted`
  follows step by step from that, because a handler touches no message but its own.
- `BoardPresence_proofs`: `ListedWhileAnyoneViews`, `RosterAgrees` and
  `ColoursStayDistinct`, for any sockets, users, palettes and hashes. `PresenceInv`: unless
  a race is noted, a board with active entries is listed, and whoever has counted none and
  is about to take it off the list is still right (`ListInv`); each stage of a connection
  says what is on the server of it and what its handlers may still do (`StageInv`), more
  precisely so unless its user is noted as blurred (`PlainInv`); a user without a second
  socket is the only one to announce themselves (`AloneInv`); what a page shows is what is
  on the board or on its way there (`ShownInv`, `ShownAreHere`); and a colour that has been
  chosen and not yet written is no viewer's (`ChosenApart`).
- `DocumentSync_proofs`: `TabsConverge` and `EditorsStayRight`, for any tabs, updates,
  connections and faults. `SyncInv`: the server has only met sockets that the tabs have
  opened (`NoneAhead`); every update that a tab has or will get is at the server, noted as
  missed or on its way up (`AllKnown`); a tab has what it has sent (`OwnSent`); a tab in the
  room has or will get what has been saved (`GetsSaved`); whoever a tab lists once
  everything has arrived is present (`ListsPresent`); and whoever is present is connected or
  went away during the join (`Lingering`).
- `BoardSystem_proofs`: the composition of the board's parts. A step of the board is a
  step of one part or leaves it alone, so each invariant is proved of its part and carried
  over.
  - `BoardCountRight` from `BellCountRight`, for any notifications and readers. `UnreadInv`
    has the bounds of the counter in terms of the bumps and decrements still due (`Bounds`)
    and, until requests overlap or Redis fails, the exact difference between the key and
    the rows at every step of the one request there is (`Exact`, `OneAtATime`).
  - `BoardFilesMatch` from `FilesInv`: every request about a file knows its row, whoever
    sent it, and deletes the object after the row is archived (`FileRequest`). Nothing is
    assumed of who confirms, or of bytes being there.
  - `BoardListenersRight` from `ListenersInv`: one listener per event and kind
    (`OneListener`), whose trace is not there yet (`TracePending`) or is owed
    (`TraceOwed`), whomever the row will name; whoever it still has to tell was assigned since the event (`Addressed`),
    and whoever was assigned all the while is told or still to be told (`NoticeOwed`), which
    rests on the assignees of the moment lying between the two (`Witnessed`).
  - `BoardWritesPermitted`, `BoardTiesExplained` and `BoardDropsLand` from `BoardInv`. What it
    adds is `Sound`, said of every request under way whatever it is for: its user has a
    role that its route allows (`Permitted`), it read an open board or came by a route
    that does not look (`LetIn`), and its rank lies strictly above the rows it was put
    below and strictly below the others, unless the container has changed since or these
    rows tie (`WellPlaced`). The last rests on lemmas about finite sets of integers
    (`Least`, `Greatest`, `Lowest`) and on what `GetRankBetween` returns (`NewRank`,
    `Between`). `RoutesOf` reads the tables of routes.
  - `BoardContentsKept` from `KeptInv`: `BoardInv` together with the time that is logged
    and the totals that requests still have to read or to announce (`TimeInv`), a promoted item that is done or has its tick
    owed by a request (`ChecklistInv`), one level of replies (`CommentsInv`), and values and
    columns that were validated by the request that carries them (`FieldInv`, `EditInv`).
  - `BoardScreensRight` from one invariant per screen. `PageInv`: every change of the board
    is shown or has a load on its way that brings it (`Fetched`), or its broadcast or its own
    handler is still to come (`Awaited`), and what the page ignores by its stamp has been
    fetched. `SectionInv`: the subcards shown are the stored ones that no request is about,
    and what the requests on their way show in advance (`Expected`); what each of them will
    find is known (`CallOk`), and after a failure one load sets everything right
    (`Reloading`). `CanvasInv`: at most one request moves an item the user has placed, to a
    rank that fits between its neighbours, which nobody moves meanwhile (`ClaimOk`).
- `CardTree_proofs`: `CompletionConsistent` for any overlapping requests, from
  `CompletionInv` (every pending write carries an `isComplete` that follows from the
  status it carries); `UnracedAcyclic` from `AcyclicInv`: until requests overlap there
  is one request, and what it has read is still so (`Rooted`); the lemma `EdgeToRoot`
  does the graph argument. `UnrestoredDepthTwo` from `DepthInv`: in addition a parent
  is always a row, and a card about to be attached still has no subcards (`Placed`).
- `Invitations_proofs`: of the membership alone, `UnracedOwnership` and
  `UnracedOwnersMakeOwners` from `MembershipInv`: until requests overlap, `ownerId` names an
  owner, there is one request, its actor is entitled to the step it is at (`Entitled`), and
  what it has read is still so, although joins run at any time (`Known`). `MembershipTypes`
  is its typing. `JoinsByInvitation` is the refinement - an acceptance is the `Join` of
  `WorkspaceMembership`, the other steps stutter - so `OwnershipWithInvitations` is the
  theorem before carried over. `OneOpenInvitation`, `SingleUse` and `AdminsInviteMembers`
  from `InvitationsInv`: what each call has read of its invitation (`CallsKnow`) and of its
  actor's role (`CallsAuthorised`) is still so, or the history records that another call
  touched it (`RivalsNoted`), and an invitation that admitted somebody is used up (`UsedUp`).
- `Sessions_proofs`: `SessionTypes`, `OneUsableToken`, `ReplaysAreSeen`, `SignOutIsFinal`,
  `OnePasswordHolds`, and `FamiliesStayEnded`, the refinement of `SessionLifecycle`. The
  invariant: until its family is noted as raced, a family has one token at most that is not
  revoked, expired or not (`OneUnrevoked`), and a refresh about to rotate is the only one of
  its family and rotates that token (`RotatesUnrevoked`, `RefreshesAlone`). Expiry plays no
  part in it, which is why tokens may expire one by one and during a refresh: a family that
  does not go on has no unrevoked unexpired token and no rotation to come, so no step
  revives it (`NothingRevives`, `FadesEnds`). A sign-out that has revoked leaves its family
  dead (`SignedOutDead`), and a reset token is spent before its password is written
  (`ResetsSpent`).

Assumptions that only the proofs need, each evaluated by TLC too: handlers,
notifications, readers and the rows of the board at the start are finite sets
(`HandlersFinite`, `BellIsFinite`, `FirstRowsInOrder`, which also says that the board is
in order then); the items of the canvas have ranks (`DragBounds`); the model values for
"no row", "no request" and "no colour" are not rows, requests or colours (`NoneIsNoRow`,
`NilIsNoRequest`, `NilIsNothing`); a workspace has a member (`SomeMember`: its owner); a
member's role is one of the four (`RolesAreRoles`: an enum of the schema); a tab may
connect once (`SyncBounds`).

The tables of routes and events are sets of pairs, and records are joined by
`Merged`, because the prover knows nothing of the `@@` and `:>` of the TLC module. Ranks are
multiples of 1/16: the bound `HasRoom` leaves out a drop between two neighbouring
multiples, in the services and on the canvas, where a LexoRank only gets longer.

Only model-checked are the liveness properties: `WaitersAnswered`, `DirtyIsSaved`,
`Recovers`, `CatchesUp` and `GhostsLeave`. They follow from fairness, whose rules need
ENABLED, which the prover does not handle. Every other property of a passing run is a
theorem. The consistency of the tables of routes and events is an assumption that TLC
evaluates, and the cases of it that the proofs need are derived from the tables.

## Plan

Modelled: everything in the inventory except its last rows. Proved: every invariant, action
property and refinement of the passing runs. What is left is to follow the code: a change
under `src/` is a change of the definition that `PROJECT.json` maps to its lines, and then
of the lemma named after that action.

## Not modelled

- Workspace renaming and archiving, slugs, user profiles and avatars, registration,
  e-mail verification and the Google callback: single rows, or checks of one request.
- Cursor pagination, search, sorting and filters of lists of cards, documents and
  activities: queries without state. (A cursor that names a row that moved skips rows, as
  `docs/test-cases/test-cases-board.md:795` notes.)
- Queue length limits of RabbitMQ (10 000 and 100 000 messages): beyond an instance that
  can be checked, and dropped inside the broker. The rate limiter's windows: a
  rejected message is a lost one.
- Eviction from one board's room by joining another's on the same socket: no page asks for it.
- Text: titles, comments, mails, Markdown, colours, sizes and MIME types.
- Concurrent typing in the editor's text area: `handleTextChange` replaces the whole
  text as one delete and one insert, so simultaneous edits are both kept; what the text
  then reads is Yjs's business.
- Health checks, the dead-letter monitor (read-only), activity partitions (a database
  function), configuration, seeds and migrations, and rendering.

Prisma, PostgreSQL, Redis, RabbitMQ, Socket.IO, S3 and Yjs are external: single
statements, single Redis calls and transactions are atomic, and a Yjs merge is set
union.
