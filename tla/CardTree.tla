------------------------------ MODULE CardTree ------------------------------
(***************************************************************************)
(* Cards, subcards and completion on one board: CardService over           *)
(* CardRepository.  A request reads the rows it checks, one await at a     *)
(* time, and then writes one row with a statement that repeats none of the *)
(* checks; nothing locks the rows in between.                              *)
(***************************************************************************)
EXTENDS Naturals

CONSTANTS
    Cards,      \* card ids, used or not
    NoCard,     \* parentCardId is null
    Requests,   \* HTTP requests that may be in progress at once
    None,       \* a request slot that is free
    Editable    \* bound: cards whose status a user may choose or change

Statuses == {"not_started", "active", "done", "closed"}

\* COMPLETE_STATUSES
IsCompleteFromStatus(s) == s \in {"done", "closed"}

\* A request that has done its reads carries the row it is about to write.
Steps == {"readChild", "count", "create", "attach", "detach", "archive",
          "unarchive", "delete", "write"}
Request == [step : Steps, card : Cards, parent : Cards \cup {NoCard},
            status : Statuses, complete : BOOLEAN]

ASSUME NoCardIsNoCard == NoCard \notin Cards
ASSUME NoneIsNoRequest == None \notin Request

VARIABLES
    created,  \* rows of the cards table
    parent,   \* parentCardId
    archived, \* cards with archivedAt set
    deleted,  \* cards with deletedAt set
    status,   \* status
    complete, \* isComplete
    request,  \* requests in progress
    history   \* history variable: what has happened that no check reckons with

rows == <<created, parent, archived, deleted, status, complete>>
vars == <<rows, request, history>>

TypeOK ==
    /\ created \in SUBSET Cards
    /\ parent \in [Cards -> Cards \cup {NoCard}]
    /\ archived \in SUBSET created
    /\ deleted \in SUBSET created
    /\ status \in [Cards -> Statuses]
    /\ complete \in [Cards -> BOOLEAN]
    /\ request \in [Requests -> Request \cup {None}]
    /\ history \in SUBSET {"overlap", "unarchive"}

Init ==
    /\ created = {}
    /\ parent = [c \in Cards |-> NoCard]
    /\ archived = {}
    /\ deleted = {}
    /\ status = [c \in Cards |-> "not_started"]
    /\ complete = [c \in Cards |-> FALSE]
    /\ request = [r \in Requests |-> None]
    /\ history = {}

-----------------------------------------------------------------------------
\* findActiveById finds the card.
Active == created \ (archived \cup deleted)

\* countSubcards, findSubcards: archived and deleted ones are not seen.
Subcards(c) == {k \in Active : parent[k] = c}

\* The request slot takes a new request.
Free(r) == request[r] = None

\* Requests overlap from now on if another one is in progress.
Begin(r, step, c, p, s, done) ==
    /\ request' = [request EXCEPT ![r] =
           [step |-> step, card |-> c, parent |-> p, status |-> s, complete |-> done]]
    /\ history' = IF \A q \in Requests : request[q] = None
                  THEN history ELSE history \cup {"overlap"}
    /\ UNCHANGED rows

Goto(r, step) ==
    /\ request' = [request EXCEPT ![r] =
           [step |-> step, card |-> request[r].card, parent |-> request[r].parent,
            status |-> request[r].status, complete |-> request[r].complete]]
    /\ UNCHANGED history

At(r, step) == request[r] # None /\ request[r].step = step

Release(r) == request' = [request EXCEPT ![r] = None]

End(r) == Release(r) /\ UNCHANGED history

-----------------------------------------------------------------------------
(* create, with or without a parentCardId, and createSubcard *)

\* An active card that is no subcard itself: otherwise not found, or MAX_DEPTH.
MayBeParent(p) == p \in Active /\ parent[p] = NoCard

ReadForCreate(r, c, p, s) ==
    /\ Free(r)
    /\ c \notin created
    /\ \A q \in Requests : request[q] # None => request[q].card # c
    /\ s = "not_started" \/ c \in Editable
    /\ p # NoCard => MayBeParent(p)
    /\ Begin(r, "create", c, p, s, IsCompleteFromStatus(s))

Create(r) ==
    /\ At(r, "create")
    /\ LET q == request[r] IN
       /\ created' = created \cup {q.card}
       /\ parent' = [parent EXCEPT ![q.card] = q.parent]
       /\ status' = [status EXCEPT ![q.card] = q.status]
       /\ complete' = [complete EXCEPT ![q.card] = q.complete]
    /\ End(r)
    /\ UNCHANGED <<archived, deleted>>

-----------------------------------------------------------------------------
(* attachSubcard: three reads, then the write *)

AttachReadParent(r, p, c) ==
    /\ Free(r)
    /\ MayBeParent(p)
    /\ Begin(r, "readChild", c, p, "not_started", FALSE)

\* Mutant: the CYCLE check is missing.
AttachReadChild_NoCycleCheck(r) ==
    /\ At(r, "readChild")
    /\ LET c == request[r].card IN
       /\ c \in Active /\ parent[c] = NoCard
       /\ Goto(r, "count")
    /\ UNCHANGED rows

AttachReadChild(r) ==
    /\ At(r, "readChild")
    /\ LET c == request[r].card IN
       /\ c \in Active /\ c # request[r].parent /\ parent[c] = NoCard
       /\ Goto(r, "count")
    /\ UNCHANGED rows

\* Mutant: the HAS_SUBCARDS check is missing.
AttachCount_Skipped(r) ==
    /\ At(r, "count")
    /\ Goto(r, "attach")
    /\ UNCHANGED rows

AttachCount(r) ==
    /\ At(r, "count")
    /\ Subcards(request[r].card) = {}
    /\ Goto(r, "attach")
    /\ UNCHANGED rows

\* EntityNotFound, CYCLE, ALREADY_HAS_PARENT or HAS_SUBCARDS.
AttachRefused(r) ==
    /\ LET c == request[r].card IN
       \/ At(r, "readChild") /\ (c \notin Active \/ c = request[r].parent \/ parent[c] # NoCard)
       \/ At(r, "count") /\ Subcards(c) # {}
    /\ End(r)
    /\ UNCHANGED rows

Attach(r) ==
    /\ At(r, "attach")
    /\ parent' = [parent EXCEPT ![request[r].card] = request[r].parent]
    /\ End(r)
    /\ UNCHANGED <<created, archived, deleted, status, complete>>

-----------------------------------------------------------------------------
(* detachSubcard, archive, unarchive, deletePermanently *)

ReadForDetach(r, c) ==
    /\ Free(r)
    /\ c \in Active /\ parent[c] # NoCard
    /\ Begin(r, "detach", c, NoCard, "not_started", FALSE)

Detach(r) ==
    /\ At(r, "detach")
    /\ parent' = [parent EXCEPT ![request[r].card] = NoCard]
    /\ End(r)
    /\ UNCHANGED <<created, archived, deleted, status, complete>>

ReadForArchive(r, c) ==
    /\ Free(r)
    /\ c \in Active
    /\ Begin(r, "archive", c, NoCard, "not_started", FALSE)

Archive(r) ==
    /\ At(r, "archive")
    /\ archived' = archived \cup {request[r].card}
    /\ End(r)
    /\ UNCHANGED <<created, parent, deleted, status, complete>>

\* findByIdIncludingArchived does not look at archivedAt or deletedAt.
ReadForUnarchive(r, c) ==
    /\ Free(r)
    /\ c \in created
    /\ Begin(r, "unarchive", c, NoCard, "not_started", FALSE)

Unarchive(r) ==
    /\ At(r, "unarchive")
    /\ archived' = archived \ {request[r].card}
    /\ Release(r)
    /\ history' = history \cup {"unarchive"}
    /\ UNCHANGED <<created, parent, deleted, status, complete>>

ReadForDelete(r, c) ==
    /\ Free(r)
    /\ c \in created \ deleted
    /\ Begin(r, "delete", c, NoCard, "not_started", FALSE)

DeletePermanently(r) ==
    /\ At(r, "delete")
    /\ deleted' = deleted \cup {request[r].card}
    /\ End(r)
    /\ UNCHANGED <<created, parent, archived, status, complete>>

-----------------------------------------------------------------------------
(* update and updateStatus: status and isComplete are written together *)

\* update with a status, or updateStatus to a status that differs.
ReadForStatus(r, c, s) ==
    /\ Free(r)
    /\ c \in Active \cap Editable
    /\ Begin(r, "write", c, NoCard, s, IsCompleteFromStatus(s))

\* Mutant: only reopening a done card changes its status.
StatusFor_NotClosed(done, s) ==
    IF done /\ s # "closed" THEN "done"
    ELSE IF ~done /\ s = "done" THEN "active"
    ELSE s

\* The status update derives when only isComplete is given.
StatusFor(done, s) ==
    IF done /\ s # "closed" THEN "done"
    ELSE IF ~done /\ s # "not_started" THEN "active"
    ELSE s

ReadForComplete(r, c, done) ==
    /\ Free(r)
    /\ c \in Active \cap Editable
    /\ Begin(r, "write", c, NoCard, StatusFor(done, status[c]), done)

WriteStatus(r) ==
    /\ At(r, "write")
    /\ status' = [status EXCEPT ![request[r].card] = request[r].status]
    /\ complete' = [complete EXCEPT ![request[r].card] = request[r].complete]
    /\ End(r)
    /\ UNCHANGED <<created, parent, archived, deleted>>

-----------------------------------------------------------------------------
Reads(r) ==
    \E c \in Cards :
        \/ \E p \in Cards \cup {NoCard}, s \in Statuses : ReadForCreate(r, c, p, s)
        \/ \E p \in Cards : AttachReadParent(r, p, c)
        \/ ReadForDetach(r, c)
        \/ ReadForArchive(r, c)
        \/ ReadForUnarchive(r, c)
        \/ ReadForDelete(r, c)
        \/ \E s \in Statuses : ReadForStatus(r, c, s)
        \/ \E done \in BOOLEAN : ReadForComplete(r, c, done)

Writes(r) ==
    \/ Create(r)
    \/ AttachReadChild(r) \/ AttachCount(r) \/ AttachRefused(r) \/ Attach(r)
    \/ Detach(r) \/ Archive(r) \/ Unarchive(r) \/ DeletePermanently(r)
    \/ WriteStatus(r)

Next == \E r \in Requests : Reads(r) \/ Writes(r)

Spec == Init /\ [][Next]_vars

-----------------------------------------------------------------------------
(* Properties *)

\* isComplete always says what the status says, whatever requests overlap:
\* update derives one from a status it has read, and writes both at once.
CompleteMatchesStatus ==
    \A c \in created : complete[c] = IsCompleteFromStatus(status[c])

\* No set of cards is closed under parentCardId.
NoCycle == \A S \in SUBSET Cards : S # {} => \E c \in S : parent[c] \notin S

\* An active card whose parent is active has no grandparent.
DepthTwo == \A c \in Active : parent[c] \in Active => parent[parent[c]] = NoCard

\* attachSubcard's checks for CYCLE, MAX_DEPTH, ALREADY_HAS_PARENT and
\* HAS_SUBCARDS keep parentCardId free of cycles, also across archiving,
\* deletion and restoration, as long as no two requests have overlapped: each
\* of two overlapping ones may see a card without a parent.
NoCycleUnraced == "overlap" \notin history => NoCycle

\* ... and the tree at two levels, as long as nothing was restored either:
\* only active subcards are counted, and unarchive counts nothing.
DepthTwoUnrestored == history = {} => DepthTwo
=============================================================================
