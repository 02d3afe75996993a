--------------------------- MODULE UnreadCounter ---------------------------
(***************************************************************************)
(* The unread-notification counter of one user: the Redis key that the     *)
(* consumer increments after it has stored a row, that NotificationService *)
(* decrements or deletes when rows are marked read, and that               *)
(* getUnreadCount prefers to the database.  Every await is a point where   *)
(* the other operations run.                                               *)
(***************************************************************************)
EXTENDS Integers, FiniteSets

CONSTANTS
    NoteIds,   \* the user's notifications
    Readers,   \* PATCH /notifications/:id/read requests that may overlap
    FreeSlot,      \* a request slot that is free
    MaxRedisFaults  \* bound: Redis calls that fail and keys that expire

Request == [note : NoteIds, pc : {"update", "get", "decr", "set"}]

ASSUME SlotIsNoRequest == FreeSlot \notin Request
ASSUME RedisFaultsAreNat == MaxRedisFaults \in Nat
ASSUME BellIsFinite == IsFiniteSet(NoteIds) /\ IsFiniteSet(Readers)

VARIABLES
    rows,    \* the notification rows
    present, \* the counter key exists
    value,   \* what it holds
    ttl,     \* it has an expiry
    bump,    \* progress of bumpUnreadCounter for each stored row
    request, \* progress of each markRead
    clearing,\* markAllRead has updated the rows and not deleted the key yet
    faults,  \* faults so far
    overlapped    \* history variable: two operations have overlapped

counter == <<present, value, ttl>>
unreadVars == <<rows, counter, bump, request, clearing, faults, overlapped>>

UnreadTypeOK ==
    /\ rows \in [NoteIds -> {"absent", "unread", "read", "purged"}]
    /\ present \in BOOLEAN
    /\ value \in Int
    /\ ttl \in BOOLEAN
    /\ ~present => value = 0 /\ ~ttl
    /\ bump \in [NoteIds -> {"none", "incr", "expire"}]
    /\ request \in [Readers -> Request \cup {FreeSlot}]
    /\ clearing \in BOOLEAN
    /\ faults \in Nat
    /\ overlapped \in BOOLEAN

UnreadInit ==
    /\ rows = [n \in NoteIds |-> "absent"]
    /\ present = FALSE
    /\ value = 0
    /\ ttl = FALSE
    /\ bump = [n \in NoteIds |-> "none"]
    /\ request = [r \in Readers |-> FreeSlot]
    /\ clearing = FALSE
    /\ faults = 0
    /\ overlapped = FALSE

\* countUnread
Unread == Cardinality({n \in NoteIds : rows[n] = "unread"})

\* getUnreadCount: the key, unless it is missing or negative.
UnreadShown == IF present /\ value >= 0 THEN value ELSE Unread

Active ==
    Cardinality({n \in NoteIds : bump[n] # "none"})
    + Cardinality({r \in Readers : request[r] # FreeSlot})
    + (IF clearing THEN 1 ELSE 0)

Fault == faults < MaxRedisFaults /\ faults' = faults + 1 /\ UNCHANGED overlapped

\* An operation starts, perhaps while another is in progress.
Starts == overlapped' = (overlapped \/ Active > 0)

\* INCR and DECR: a missing key counts as 0 and the new one has no expiry.
Add(n) == present' = TRUE /\ value' = value + n /\ UNCHANGED ttl

\* DEL, or expiry.
DropKey == present' = FALSE /\ value' = 0 /\ ttl' = FALSE

-----------------------------------------------------------------------------
(* The consumer, once per message *)

Store(n) ==
    /\ Starts
    /\ rows[n] = "absent"
    /\ rows' = [rows EXCEPT ![n] = "unread"]
    /\ bump' = [bump EXCEPT ![n] = "incr"]
    /\ UNCHANGED <<counter, request, clearing, faults>>

Incr(n) ==
    /\ bump[n] = "incr"
    /\ Add(1)
    /\ bump' = [bump EXCEPT ![n] = "expire"]
    /\ UNCHANGED <<rows, request, clearing, faults, overlapped>>

\* EXPIRE of a key that is gone does nothing.
Expire(n) ==
    /\ bump[n] = "expire"
    /\ ttl' = present
    /\ bump' = [bump EXCEPT ![n] = "none"]
    /\ UNCHANGED <<rows, present, value, request, clearing, faults, overlapped>>

\* Mutant: a bump that failed is tried again from its INCR.
BumpFails_Again(n) ==
    /\ bump[n] # "none"
    /\ Fault
    /\ bump' = [bump EXCEPT ![n] = "incr"]
    /\ UNCHANGED <<rows, counter, request, clearing>>

\* INCR or EXPIRE fails: logged, the other one is not tried.
BumpFails(n) ==
    /\ bump[n] # "none"
    /\ Fault
    /\ bump' = [bump EXCEPT ![n] = "none"]
    /\ UNCHANGED <<rows, counter, request, clearing>>

-----------------------------------------------------------------------------
(* NotificationService.markRead *)

\* findFirst: an absent row is a 404, and a row that is read changes nothing.
FindUnread(r, n) ==
    /\ Starts
    /\ request[r] = FreeSlot
    /\ rows[n] = "unread"
    /\ request' = [request EXCEPT ![r] = [note |-> n, pc |-> "update"]]
    /\ UNCHANGED <<rows, counter, bump, clearing, faults>>

ReadAt(r, pc) == request[r] # FreeSlot /\ request[r].pc = pc

\* The update does not test isRead again.  A row purged meanwhile makes it
\* throw, and the request ends.
Update(r) ==
    /\ ReadAt(r, "update")
    /\ LET n == request[r].note IN
       IF rows[n] = "purged"
       THEN /\ request' = [request EXCEPT ![r] = FreeSlot]
            /\ UNCHANGED rows
       ELSE /\ rows' = [rows EXCEPT ![n] = "read"]
            /\ request' = [request EXCEPT ![r].pc = "get"]
    /\ UNCHANGED <<counter, bump, clearing, faults, overlapped>>

\* A missing key reads as 0.
Get(r) ==
    /\ ReadAt(r, "get")
    /\ request' = [request EXCEPT ![r].pc = IF value > 0 THEN "decr" ELSE "set"]
    /\ UNCHANGED <<rows, counter, bump, clearing, faults, overlapped>>

Decr(r) ==
    /\ ReadAt(r, "decr")
    /\ Add(-1)
    /\ request' = [request EXCEPT ![r] = FreeSlot]
    /\ UNCHANGED <<rows, bump, clearing, faults, overlapped>>

SetZero(r) ==
    /\ ReadAt(r, "set")
    /\ present' = TRUE
    /\ value' = 0
    /\ ttl' = TRUE
    /\ request' = [request EXCEPT ![r] = FreeSlot]
    /\ UNCHANGED <<rows, bump, clearing, faults, overlapped>>

\* One of the Redis calls fails: logged, and the row stays read.
CacheFails(r) ==
    /\ request[r] # FreeSlot
    /\ request[r].pc # "update"
    /\ Fault
    /\ request' = [request EXCEPT ![r] = FreeSlot]
    /\ UNCHANGED <<rows, counter, bump, clearing>>

-----------------------------------------------------------------------------
(* NotificationService.markAllRead, and the clock *)

MarkAllRead ==
    /\ Starts
    /\ ~clearing
    /\ rows' = [n \in NoteIds |-> IF rows[n] = "unread" THEN "read" ELSE rows[n]]
    /\ clearing' = TRUE
    /\ UNCHANGED <<counter, bump, request, faults>>

\* Mutant: markAllRead leaves the key.
Del_Kept ==
    /\ clearing
    /\ clearing' = FALSE
    /\ UNCHANGED <<rows, counter, bump, request, faults, overlapped>>

Del ==
    /\ clearing
    /\ DropKey
    /\ clearing' = FALSE
    /\ UNCHANGED <<rows, bump, request, faults, overlapped>>

DelFails ==
    /\ clearing
    /\ Fault
    /\ clearing' = FALSE
    /\ UNCHANGED <<rows, counter, bump, request>>

\* NotificationCleanupTask: read rows of any age the clock may have given them.
Purge(n) ==
    /\ rows[n] = "read"
    /\ rows' = [rows EXCEPT ![n] = "purged"]
    /\ UNCHANGED <<counter, bump, request, clearing, faults, overlapped>>

KeyExpires ==
    /\ present /\ ttl
    /\ Fault
    /\ DropKey
    /\ UNCHANGED <<rows, bump, request, clearing>>

-----------------------------------------------------------------------------
UnreadNext ==
    \/ \E n \in NoteIds : Store(n) \/ Incr(n) \/ Expire(n) \/ BumpFails(n) \/ Purge(n)
    \/ \E r \in Readers :
        \/ \E n \in NoteIds : FindUnread(r, n)
        \/ Update(r) \/ Get(r) \/ Decr(r) \/ SetZero(r) \/ CacheFails(r)
    \/ MarkAllRead \/ Del \/ DelFails
    \/ KeyExpires

UnreadSpec == UnreadInit /\ [][UnreadNext]_unreadVars

-----------------------------------------------------------------------------
(* Properties *)

\* Whenever no operation is in progress, getUnreadCount returns what
\* countUnread would, as long as no two operations have overlapped, no Redis
\* call has failed and no key has expired.
CountMatchesUnraced == ~overlapped /\ faults = 0 /\ Active = 0 => UnreadShown = Unread

\* However the operations interleave and whatever fails, the counter never
\* exceeds the number of notifications received, and it is never further below
\* zero than markRead requests may overlap: each decrements only after its GET
\* has seen a positive count.
DriftBounded ==
    /\ value <= Cardinality({n \in NoteIds : rows[n] # "absent"})
    /\ value >= -Cardinality(Readers)

\* The cached count of getUnreadCount: exact while operations do not overlap
\* and nothing fails, and within bounds even then.
CountRight == CountMatchesUnraced /\ DriftBounded

=============================================================================
