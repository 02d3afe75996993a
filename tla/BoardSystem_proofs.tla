------------------------ MODULE BoardSystem_proofs ------------------------
(***************************************************************************)
(* What the parts of the board system keep holds of the whole.            *)
(***************************************************************************)
EXTENDS BoardSystem, SequenceTheorems, FiniteSetTheorems, WellFoundedInduction, TLAPS

-----------------------------------------------------------------------------
(* The bell: the cached count is exact while operations do not overlap and
   nothing fails, and within bounds in any case. *)

\* The rows and requests that count.
UnreadSet == {n \in NoteIds : rows[n] = "unread"}
Received  == {n \in NoteIds : rows[n] # "absent"}
Due       == {n \in NoteIds : bump[n] = "incr"}
Bumping   == {n \in NoteIds : bump[n] # "none"}
Reading   == {r \in Readers : request[r] # FreeSlot}
Taking    == {r \in Readers : ReadAt(r, "decr")}

\* A row is stored before it is counted.
CountedStored == Bumping \subseteq Received

\* Each INCR still due is for a row the count does not hold yet, and each DECR
\* still due was decided by a positive count.
Bounds ==
    /\ value + Cardinality(Due) <= Cardinality(Received)
    /\ value - Cardinality(Taking) >= -Cardinality(Readers)

\* Until two operations overlap at most one is in progress.
OneAtATime ==
    ~overlapped =>
        /\ \A m, n \in Bumping : m = n
        /\ \A r, s \in Reading : r = s
        /\ ~(Bumping # {} /\ Reading # {})
        /\ clearing => Bumping = {} /\ Reading = {}

\* By how much the operation in progress has the count differ from the rows.
Off ==
    IF Due # {} THEN -1
    ELSE IF \E r \in Readers : ReadAt(r, "get") \/ ReadAt(r, "decr") THEN 1 ELSE 0

Exact ==
    ~overlapped /\ faults = 0 =>
        /\ IF clearing THEN Unread = 0 ELSE value = Unread + Off
        /\ \A r \in Readers : ReadAt(r, "update") => rows[request[r].note] = "unread"
        /\ \A r \in Readers : ~ReadAt(r, "set")

UnreadInv == UnreadTypeOK /\ CountedStored /\ Bounds /\ OneAtATime /\ Exact

-----------------------------------------------------------------------------
(* Counting, and the moves of a request *)

LEMMA Counting ==
  ASSUME NEW U, IsFiniteSet(U)
  PROVE  /\ Cardinality(U) \in Nat
         /\ \A S \in SUBSET U :
               /\ Cardinality(S) \in Nat
               /\ Cardinality(S) = 0 <=> S = {}
               /\ \A T \in SUBSET S : Cardinality(T) <= Cardinality(S)
               /\ \A x : x \notin S => Cardinality(S \cup {x}) = Cardinality(S) + 1
               /\ \A x \in S : Cardinality(S \ {x}) = Cardinality(S) - 1
<1>1. Cardinality(U) \in Nat
  BY FS_CardinalityType
<1>2. ASSUME NEW S \in SUBSET U
      PROVE  /\ Cardinality(S) \in Nat
             /\ Cardinality(S) = 0 <=> S = {}
             /\ \A T \in SUBSET S : Cardinality(T) <= Cardinality(S)
             /\ \A x : x \notin S => Cardinality(S \cup {x}) = Cardinality(S) + 1
             /\ \A x \in S : Cardinality(S \ {x}) = Cardinality(S) - 1
  <2>1. IsFiniteSet(S)
    BY FS_Subset
  <2>2. Cardinality(S) \in Nat
    BY <2>1, FS_CardinalityType
  <2>3. Cardinality(S) = 0 <=> S = {}
    BY <2>1, FS_EmptySet
  <2>4. \A T \in SUBSET S : Cardinality(T) <= Cardinality(S)
    BY <2>1, FS_Subset
  <2>5. \A x : x \notin S => Cardinality(S \cup {x}) = Cardinality(S) + 1
    BY <2>1, FS_AddElement
  <2>6. \A x \in S : Cardinality(S \ {x}) = Cardinality(S) - 1
    BY <2>1, FS_RemoveElement
  <2>. QED
    BY <2>2, <2>3, <2>4, <2>5, <2>6
<1>. QED
  BY <1>1, <1>2

\* What is counted, in any state: numbers.
LEMMA Counts ==
  /\ Cardinality(UnreadSet) \in Nat /\ Cardinality(Received) \in Nat
  /\ Cardinality(Due) \in Nat /\ Cardinality(Taking) \in Nat /\ Cardinality(Readers) \in Nat
  /\ Cardinality(Taking) <= Cardinality(Readers)
  /\ Unread = Cardinality(UnreadSet)
  /\ Due \subseteq Bumping /\ Taking \subseteq Reading
<1>1. /\ UnreadSet \in SUBSET NoteIds /\ Received \in SUBSET NoteIds /\ Due \in SUBSET NoteIds
      /\ Taking \in SUBSET Readers /\ Readers \in SUBSET Readers
  BY DEF UnreadSet, Received, Due, Taking
<1>2. Due \subseteq Bumping /\ Taking \subseteq Reading /\ Unread = Cardinality(UnreadSet)
  BY DEF Due, Bumping, Taking, Reading, ReadAt, Unread, UnreadSet
<1>3. /\ Cardinality(UnreadSet) \in Nat /\ Cardinality(Received) \in Nat
      /\ Cardinality(Due) \in Nat
  BY <1>1, BellIsFinite, Counting
<1>4. /\ Cardinality(Taking) \in Nat /\ Cardinality(Readers) \in Nat
      /\ Cardinality(Taking) <= Cardinality(Readers)
  BY <1>1, BellIsFinite, Counting
<1>. QED
  BY <1>2, <1>3, <1>4

\* No operation is in progress.
LEMMA IdleIs ==
  ASSUME UnreadTypeOK
  PROVE  /\ Active \in Nat
         /\ Active = 0 <=> Bumping = {} /\ Reading = {} /\ ~clearing
<1>1. Bumping \in SUBSET NoteIds /\ Reading \in SUBSET Readers
  BY DEF Bumping, Reading
<1>2. Cardinality(Bumping) \in Nat /\ (Cardinality(Bumping) = 0 <=> Bumping = {})
  BY <1>1, BellIsFinite, Counting
<1>3. Cardinality(Reading) \in Nat /\ (Cardinality(Reading) = 0 <=> Reading = {})
  BY <1>1, BellIsFinite, Counting
<1>4. Active = Cardinality(Bumping) + Cardinality(Reading) + (IF clearing THEN 1 ELSE 0)
  BY DEF Active, Bumping, Reading
<1>5. clearing \in BOOLEAN
  BY DEF UnreadTypeOK
<1>. QED
  BY <1>2, <1>3, <1>4, <1>5

LEMMA RequestParts ==
  ASSUME UnreadTypeOK, NEW r \in Readers, request[r] # FreeSlot
  PROVE  /\ request[r] \in Request /\ request[r].note \in NoteIds
         /\ request[r].pc \in {"update", "get", "decr", "set"}
BY DEF UnreadTypeOK, Request

\* A request goes on to its next call.
LEMMA PcMoves ==
  ASSUME UnreadTypeOK, NEW r \in Readers, request[r] # FreeSlot,
         NEW p \in {"update", "get", "decr", "set"}, request' = [request EXCEPT ![r].pc = p]
  PROVE  /\ request' \in [Readers -> Request \cup {FreeSlot}]
         /\ request'[r] # FreeSlot /\ request'[r].pc = p /\ request'[r].note = request[r].note
         /\ \A s \in Readers \ {r} : request'[s] = request[s]
         /\ Reading' = Reading
<1>. DEFINE q == [request[r] EXCEPT !.pc = p]
<1>1. request[r] \in Request /\ request \in [Readers -> Request \cup {FreeSlot}]
  BY RequestParts DEF UnreadTypeOK
<1>2. q \in Request /\ q.pc = p /\ q.note = request[r].note
  BY <1>1 DEF Request
<1>3. q # FreeSlot
  BY <1>2, SlotIsNoRequest
<1>4. request' = [request EXCEPT ![r] = q]
  BY <1>1
<1>. HIDE DEF q
<1>5. /\ request' \in [Readers -> Request \cup {FreeSlot}] /\ request'[r] = q
      /\ \A s \in Readers \ {r} : request'[s] = request[s]
  BY <1>1, <1>2, <1>4
<1>. QED
  BY <1>2, <1>3, <1>5 DEF Reading

\* A request starts or ends.
LEMMA SlotMoves ==
  ASSUME UnreadTypeOK, NEW r \in Readers, NEW q \in Request \cup {FreeSlot},
         request' = [request EXCEPT ![r] = q]
  PROVE  /\ request' \in [Readers -> Request \cup {FreeSlot}]
         /\ request'[r] = q
         /\ \A s \in Readers \ {r} : request'[s] = request[s]
         /\ q = FreeSlot => Reading' = Reading \ {r}
BY DEF UnreadTypeOK, Reading

-----------------------------------------------------------------------------
(* Types *)

LEMMA UnreadTypes ==
  ASSUME UnreadTypeOK, [UnreadNext]_unreadVars
  PROVE  UnreadTypeOK'
<1>1. ASSUME NEW n \in NoteIds, Store(n) \/ Purge(n) PROVE UnreadTypeOK'
  <2>1. overlapped' \in BOOLEAN
    BY <1>1 DEF Store, Purge, Starts, UnreadTypeOK
  <2>2. /\ rows' \in [NoteIds -> {"absent", "unread", "read", "purged"}]
        /\ bump' \in [NoteIds -> {"none", "incr", "expire"}]
    BY <1>1 DEF Store, Purge, UnreadTypeOK
  <2>3. UNCHANGED <<present, value, ttl, request, clearing, faults>>
    BY <1>1 DEF Store, Purge, counter
  <2>. QED
    BY <2>1, <2>2, <2>3 DEF UnreadTypeOK
<1>2. ASSUME NEW n \in NoteIds, Incr(n) \/ Expire(n) \/ BumpFails(n) PROVE UnreadTypeOK'
  <2>1. bump' \in [NoteIds -> {"none", "incr", "expire"}]
    BY <1>2 DEF Incr, Expire, BumpFails, UnreadTypeOK
  <2>2. UNCHANGED <<rows, request, clearing, overlapped>> /\ faults' \in Nat
    BY <1>2 DEF Incr, Expire, BumpFails, Fault, UnreadTypeOK
  <2>3. present' \in BOOLEAN /\ ttl' \in BOOLEAN
    BY <1>2 DEF Incr, Expire, BumpFails, Add, counter, UnreadTypeOK
  <2>4. value' \in Int
    BY <1>2 DEF Incr, Expire, BumpFails, Add, counter, UnreadTypeOK
  <2>5. ~present' => value' = 0 /\ ~ttl'
    BY <1>2 DEF Incr, Expire, BumpFails, Add, counter, UnreadTypeOK
  <2>. QED
    BY <2>1, <2>2, <2>3, <2>4, <2>5 DEF UnreadTypeOK
<1>3. ASSUME NEW r \in Readers, NEW n \in NoteIds, FindUnread(r, n) PROVE UnreadTypeOK'
  <2>1. [note |-> n, pc |-> "update"] \in Request
    BY DEF Request
  <2>2. request' \in [Readers -> Request \cup {FreeSlot}]
    BY <1>3, <2>1, SlotMoves DEF FindUnread
  <2>3. UNCHANGED <<rows, present, value, ttl, bump, clearing, faults>> /\ overlapped' \in BOOLEAN
    BY <1>3 DEF FindUnread, Starts, counter, UnreadTypeOK
  <2>. QED
    BY <2>2, <2>3 DEF UnreadTypeOK
<1>4. ASSUME NEW r \in Readers, Update(r) \/ Get(r) PROVE UnreadTypeOK'
  <2>1. request[r] # FreeSlot
    BY <1>4 DEF Update, Get, ReadAt
  <2>2. \/ request' = [request EXCEPT ![r] = FreeSlot]
        \/ \E p \in {"get", "decr", "set"} : request' = [request EXCEPT ![r].pc = p]
    BY <1>4 DEF Update, Get
  <2>3. request' \in [Readers -> Request \cup {FreeSlot}]
    BY <2>1, <2>2, PcMoves, SlotMoves
  <2>4. rows' \in [NoteIds -> {"absent", "unread", "read", "purged"}]
    BY <1>4 DEF Update, Get, UnreadTypeOK
  <2>5. UNCHANGED <<present, value, ttl, bump, clearing, faults, overlapped>>
    BY <1>4 DEF Update, Get, counter
  <2>. QED
    BY <2>3, <2>4, <2>5 DEF UnreadTypeOK
<1>5. ASSUME NEW r \in Readers, Decr(r) \/ SetZero(r) \/ CacheFails(r) PROVE UnreadTypeOK'
  <2>1. request' \in [Readers -> Request \cup {FreeSlot}]
    BY <1>5, SlotMoves DEF Decr, SetZero, CacheFails
  <2>2. UNCHANGED <<rows, bump, clearing, overlapped>> /\ faults' \in Nat
    BY <1>5 DEF Decr, SetZero, CacheFails, Fault, UnreadTypeOK
  <2>3. present' \in BOOLEAN /\ ttl' \in BOOLEAN
    BY <1>5 DEF Decr, SetZero, CacheFails, Add, counter, UnreadTypeOK
  <2>4. value' \in Int
    BY <1>5 DEF Decr, SetZero, CacheFails, Add, counter, UnreadTypeOK
  <2>5. ~present' => value' = 0 /\ ~ttl'
    BY <1>5 DEF Decr, SetZero, CacheFails, Add, counter, UnreadTypeOK
  <2>. QED
    BY <2>1, <2>2, <2>3, <2>4, <2>5 DEF UnreadTypeOK
<1>6. CASE MarkAllRead \/ Del \/ DelFails \/ KeyExpires
  <2>1. rows' \in [NoteIds -> {"absent", "unread", "read", "purged"}]
    BY <1>6 DEF MarkAllRead, Del, DelFails, KeyExpires, UnreadTypeOK
  <2>2. /\ UNCHANGED <<bump, request>> /\ faults' \in Nat
        /\ clearing' \in BOOLEAN /\ overlapped' \in BOOLEAN
    <3>1. UNCHANGED <<bump, request>> /\ faults' \in Nat
      BY <1>6 DEF MarkAllRead, Del, DelFails, KeyExpires, Fault, UnreadTypeOK
    <3>2. clearing' \in BOOLEAN /\ overlapped' \in BOOLEAN
      BY <1>6, Zenon DEF MarkAllRead, Del, DelFails, KeyExpires, Fault, Starts, UnreadTypeOK
    <3>. QED
      BY <3>1, <3>2
  <2>3. present' \in BOOLEAN /\ ttl' \in BOOLEAN
    BY <1>6 DEF MarkAllRead, Del, DelFails, KeyExpires, DropKey, counter, UnreadTypeOK
  <2>4. value' \in Int
    BY <1>6 DEF MarkAllRead, Del, DelFails, KeyExpires, DropKey, counter, UnreadTypeOK
  <2>5. ~present' => value' = 0 /\ ~ttl'
    BY <1>6 DEF MarkAllRead, Del, DelFails, KeyExpires, DropKey, counter, UnreadTypeOK
  <2>. QED
    BY <2>1, <2>2, <2>3, <2>4, <2>5 DEF UnreadTypeOK
<1>7. CASE UNCHANGED unreadVars
  BY <1>7 DEF unreadVars, counter, UnreadTypeOK
<1>. QED
  BY <1>1, <1>2, <1>3, <1>4, <1>5, <1>6, <1>7 DEF UnreadNext

-----------------------------------------------------------------------------
(* One operation at a time *)

\* An operation that starts unnoticed starts alone.
LEMMA StartsAlone ==
  ASSUME UnreadTypeOK, Starts, ~overlapped'
  PROVE  ~overlapped /\ Bumping = {} /\ Reading = {} /\ ~clearing
<1>1. ~overlapped /\ ~(Active > 0)
  BY DEF Starts
<1>. QED
  BY <1>1, IdleIs

\* The other steps go on with an operation or end it.
LEMMA NothingStarts ==
  ASSUME UnreadTypeOK,
         \/ \E n \in NoteIds : Incr(n) \/ Expire(n) \/ BumpFails(n) \/ Purge(n)
         \/ \E r \in Readers : Update(r) \/ Get(r) \/ Decr(r) \/ SetZero(r) \/ CacheFails(r)
         \/ Del \/ DelFails \/ KeyExpires
         \/ UNCHANGED unreadVars
  PROVE  /\ overlapped' = overlapped
         /\ Bumping' \subseteq Bumping /\ Reading' \subseteq Reading
         /\ clearing' => clearing
<1>1. ASSUME NEW n \in NoteIds, Incr(n) \/ Expire(n) \/ BumpFails(n) \/ Purge(n)
      PROVE  /\ UNCHANGED <<overlapped, clearing, request>>
             /\ Bumping' \subseteq Bumping
  <2>1. UNCHANGED <<overlapped, clearing, request>>
    BY <1>1 DEF Incr, Expire, BumpFails, Purge, Fault
  <2>2. Bumping' \subseteq Bumping
    BY <1>1 DEF Incr, Expire, BumpFails, Purge, Bumping, UnreadTypeOK
  <2>. QED
    BY <2>1, <2>2
<1>2. ASSUME NEW r \in Readers, Update(r) \/ Get(r) \/ Decr(r) \/ SetZero(r) \/ CacheFails(r)
      PROVE  UNCHANGED <<overlapped, clearing, bump>> /\ Reading' \subseteq Reading
  <2>1. UNCHANGED <<overlapped, clearing, bump>> /\ request[r] # FreeSlot
    BY <1>2 DEF Update, Get, Decr, SetZero, CacheFails, Fault, ReadAt
  <2>2. \/ request' = [request EXCEPT ![r] = FreeSlot]
        \/ \E p \in {"get", "decr", "set"} : request' = [request EXCEPT ![r].pc = p]
    BY <1>2 DEF Update, Get, Decr, SetZero, CacheFails
  <2>3. Reading' \subseteq Reading
    BY <2>1, <2>2, PcMoves, SlotMoves
  <2>. QED
    BY <2>1, <2>3
<1>3. CASE Del \/ DelFails \/ KeyExpires \/ UNCHANGED unreadVars
  <2>1. UNCHANGED <<overlapped, bump, request>>
    BY <1>3 DEF Del, DelFails, KeyExpires, Fault, unreadVars
  <2>2. clearing' => clearing
    BY <1>3 DEF Del, DelFails, KeyExpires, unreadVars
  <2>. QED
    BY <2>1, <2>2 DEF Bumping, Reading
<1>. QED
  BY <1>1, <1>2, <1>3 DEF Bumping, Reading

\* The steps that start one.
LEMMA OneStarts ==
  ASSUME UnreadTypeOK
  PROVE  /\ \A n \in NoteIds : Store(n) =>
               Starts /\ Bumping' = Bumping \cup {n} /\ Reading' = Reading /\ clearing' = clearing
         /\ \A r \in Readers, n \in NoteIds : FindUnread(r, n) =>
               /\ Starts /\ Bumping' = Bumping /\ Reading' = Reading \cup {r}
               /\ clearing' = clearing
         /\ MarkAllRead => Starts /\ Bumping' = Bumping /\ Reading' = Reading /\ clearing'
<1>1. ASSUME NEW n \in NoteIds, Store(n)
      PROVE  Starts /\ Bumping' = Bumping \cup {n} /\ Reading' = Reading /\ clearing' = clearing
  BY <1>1 DEF Store, Bumping, Reading, UnreadTypeOK
<1>2. ASSUME NEW r \in Readers, NEW n \in NoteIds, FindUnread(r, n)
      PROVE  /\ Starts /\ Bumping' = Bumping /\ Reading' = Reading \cup {r}
             /\ clearing' = clearing
  <2>1. [note |-> n, pc |-> "update"] # FreeSlot
    BY SlotIsNoRequest DEF Request
  <2>. QED
    BY <1>2, <2>1 DEF FindUnread, Bumping, Reading, UnreadTypeOK
<1>3. ASSUME MarkAllRead
      PROVE  Starts /\ Bumping' = Bumping /\ Reading' = Reading /\ clearing'
  BY <1>3 DEF MarkAllRead, Bumping, Reading
<1>. QED
  BY <1>1, <1>2, <1>3

LEMMA OneStep ==
  ASSUME UnreadTypeOK, OneAtATime, [UnreadNext]_unreadVars
  PROVE  OneAtATime'
<1>1. CASE Starts /\ ~overlapped'
  <2>1. Bumping = {} /\ Reading = {} /\ ~clearing
    BY <1>1, StartsAlone
  <2>2. CASE \E n \in NoteIds : Store(n)
    BY <2>1, <2>2, OneStarts DEF OneAtATime
  <2>3. CASE \E r \in Readers, n \in NoteIds : FindUnread(r, n)
    BY <2>1, <2>3, OneStarts DEF OneAtATime
  <2>4. CASE MarkAllRead
    BY <2>1, <2>4, OneStarts DEF OneAtATime
  <2>5. CASE /\ overlapped' = overlapped
             /\ Bumping' \subseteq Bumping /\ Reading' \subseteq Reading
             /\ clearing' => clearing
    BY <2>1, <2>5 DEF OneAtATime
  <2>. QED
    BY <2>2, <2>3, <2>4, <2>5, NothingStarts DEF UnreadNext
<1>2. CASE overlapped'
  BY <1>2 DEF OneAtATime
<1>3. CASE ~Starts
  <2>1. /\ overlapped' = overlapped
        /\ Bumping' \subseteq Bumping /\ Reading' \subseteq Reading
        /\ clearing' => clearing
    BY <1>3, OneStarts, NothingStarts DEF UnreadNext
  <2>2. ASSUME ~overlapped' PROVE ~overlapped
    BY <2>1, <2>2
  <2>. QED
    BY <2>1, <2>2 DEF OneAtATime
<1>. QED
  BY <1>1, <1>2, <1>3

\* Rows are stored once and keep being received.
LEMMA StoredStep ==
  ASSUME UnreadTypeOK, CountedStored, [UnreadNext]_unreadVars
  PROVE  CountedStored' /\ Received \subseteq Received'
<1>1. Received \subseteq Received'
  BY DEF UnreadNext, Store, Incr, Expire, BumpFails, Purge, FindUnread, Update, Get, Decr,
         SetZero, CacheFails, MarkAllRead, Del, DelFails, KeyExpires, unreadVars, Received,
         UnreadTypeOK
<1>2. ASSUME NEW n \in NoteIds, Store(n) PROVE n \in Received'
  BY <1>2 DEF Store, Received, UnreadTypeOK
<1>3. Bumping' \subseteq Bumping \/ \E n \in NoteIds : Store(n) /\ Bumping' = Bumping \cup {n}
  BY OneStarts, NothingStarts DEF UnreadNext
<1>. QED
  BY <1>1, <1>2, <1>3 DEF CountedStored

-----------------------------------------------------------------------------
(* The bounds of the count *)

\* A step that owes no more and leaves the count, or sets it to zero.
LEMMA BoundsKept ==
  ASSUME UnreadTypeOK, CountedStored, Bounds, Due' \subseteq Due, Received \subseteq Received',
         Taking' \subseteq Taking, value' = value \/ value' = 0
  PROVE  Bounds'
<1>1. /\ Due \in SUBSET NoteIds /\ Due \in SUBSET Received /\ Received \in SUBSET NoteIds
      /\ Received' \in SUBSET NoteIds /\ Taking \in SUBSET Readers
  BY Counts DEF Due, Received, Taking, CountedStored
<1>2. /\ Cardinality(Due') <= Cardinality(Due)
      /\ Cardinality(Received) <= Cardinality(Received')
      /\ Cardinality(Due) <= Cardinality(Received)
      /\ Cardinality(Due') \in Nat /\ Cardinality(Received') \in Nat
  BY <1>1, BellIsFinite, Counting
<1>3. /\ Cardinality(Taking') <= Cardinality(Taking)
      /\ Cardinality(Taking') \in Nat
  BY <1>1, BellIsFinite, Counting
<1>4. value \in Int
  BY DEF UnreadTypeOK
<1>. QED
  BY <1>2, <1>3, <1>4, Counts DEF Bounds

LEMMA BoundsStep ==
  ASSUME UnreadTypeOK, CountedStored, Bounds, [UnreadNext]_unreadVars
  PROVE  Bounds'
<1>. USE DEF UnreadTypeOK
<1>0. /\ Due \in SUBSET NoteIds /\ Received \in SUBSET NoteIds /\ Taking \in SUBSET Readers
      /\ Taking' \in SUBSET Readers /\ value \in Int /\ Received \subseteq Received'
  BY StoredStep DEF Due, Received, Taking
<1>1. ASSUME NEW n \in NoteIds, Store(n) PROVE Bounds'
  <2>1. n \notin Received /\ n \notin Due
    BY <1>1, Counts DEF Store, Received, CountedStored
  <2>2. /\ Received' = Received \cup {n} /\ Due' = Due \cup {n} /\ Taking' = Taking
        /\ value' = value
    BY <1>1 DEF Store, Received, Due, Taking, ReadAt, counter
  <2>3. /\ Cardinality(Received') = Cardinality(Received) + 1
        /\ Cardinality(Due') = Cardinality(Due) + 1
    BY <1>0, <2>1, <2>2, BellIsFinite, Counting
  <2>. QED
    BY <1>0, <2>2, <2>3, Counts DEF Bounds
<1>2. ASSUME NEW n \in NoteIds, Incr(n) PROVE Bounds'
  <2>1. /\ n \in Due /\ Received' = Received /\ Due' = Due \ {n} /\ Taking' = Taking
    BY <1>2 DEF Incr, Received, Due, Taking, ReadAt
  <2>2. Cardinality(Due') = Cardinality(Due) - 1 /\ value' = value + 1
    BY <1>0, <1>2, <2>1, BellIsFinite, Counting DEF Incr, Add
  <2>. QED
    BY <1>0, <2>1, <2>2, Counts DEF Bounds
<1>3. ASSUME NEW n \in NoteIds, Expire(n) \/ BumpFails(n) \/ Purge(n) PROVE Bounds'
  <2>1. Due' \subseteq Due /\ Taking' \subseteq Taking /\ value' = value
    BY <1>3 DEF Expire, BumpFails, Purge, Due, Taking, ReadAt, counter
  <2>. QED
    BY <1>0, <2>1, BoundsKept
<1>4. ASSUME NEW r \in Readers, NEW n \in NoteIds, FindUnread(r, n) PROVE Bounds'
  <2>1. Due' \subseteq Due /\ value' = value
    BY <1>4 DEF FindUnread, Due, counter
  <2>2. Taking' \subseteq Taking
    BY <1>4 DEF FindUnread, Taking, ReadAt
  <2>. QED
    BY <1>0, <2>1, <2>2, BoundsKept
<1>5. ASSUME NEW r \in Readers, Update(r) PROVE Bounds'
  <2>1. Due' \subseteq Due /\ value' = value /\ request[r] # FreeSlot
    BY <1>5 DEF Update, Due, ReadAt, counter
  <2>2. \/ request' = [request EXCEPT ![r] = FreeSlot]
        \/ request' = [request EXCEPT ![r].pc = "get"]
    BY <1>5 DEF Update
  <2>3. Taking' \subseteq Taking
    BY <2>1, <2>2, PcMoves, SlotMoves DEF Taking, ReadAt
  <2>. QED
    BY <1>0, <2>1, <2>3, BoundsKept
<1>6. ASSUME NEW r \in Readers, Get(r) PROVE Bounds'
  <2>1. Due' = Due /\ Received' = Received /\ value' = value /\ request[r] # FreeSlot
    BY <1>6 DEF Get, Due, Received, ReadAt, counter
  <2>2. request' = [request EXCEPT ![r].pc = IF value > 0 THEN "decr" ELSE "set"]
    BY <1>6 DEF Get
  <2>3. CASE value > 0
    <3>1. Cardinality(Taking') \in Nat /\ Cardinality(Taking') <= Cardinality(Readers)
      BY <1>0, BellIsFinite, Counting
    <3>. QED
      BY <1>0, <2>1, <2>3, <3>1, Counts DEF Bounds
  <2>4. CASE ~(value > 0)
    <3>1. Taking' \subseteq Taking
      BY <2>1, <2>2, <2>4, PcMoves DEF Taking, ReadAt
    <3>. QED
      BY <1>0, <2>1, <3>1, BoundsKept
  <2>. QED
    BY <2>3, <2>4
<1>7. ASSUME NEW r \in Readers, Decr(r) PROVE Bounds'
  <2>1. Due' = Due /\ Received' = Received /\ value' = value - 1 /\ r \in Taking
    BY <1>7 DEF Decr, Add, Due, Received, Taking
  <2>2. Taking' = Taking \ {r}
    BY <1>7 DEF Decr, Taking, ReadAt
  <2>3. Cardinality(Taking') = Cardinality(Taking) - 1
    BY <1>0, <2>1, <2>2, BellIsFinite, Counting
  <2>. QED
    BY <1>0, <2>1, <2>3, Counts DEF Bounds
<1>8. ASSUME NEW r \in Readers, SetZero(r) \/ CacheFails(r) PROVE Bounds'
  <2>1. Due' \subseteq Due /\ (value' = value \/ value' = 0)
    BY <1>8 DEF SetZero, CacheFails, Due, counter
  <2>2. Taking' \subseteq Taking
    BY <1>8 DEF SetZero, CacheFails, Taking, ReadAt
  <2>. QED
    BY <1>0, <2>1, <2>2, BoundsKept
<1>9. CASE MarkAllRead \/ Del \/ DelFails \/ KeyExpires \/ UNCHANGED unreadVars
  <2>1. /\ Due' \subseteq Due /\ Taking' \subseteq Taking /\ (value' = value \/ value' = 0)
    BY <1>9 DEF MarkAllRead, Del, DelFails, KeyExpires, unreadVars, DropKey, Due, Taking,
                ReadAt, counter
  <2>. QED
    BY <1>0, <2>1, BoundsKept
<1>. QED
  BY <1>1, <1>2, <1>3, <1>4, <1>5, <1>6, <1>7, <1>8, <1>9 DEF UnreadNext

-----------------------------------------------------------------------------
(* The exact count *)

\* A lone operation of the consumer, and a lone markRead.
LEMMA Alone ==
  ASSUME UnreadTypeOK, OneAtATime, ~overlapped
  PROVE  /\ \A n \in Bumping : Bumping = {n} /\ Reading = {} /\ ~clearing
         /\ \A r \in Reading : Reading = {r} /\ Bumping = {} /\ Due = {} /\ ~clearing
         /\ clearing => Bumping = {} /\ Due = {} /\ Reading = {}
BY Counts DEF OneAtATime

\* What is off while nothing, or one thing, is in progress.
LEMMA OffIs ==
  /\ Due # {} => Off = -1
  /\ Due = {} /\ Reading = {} => Off = 0
  /\ \A r \in Readers : Due = {} /\ Reading = {r} =>
        Off = IF ReadAt(r, "get") \/ ReadAt(r, "decr") THEN 1 ELSE 0
<1>1. Due # {} => Off = -1
  BY DEF Off
<1>2. ASSUME Due = {}, Reading = {} PROVE Off = 0
  <2>1. ~\E r \in Readers : ReadAt(r, "get") \/ ReadAt(r, "decr")
    BY <1>2 DEF Reading, ReadAt
  <2>. QED
    BY <1>2, <2>1 DEF Off
<1>3. ASSUME NEW r \in Readers, Due = {}, Reading = {r}
      PROVE  Off = IF ReadAt(r, "get") \/ ReadAt(r, "decr") THEN 1 ELSE 0
  <2>1. \A s \in Readers : ReadAt(s, "get") \/ ReadAt(s, "decr") => s = r
    BY <1>3 DEF Reading, ReadAt
  <2>. QED
    BY <1>3, <2>1 DEF Off
<1>. QED
  BY <1>1, <1>2, <1>3

\* The starts of an operation, none being in progress.
LEMMA ExactStarts ==
  ASSUME UnreadTypeOK, UnreadTypeOK', OneAtATime, Exact, ~overlapped', faults' = 0,
         \/ \E n \in NoteIds : Store(n)
         \/ \E r \in Readers, n \in NoteIds : FindUnread(r, n)
         \/ MarkAllRead
  PROVE  Exact'
<1>. USE DEF UnreadTypeOK
<1>1. /\ ~overlapped /\ Bumping = {} /\ Due = {} /\ Reading = {} /\ ~clearing
  BY OneStarts, StartsAlone, Counts
<1>2. faults = 0
  BY DEF Store, FindUnread, MarkAllRead
<1>3. value = Unread
  <2>1. value = Unread + Off /\ Off = 0
    BY <1>1, <1>2, OffIs DEF Exact
  <2>. QED
    BY <2>1, Counts
<1>4. ASSUME NEW n \in NoteIds, Store(n) PROVE Exact'
  <2>1. /\ UnreadSet' = UnreadSet \cup {n} /\ n \notin UnreadSet /\ UnreadSet \in SUBSET NoteIds
        /\ Due' = {n} /\ Reading' = {} /\ value' = value
    BY <1>1, <1>4 DEF Store, UnreadSet, Due, Reading, Bumping, counter
  <2>2. ~clearing'
    BY <1>1, <1>4 DEF Store
  <2>3. Unread' = Unread + 1
    <3>1. Cardinality(UnreadSet') = Cardinality(UnreadSet) + 1
      BY <2>1, BellIsFinite, Counting
    <3>. QED
      BY <3>1 DEF Unread, UnreadSet
  <2>4. Off' = -1
    BY <2>1 DEF Off
  <2>5. \A r \in Readers : ~ReadAt(r, "update")' /\ ~ReadAt(r, "set")'
    BY <2>1 DEF Reading, ReadAt
  <2>6. value' = Unread' + Off'
    BY <1>3, <2>1, <2>3, <2>4, Counts
  <2>. QED
    BY <2>2, <2>5, <2>6 DEF Exact
<1>5. ASSUME NEW r \in Readers, NEW n \in NoteIds, FindUnread(r, n) PROVE Exact'
  <2>1. /\ rows' = rows /\ value' = value /\ rows[n] = "unread" /\ Due' = {} /\ Reading' = {r}
        /\ request'[r].pc = "update" /\ request'[r].note = n
    <3>1. rows' = rows /\ value' = value /\ rows[n] = "unread"
      BY <1>5 DEF FindUnread, counter
    <3>2. Bumping' = Bumping /\ Reading' = Reading \cup {r}
      BY <1>1, <1>5, OneStarts
    <3>3. Due' = {} /\ Reading' = {r}
      BY <1>1, <3>2 DEF Due, Bumping
    <3>4. request'[r] = [note |-> n, pc |-> "update"]
      BY <1>1, <1>5 DEF FindUnread, UnreadTypeOK
    <3>. QED
      BY <3>1, <3>3, <3>4
  <2>2. ~clearing'
    BY <1>1, <1>5 DEF FindUnread
  <2>3. Unread' = Unread
    BY <2>1 DEF Unread
  <2>4. \A s \in Readers : /\ ~ReadAt(s, "get")' /\ ~ReadAt(s, "decr")' /\ ~ReadAt(s, "set")'
                           /\ ReadAt(s, "update")' => s = r
    BY <2>1 DEF Reading, ReadAt
  <2>5. Off' = 0
    BY <2>1, <2>4 DEF Off
  <2>6. value' = Unread' + Off'
    BY <1>3, <2>1, <2>3, <2>5, Counts
  <2>. QED
    BY <2>1, <2>2, <2>4, <2>6 DEF Exact
<1>6. CASE MarkAllRead
  <2>1. UnreadSet' = {} /\ Reading' = {} /\ clearing'
    BY <1>1, <1>6 DEF MarkAllRead, UnreadSet, Reading
  <2>2. Unread' = 0
    BY <2>1, FS_EmptySet DEF Unread, UnreadSet
  <2>3. \A r \in Readers : ~ReadAt(r, "update")' /\ ~ReadAt(r, "set")'
    BY <2>1 DEF Reading, ReadAt
  <2>. QED
    BY <2>1, <2>2, <2>3 DEF Exact
<1>. QED
  BY <1>4, <1>5, <1>6

\* The steps of the consumer and of the clock.
LEMMA ExactBumps ==
  ASSUME UnreadTypeOK, OneAtATime, Exact, ~overlapped', faults' = 0,
         \E n \in NoteIds : Incr(n) \/ Expire(n) \/ Purge(n)
  PROVE  Exact'
<1>. USE DEF UnreadTypeOK
<1>1. ~overlapped /\ faults = 0
  BY NothingStarts DEF Incr, Expire, Purge
<1>2. ASSUME NEW n \in NoteIds, Incr(n) PROVE Exact'
  <2>1. n \in Due /\ n \in Bumping
    BY <1>2 DEF Incr, Due, Bumping
  <2>2. Bumping = {n} /\ Reading = {} /\ ~clearing
    BY <1>1, <2>1, Alone
  <2>3. Due' = {} /\ Reading' = {} /\ Unread' = Unread /\ value' = value + 1
    BY <1>2, <2>2 DEF Incr, Add, Due, Bumping, Reading, Unread
  <2>4. ~clearing'
    BY <1>2, <2>2 DEF Incr
  <2>5. value = Unread - 1
    BY <1>1, <2>1, <2>2, OffIs, Counts DEF Exact
  <2>6. /\ \A r \in Readers : /\ ~ReadAt(r, "update")' /\ ~ReadAt(r, "set")'
                              /\ ~ReadAt(r, "get")' /\ ~ReadAt(r, "decr")'
    BY <2>3 DEF Reading, ReadAt
  <2>7. value' = Unread' + Off'
    <3>1. Off' = 0
      BY <2>3, <2>6 DEF Off
    <3>. QED
      BY <2>3, <2>5, <3>1, Counts
  <2>. QED
    BY <2>4, <2>6, <2>7 DEF Exact
<1>3. ASSUME NEW n \in NoteIds, Expire(n) PROVE Exact'
  <2>1. n \in Bumping /\ bump[n] = "expire"
    BY <1>3 DEF Expire, Bumping
  <2>2. Bumping = {n} /\ Reading = {} /\ ~clearing
    BY <1>1, <2>1, Alone
  <2>3. Due = {} /\ Due' = {} /\ Reading' = {} /\ Unread' = Unread /\ value' = value
    BY <1>3, <2>1, <2>2 DEF Expire, Due, Bumping, Reading, Unread
  <2>4. ~clearing'
    BY <1>3, <2>2 DEF Expire
  <2>5. value = Unread
    <3>1. value = Unread + Off /\ Off = 0
      BY <1>1, <2>2, <2>3, OffIs DEF Exact
    <3>. QED
      BY <3>1, Counts
  <2>6. /\ \A r \in Readers : /\ ~ReadAt(r, "update")' /\ ~ReadAt(r, "set")'
                              /\ ~ReadAt(r, "get")' /\ ~ReadAt(r, "decr")'
    BY <2>3 DEF Reading, ReadAt
  <2>7. value' = Unread' + Off'
    <3>1. Off' = 0
      BY <2>3, <2>6 DEF Off
    <3>. QED
      BY <2>3, <2>5, <3>1, Counts
  <2>. QED
    BY <2>4, <2>6, <2>7 DEF Exact
<1>4. ASSUME NEW n \in NoteIds, Purge(n) PROVE Exact'
  <2>1. /\ UnreadSet' = UnreadSet /\ \A m \in UnreadSet : rows'[m] = "unread"
        /\ UNCHANGED <<present, value, ttl, bump, request, clearing>>
    BY <1>4 DEF Purge, UnreadSet, counter
  <2>2. Off' = Off /\ Unread' = Unread
    <3>1. Unread' = Unread
      BY <2>1 DEF Unread, UnreadSet
    <3>2. Off' = Off
      BY <2>1 DEF Off, Due, ReadAt
    <3>. QED
      BY <3>1, <3>2
  <2>3. \A r \in Readers : ReadAt(r, "update")' => rows'[request'[r].note] = "unread"
    <3>1. SUFFICES ASSUME NEW r \in Readers, ReadAt(r, "update")
                   PROVE  rows'[request[r].note] = "unread"
      BY <2>1 DEF ReadAt
    <3>2. rows[request[r].note] = "unread" /\ request[r].note \in NoteIds
      BY <1>1, <3>1, RequestParts DEF Exact, ReadAt
    <3>. QED
      BY <2>1, <3>2 DEF UnreadSet
  <2>4. \A r \in Readers : ~ReadAt(r, "set")'
    BY <1>1, <2>1 DEF Exact, ReadAt
  <2>5. IF clearing' THEN Unread' = 0 ELSE value' = Unread' + Off'
    BY <1>1, <2>1, <2>2 DEF Exact
  <2>. QED
    BY <2>3, <2>4, <2>5 DEF Exact
<1>. QED
  BY <1>2, <1>3, <1>4

\* The steps of a lone markRead.
LEMMA ExactReads ==
  ASSUME UnreadTypeOK, OneAtATime, Exact, ~overlapped', faults' = 0,
         \E r \in Readers : Update(r) \/ Get(r) \/ Decr(r) \/ SetZero(r)
  PROVE  Exact'
<1>. USE DEF UnreadTypeOK
<1>1. PICK r \in Readers : Update(r) \/ Get(r) \/ Decr(r) \/ SetZero(r)
  OBVIOUS
<1>2. ~overlapped /\ faults = 0
  BY <1>1, NothingStarts DEF Update, Get, Decr, SetZero
<1>3. /\ request[r] # FreeSlot /\ r \in Reading /\ UNCHANGED <<bump, clearing>>
      /\ request[r].note \in NoteIds
  BY <1>1, RequestParts DEF Update, Get, Decr, SetZero, ReadAt, Reading
<1>4. Reading = {r} /\ Due = {} /\ ~clearing
  BY <1>2, <1>3, Alone
<1>5. ~clearing' /\ Due' = {}
  BY <1>3, <1>4 DEF Due
<1>6. /\ \A s \in Readers \ {r} : ~ReadAt(s, "update") /\ ~ReadAt(s, "set")
                                  /\ ~ReadAt(s, "get") /\ ~ReadAt(s, "decr")
  BY <1>4 DEF Reading, ReadAt
<1>7. value = Unread + (IF ReadAt(r, "get") \/ ReadAt(r, "decr") THEN 1 ELSE 0)
  BY <1>2, <1>4, OffIs DEF Exact
<1>8. CASE Update(r)
  <2>. DEFINE n == request[r].note
  <2>1. ReadAt(r, "update") /\ rows[n] = "unread" /\ value' = value
    BY <1>2, <1>8 DEF Exact, Update, counter
  <2>2. rows' = [rows EXCEPT ![n] = "read"] /\ request' = [request EXCEPT ![r].pc = "get"]
    BY <1>8, <2>1 DEF Update
  <2>3. /\ request'[r] # FreeSlot /\ request'[r].pc = "get"
        /\ \A s \in Readers \ {r} : request'[s] = request[s]
    BY <1>3, <2>2, PcMoves
  <2>4. UnreadSet' = UnreadSet \ {n} /\ n \in UnreadSet /\ UnreadSet \in SUBSET NoteIds
    BY <1>3, <2>1, <2>2 DEF UnreadSet
  <2>5. Unread' = Unread - 1
    <3>1. Cardinality(UnreadSet') = Cardinality(UnreadSet) - 1
      BY <2>4, BellIsFinite, Counting
    <3>. QED
      BY <3>1 DEF Unread, UnreadSet
  <2>6. Off' = 1
    BY <1>5, <2>3 DEF Off, ReadAt
  <2>7. \A s \in Readers : ~ReadAt(s, "update")' /\ ~ReadAt(s, "set")'
    BY <1>6, <2>3 DEF ReadAt
  <2>8. value = Unread
    BY <1>7, <2>1, Counts DEF ReadAt
  <2>9. value' = Unread' + Off'
    BY <2>1, <2>5, <2>6, <2>8, Counts
  <2>. QED
    BY <1>5, <2>7, <2>9 DEF Exact
<1>9. CASE Get(r)
  <2>1. ReadAt(r, "get") /\ value' = value /\ rows' = rows
    BY <1>9 DEF Get, counter
  <2>2. value = Unread + 1
    BY <1>7, <2>1
  <2>3. request' = [request EXCEPT ![r].pc = "decr"]
    <3>1. value > 0
      BY <2>2, Counts
    <3>2. (IF value > 0 THEN "decr" ELSE "set") = "decr"
      BY <3>1
    <3>. QED
      BY <1>9, <3>1, <3>2 DEF Get
  <2>4. /\ request'[r] # FreeSlot /\ request'[r].pc = "decr"
        /\ \A s \in Readers \ {r} : request'[s] = request[s]
    BY <1>3, <2>3, PcMoves
  <2>5. Off' = 1
    BY <1>5, <2>4 DEF Off, ReadAt
  <2>6. \A s \in Readers : ~ReadAt(s, "update")' /\ ~ReadAt(s, "set")'
    BY <1>6, <2>4 DEF ReadAt
  <2>7. value' = Unread' + Off'
    BY <2>1, <2>2, <2>5 DEF Unread
  <2>. QED
    BY <1>5, <2>6, <2>7 DEF Exact
<1>10. CASE Decr(r)
  <2>1. ReadAt(r, "decr") /\ value' = value - 1 /\ rows' = rows
    BY <1>10 DEF Decr, Add
  <2>2. value = Unread + 1
    BY <1>7, <2>1
  <2>3. Reading' = {}
    <3>1. request' = [request EXCEPT ![r] = FreeSlot]
      BY <1>10 DEF Decr
    <3>2. Reading' = Reading \ {r}
      BY <3>1, SlotMoves
    <3>. QED
      BY <1>4, <3>2
  <2>4. \A s \in Readers : /\ ~ReadAt(s, "update")' /\ ~ReadAt(s, "set")'
                           /\ ~ReadAt(s, "get")' /\ ~ReadAt(s, "decr")'
    BY <2>3 DEF Reading, ReadAt
  <2>5. Off' = 0
    BY <1>5, <2>4 DEF Off
  <2>6. value' = Unread' + Off'
    <3>1. Unread' = Unread
      BY <2>1 DEF Unread
    <3>. QED
      BY <2>1, <2>2, <2>5, <3>1, Counts
  <2>. QED
    BY <1>5, <2>4, <2>6 DEF Exact
<1>11. CASE SetZero(r)
  BY <1>2, <1>11 DEF SetZero, Exact
<1>. QED
  BY <1>1, <1>8, <1>9, <1>10, <1>11

\* The end of a lone markAllRead.
LEMMA ExactDel ==
  ASSUME UnreadTypeOK, OneAtATime, Exact, ~overlapped', faults' = 0, Del
  PROVE  Exact'
<1>1. ~overlapped /\ faults = 0 /\ clearing /\ ~clearing'
  BY NothingStarts DEF Del
<1>2. Bumping = {} /\ Due = {} /\ Reading = {} /\ Unread = 0
  BY <1>1, Alone DEF Exact
<1>3. UNCHANGED <<rows, bump, request>> /\ value' = 0
  BY DEF Del, DropKey
<1>4. /\ Due' = {}
      /\ \A s \in Readers : /\ ~ReadAt(s, "update")' /\ ~ReadAt(s, "set")'
                            /\ ~ReadAt(s, "get")' /\ ~ReadAt(s, "decr")'
  BY <1>2, <1>3 DEF Due, Reading, ReadAt
<1>5. Off' = 0 /\ Unread' = 0
  BY <1>2, <1>3, <1>4 DEF Off, Unread
<1>6. value' = Unread' + Off'
  BY <1>3, <1>5
<1>. QED
  BY <1>1, <1>4, <1>6 DEF Exact

LEMMA ExactStep ==
  ASSUME UnreadTypeOK, OneAtATime, Exact, [UnreadNext]_unreadVars
  PROVE  Exact'
<1>1. CASE ~(~overlapped' /\ faults' = 0)
  BY <1>1 DEF Exact
<1>2. CASE ~overlapped' /\ faults' = 0
  <2>1. ~Fault
    BY <1>2 DEF Fault, UnreadTypeOK
  <2>2. CASE UNCHANGED unreadVars
    <3>1. UNCHANGED <<rows, value, bump, request, clearing, faults, overlapped>>
      BY <2>2 DEF unreadVars, counter
    <3>. QED
      BY <3>1 DEF Exact, Unread, Off, Due, ReadAt
  <2>. QED
    BY <1>2, <2>1, <2>2, UnreadTypes, ExactStarts, ExactBumps, ExactReads, ExactDel
    DEF UnreadNext, BumpFails, CacheFails, DelFails, KeyExpires
<1>. QED
  BY <1>1, <1>2

-----------------------------------------------------------------------------
(* The theorem *)

LEMMA UnreadInvariant == UnreadSpec => []UnreadInv
<1>1. UnreadInit => UnreadInv
  <2>. SUFFICES ASSUME UnreadInit PROVE UnreadInv
    OBVIOUS
  <2>1. UnreadTypeOK
    <3>1. /\ present \in BOOLEAN /\ ttl \in BOOLEAN
          /\ clearing \in BOOLEAN /\ overlapped \in BOOLEAN
      BY Zenon DEF UnreadInit
    <3>2. value \in Int /\ faults \in Nat
      BY DEF UnreadInit
    <3>3. ~present => value = 0 /\ ~ttl
      BY Zenon DEF UnreadInit
    <3>4. /\ rows \in [NoteIds -> {"absent", "unread", "read", "purged"}]
          /\ bump \in [NoteIds -> {"none", "incr", "expire"}]
          /\ request \in [Readers -> Request \cup {FreeSlot}]
      BY DEF UnreadInit
    <3>. QED
      BY <3>1, <3>2, <3>3, <3>4, Zenon DEF UnreadTypeOK
  <2>2. Bumping = {} /\ Reading = {} /\ Due = {} /\ Taking = {} /\ UnreadSet = {} /\ Received = {}
    BY DEF UnreadInit, Bumping, Reading, Due, Taking, ReadAt, UnreadSet, Received
  <2>3. Unread = 0 /\ value = 0 /\ ~clearing /\ Cardinality({}) = 0
    BY <2>2, FS_EmptySet DEF UnreadInit, Unread, UnreadSet
  <2>4. CountedStored /\ OneAtATime
    BY <2>2 DEF CountedStored, OneAtATime
  <2>5. Bounds
    BY <2>2, <2>3, Counts DEF Bounds
  <2>6. \A r \in Readers : ~ReadAt(r, "update") /\ ~ReadAt(r, "set")
    BY <2>2 DEF Reading, ReadAt
  <2>7. value = Unread + Off
    BY <2>2, <2>3, OffIs
  <2>8. Exact
    BY <2>3, <2>6, <2>7 DEF Exact
  <2>. QED
    BY <2>1, <2>4, <2>5, <2>8 DEF UnreadInv
<1>2. UnreadInv /\ [UnreadNext]_unreadVars => UnreadInv'
  BY UnreadTypes, StoredStep, BoundsStep, OneStep, ExactStep DEF UnreadInv
<1>. QED
  BY <1>1, <1>2, PTL DEF UnreadSpec

LEMMA InvCountRight == UnreadInv => CountRight
<1>. SUFFICES ASSUME UnreadInv PROVE CountRight
  OBVIOUS
<1>1. UnreadTypeOK /\ Bounds /\ Exact /\ OneAtATime
  BY DEF UnreadInv
<1>2. DriftBounded
  <2>1. value \in Int
    BY <1>1 DEF UnreadTypeOK
  <2>2. value <= Cardinality(Received) /\ value >= -Cardinality(Readers)
    BY <1>1, <2>1, Counts DEF Bounds
  <2>. QED
    BY <2>2 DEF DriftBounded, Received
<1>3. ASSUME ~overlapped, faults = 0, Active = 0 PROVE UnreadShown = Unread
  <2>1. Bumping = {} /\ Due = {} /\ Reading = {} /\ ~clearing
    BY <1>1, <1>3, IdleIs, Counts
  <2>2. value = Unread + Off /\ Off = 0
    BY <1>1, <1>3, <2>1, OffIs DEF Exact
  <2>3. value = Unread
    BY <2>2, Counts
  <2>. QED
    BY <2>3 DEF UnreadShown
<1>. QED
  BY <1>2, <1>3 DEF CountRight, CountMatchesUnraced

\* For any number of notifications, requests and Redis faults: with no
\* operation in progress getUnreadCount returns what countUnread would, as long
\* as no two operations overlapped, no Redis call failed and no key expired;
\* and in any case the counter never exceeds the notifications received nor
\* falls further below zero than markRead requests may overlap.
THEOREM BellCountRight == UnreadSpec => []CountRight
BY UnreadInvariant, InvCountRight, PTL

-----------------------------------------------------------------------------
(* The whole board *)

\* A step of the board system is a step of the bell, or leaves the bell alone.
LEMMA BellStep == [Next]_vars => [UnreadNext]_unreadVars
BY DEF Next, vars

\* The count of getUnreadCount is right in the whole system: no other part
\* of the board writes the key or the rows it counts.
THEOREM BoardCountRight == Spec => []CountRight
<1>1. Init => UnreadInit
  BY DEF Init
<1>2. Spec => UnreadSpec
  BY <1>1, BellStep, PTL DEF Spec, UnreadSpec
<1>. QED
  BY <1>2, BellCountRight

-----------------------------------------------------------------------------
(* Files: the rows and the objects of the store *)

FileOps == {"file.put", "file.confirm", "file.complete", "file.delete", "file.deleteObject"}

\* A request that is past the creation of its row knows the row, and deletes
\* the object after the row is archived.
FileRequest(r) ==
    /\ r = [op |-> r.op, user |-> r.user, id |-> r.id, data |-> r.data]
    /\ r.user \in DOMAIN RoleOf
    /\ r.op \in FileOps \cup {"file.request"} => r.data = [id |-> r.data.id]
    /\ r.op \in FileOps => r.data.id \in DOMAIN file
    /\ r.op = "file.deleteObject" => file[r.data.id].archived

FileInv ==
    /\ UploadsTypeOK
    /\ \A r \in inflight : FileRequest(r)
    /\ ServesItsBytes
    /\ DeletedBytesGone

\* The inductive invariant: a behaviour about something else has no files.
FilesInv == IF focus = "files" THEN FileInv ELSE file = <<>>

\* A request keeps what it knows of its file while no row is lost or revived.
LEMMA FileRequestStays ==
  ASSUME NEW r, FileRequest(r),
         DOMAIN file \subseteq DOMAIN file',
         \A f \in DOMAIN file : file[f].archived => file'[f].archived
  PROVE  FileRequest(r)'
BY DEF FileRequest, FileOps

\* A step that leaves the files alone and the deletions on their way.
LEMMA FilesAlone ==
  ASSUME FileInv, UNCHANGED file,
         \A r \in inflight' \ inflight : FileRequest(r),
         \A r \in inflight \ inflight' : r.op # "file.deleteObject"
  PROVE  FileInv'
<1>1. \A r \in inflight' : FileRequest(r)
  BY DEF FileInv
<1>2. (\A r \in inflight : FileRequest(r))'
  BY <1>1, FileRequestStays
<1>3. UploadsTypeOK' /\ ServesItsBytes'
  BY DEF FileInv, UploadsTypeOK, ServesItsBytes
<1>4. DeletedBytesGone'
  BY DEF FileInv, DeletedBytesGone
<1>. QED
  BY <1>2, <1>3, <1>4 DEF FileInv

\* A request that was just admitted.
LEMMA AdmitsFile ==
  ASSUME NEW u, NEW op, NEW what, Admit(u, op, what),
         op \in {"file.request", "file.confirm", "file.delete"} => what = [id |-> what.id],
         op \in {"file.confirm", "file.delete"} => what.id \in DOMAIN file,
         op \notin FileOps \ {"file.confirm", "file.delete"}
  PROVE  /\ \A r \in inflight' \ inflight : FileRequest(r)
         /\ inflight \subseteq inflight'
<1>. DEFINE q == [op |-> op, user |-> u, id |-> asked, data |-> what]
<1>1. inflight' = inflight \cup {q} /\ u \in DOMAIN RoleOf
  BY DEF Admit, RbacGuard
<1>2. q.op = op /\ q.user = u /\ q.data = what /\ q.id = asked
  OBVIOUS
<1>3. FileRequest(q)
  BY <1>1, <1>2 DEF FileRequest, FileOps
<1>. QED
  BY <1>1, <1>3

\* The next step of a request.
LEMMA ContinuesFile ==
  ASSUME NEW r \in inflight, FileRequest(r), NEW op, Continue(r, op)
  PROVE  /\ inflight' = (inflight \ {r}) \cup {[r EXCEPT !.op = op]}
         /\ [r EXCEPT !.op = op].op = op
         /\ [r EXCEPT !.op = op].user = r.user
         /\ [r EXCEPT !.op = op].id = r.id
         /\ [r EXCEPT !.op = op].data = r.data
         /\ [r EXCEPT !.op = op]
              = [op |-> op, user |-> r.user, id |-> r.id, data |-> r.data]
BY DEF FileRequest, Continue

\* Requests are admitted without touching a file.
LEMMA FileAsks ==
  ASSUME FileInv, NEW u,
         \/ AskUpload(u)
         \/ \E f \in DOMAIN file : AskConfirm(u, f) \/ AskDeleteFile(u, f)
         \/ StateNext(u, Card) /\ UNCHANGED file
         \/ BoardArchive(u) /\ UNCHANGED file
  PROVE  FileInv'
<1>1. CASE AskUpload(u)
  <2>1. Admit(u, "file.request", [id |-> Board]) /\ UNCHANGED file
    BY <1>1 DEF AskUpload, AskFile
  <2>. QED
    BY <2>1, AdmitsFile, FilesAlone DEF FileOps
<1>2. ASSUME NEW f \in DOMAIN file, AskConfirm(u, f) \/ AskDeleteFile(u, f) PROVE FileInv'
  <2>1. PICK op \in {"file.confirm", "file.delete"} : Admit(u, op, [id |-> f])
    BY <1>2 DEF AskConfirm, AskDeleteFile, AskFile
  <2>2. UNCHANGED file
    BY <1>2 DEF AskConfirm, AskDeleteFile, AskFile
  <2>. QED
    BY <2>1, <2>2, AdmitsFile, FilesAlone DEF FileOps
<1>3. CASE (StateNext(u, Card) \/ BoardArchive(u)) /\ UNCHANGED file
  <2>1. PICK op \in {"card.archive", "card.unarchive", "card.delete", "board.archive"}, i \in {Card, Board} :
           Admit(u, op, [id |-> i, open |-> Live(Board)])
    BY <1>3 DEF StateNext, CardArchive, CardUnarchive, CardDelete, BoardArchive, AskState
  <2>. QED
    BY <1>3, <2>1, AdmitsFile, FilesAlone DEF FileOps
<1>. QED
  BY <1>1, <1>2, <1>3

\* The writes that close and reopen the card and the board.
LEMMA FileCloses ==
  ASSUME FileInv, NEW r \in inflight, WriteState(r), UNCHANGED file
  PROVE  FileInv'
<1>1. /\ inflight' = inflight \ {r}
      /\ r.op # "file.deleteObject"
  BY DEF WriteState, WriteArchive, WriteUnarchive, WriteDelete, Finish
<1>. QED
  BY <1>1, FilesAlone

\* A request leaves a file as it was and ends, or goes on.
LEMMA FileConfirmReads ==
  ASSUME FileInv, NEW r \in inflight, ConfirmRead(r)
  PROVE  FileInv'
<1>1. FileRequest(r) /\ r.op = "file.confirm" /\ UNCHANGED file
  BY DEF FileInv, ConfirmRead
<1>2. CASE Finish(r)
  BY <1>1, <1>2, FilesAlone DEF Finish
<1>3. CASE Continue(r, "file.complete")
  <2>. DEFINE q == [r EXCEPT !.op = "file.complete"]
  <2>1. FileRequest(q)
    BY <1>1, <1>3, ContinuesFile DEF FileRequest, FileOps
  <2>2. inflight' = (inflight \ {r}) \cup {q}
    BY <1>1, <1>3, ContinuesFile
  <2>. HIDE DEF q
  <2>. QED
    BY <1>1, <2>1, <2>2, FilesAlone
<1>. QED
  BY <1>2, <1>3 DEF ConfirmRead

\* One row changes: what it must keep, and who may go.
LEMMA RowChanges ==
  ASSUME FileInv, NEW r \in inflight, FileRequest(r), r.op \in FileOps,
         NEW x \in FileRow, file' = [file EXCEPT ![r.data.id] = x],
         file[r.data.id].archived => x.archived,
         x.status = "completed" /\ ~x.archived => x.object = "stored" \/ x.blind,
         inflight \ {r} \subseteq inflight',
         \A q \in inflight' \ inflight : FileRequest(q)',
         x.archived /\ x.object = "stored" /\ ~x.excused
            => \E q \in inflight' : q.op = "file.deleteObject" /\ q.data.id = r.data.id
  PROVE  FileInv'
<1>. DEFINE i == r.data.id
<1>1. /\ DOMAIN file' = DOMAIN file /\ i \in DOMAIN file
      /\ file'[i] = x /\ \A f \in DOMAIN file \ {i} : file'[f] = file[f]
  BY DEF FileRequest
<1>2. (\A q \in inflight : FileRequest(q))'
  <2>1. \A q \in inflight : FileRequest(q)
    BY DEF FileInv
  <2>2. \A f \in DOMAIN file : file[f].archived => file'[f].archived
    BY <1>1
  <2>3. \A q \in inflight : FileRequest(q)'
    BY <1>1, <2>1, <2>2, FileRequestStays
  <2>. QED
    BY <2>3
<1>3. UploadsTypeOK'
  BY <1>1 DEF FileInv, UploadsTypeOK
<1>4. ServesItsBytes'
  BY <1>1 DEF FileInv, ServesItsBytes
<1>5. DeletedBytesGone'
  <2>. SUFFICES ASSUME NEW f \in DOMAIN file,
                       file'[f].archived, file'[f].object = "stored", ~file'[f].excused
                PROVE  \E q \in inflight' : q.op = "file.deleteObject" /\ q.data.id = f
    BY <1>1 DEF DeletedBytesGone
  <2>1. CASE f = i
    BY <1>1, <2>1
  <2>2. CASE f # i
    <3>1. PICK q \in inflight : q.op = "file.deleteObject" /\ q.data.id = f
      BY <1>1, <2>2 DEF FileInv, DeletedBytesGone
    <3>. QED
      BY <2>2, <3>1
  <2>. QED
    BY <2>1, <2>2
<1>. QED
  BY <1>2, <1>3, <1>4, <1>5 DEF FileInv

\* The bytes arrive, or the button gives up.
LEMMA FilePuts ==
  ASSUME FileInv, NEW r \in inflight, PutObject(r)
  PROVE  FileInv'
<1>1. FileRequest(r) /\ r.op = "file.put"
  BY DEF FileInv, PutObject
<1>2. CASE Finish(r) /\ UNCHANGED file
  BY <1>1, <1>2, FilesAlone DEF Finish
<1>3. CASE /\ file' = [file EXCEPT ![r.data.id].object = "stored",
                                   ![r.data.id].excused = @ \/ file[r.data.id].archived]
           /\ Continue(r, "file.confirm")
  <2>. DEFINE i == r.data.id
              x == [file[i] EXCEPT !.object = "stored", !.excused = @ \/ file[i].archived]
              q == [r EXCEPT !.op = "file.confirm"]
  <2>1. i \in DOMAIN file /\ file[i] \in FileRow
    BY <1>1 DEF FileRequest, FileOps, FileInv, UploadsTypeOK
  <2>2. /\ x \in FileRow /\ x.object = "stored" /\ x.archived = file[i].archived
        /\ x.archived => x.excused
    BY <2>1 DEF FileRow
  <2>3. file' = [file EXCEPT ![i] = x]
    BY <1>3, <2>1
  <2>4. inflight' = (inflight \ {r}) \cup {q}
    BY <1>1, <1>3, ContinuesFile
  <2>5. FileRequest(q)'
    <3>1. q.op = "file.confirm" /\ q.user = r.user /\ q.data = r.data /\ q.id = r.id
          /\ q = [op |-> q.op, user |-> q.user, id |-> q.id, data |-> q.data]
      BY <1>1, <1>3, ContinuesFile
    <3>2. DOMAIN file' = DOMAIN file
      BY <2>1, <2>2, <2>3
    <3>. HIDE DEF q
    <3>. QED
      BY <1>1, <3>1, <3>2 DEF FileRequest, FileOps
  <2>. HIDE DEF x, q
  <2>. QED
    BY <1>1, <2>2, <2>3, <2>4, <2>5, RowChanges DEF FileOps
<1>. QED
  BY <1>2, <1>3 DEF PutObject

\* The row is completed, whether its bytes are there or not.
LEMMA FileConfirms ==
  ASSUME FileInv, NEW r \in inflight, Confirm(r)
  PROVE  FileInv'
<1>1. FileRequest(r) /\ r.op = "file.complete"
  BY DEF FileInv, Confirm
<1>. DEFINE i == r.data.id
            x == [file[i] EXCEPT !.status = "completed",
                                 !.blind = @ \/ file[i].object # "stored"]
<1>2. i \in DOMAIN file /\ file[i] \in FileRow
  BY <1>1 DEF FileRequest, FileOps, FileInv, UploadsTypeOK
<1>3. /\ x \in FileRow /\ x.object = file[i].object /\ x.archived = file[i].archived
      /\ x.excused = file[i].excused /\ (x.object = "stored" \/ x.blind)
  BY <1>2 DEF FileRow
<1>4. file' = [file EXCEPT ![i] = x] /\ inflight' = inflight \ {r}
  BY <1>2 DEF Confirm, Finish
<1>5. x.archived /\ x.object = "stored" /\ ~x.excused
        => \E q \in inflight' : q.op = "file.deleteObject" /\ q.data.id = i
  BY <1>1, <1>2, <1>3, <1>4 DEF FileInv, DeletedBytesGone
<1>. HIDE DEF x
<1>. QED
  BY <1>1, <1>2, <1>3, <1>4, <1>5, RowChanges DEF FileOps

\* The row is archived, and the deletion of its object is on its way.
LEMMA FileArchives ==
  ASSUME FileInv, NEW r \in inflight, ArchiveFile(r)
  PROVE  FileInv'
<1>1. FileRequest(r) /\ r.op = "file.delete" /\ Continue(r, "file.deleteObject")
  BY DEF FileInv, ArchiveFile
<1>. DEFINE i == r.data.id
            x == [file[i] EXCEPT !.archived = TRUE]
            q == [r EXCEPT !.op = "file.deleteObject"]
<1>2. i \in DOMAIN file /\ file[i] \in FileRow
  BY <1>1 DEF FileRequest, FileOps, FileInv, UploadsTypeOK
<1>3. x \in FileRow /\ x.archived
  BY <1>2 DEF FileRow
<1>4. file' = [file EXCEPT ![i] = x]
  BY DEF ArchiveFile
<1>5. inflight' = (inflight \ {r}) \cup {q}
  BY <1>1, ContinuesFile
<1>6. /\ q.op = "file.deleteObject" /\ q.user = r.user /\ q.data = r.data /\ q.id = r.id
      /\ q = [op |-> q.op, user |-> q.user, id |-> q.id, data |-> q.data]
  BY <1>1, ContinuesFile
<1>7. FileRequest(q)'
  <2>1. DOMAIN file' = DOMAIN file /\ file'[i].archived
    BY <1>2, <1>3, <1>4
  <2>. HIDE DEF q
  <2>. QED
    BY <1>1, <1>6, <2>1 DEF FileRequest, FileOps
<1>. HIDE DEF x, q
<1>. QED
  BY <1>1, <1>3, <1>4, <1>5, <1>6, <1>7, RowChanges DEF FileOps

\* The object of an archived row goes, or its staying is excused.
LEMMA FileObjectGoes ==
  ASSUME FileInv, NEW r \in inflight, DeleteObject(r)
  PROVE  FileInv'
<1>1. FileRequest(r) /\ r.op = "file.deleteObject" /\ inflight' = inflight \ {r}
  BY DEF FileInv, DeleteObject, Finish
<1>. DEFINE i == r.data.id
            x == [file[i] EXCEPT !.object = "deleted"]
            y == [file[i] EXCEPT !.excused = TRUE]
<1>2. i \in DOMAIN file /\ file[i] \in FileRow /\ file[i].archived
  BY <1>1 DEF FileRequest, FileOps, FileInv, UploadsTypeOK
<1>3. /\ x \in FileRow /\ x.archived /\ x.object = "deleted"
      /\ y \in FileRow /\ y.archived /\ y.excused
  BY <1>2 DEF FileRow
<1>4. file' = [file EXCEPT ![i] = x] \/ file' = [file EXCEPT ![i] = y]
  BY DEF DeleteObject
<1>. HIDE DEF x, y
<1>. QED
  BY <1>1, <1>3, <1>4, RowChanges DEF FileOps

\* A row for a new upload.
LEMMA FileRequested ==
  ASSUME FileInv, NEW r \in inflight, RequestUpload(r)
  PROVE  FileInv'
<1>1. FileRequest(r) /\ r.op = "file.request"
  BY DEF FileInv, RequestUpload
<1>2. PICK f \in Files \ DOMAIN file :
         /\ file' = [g \in DOMAIN file \cup {f} |->
                       IF g \in DOMAIN file THEN file[g]
                       ELSE [by |-> r.user, status |-> "pending", archived |-> FALSE,
                             object |-> "none", blind |-> FALSE, excused |-> FALSE]]
         /\ inflight' = (inflight \ {r}) \cup {[r EXCEPT !.op = "file.put", !.data.id = f]}
  BY DEF RequestUpload
<1>. DEFINE x == [by |-> r.user, status |-> "pending", archived |-> FALSE,
                  object |-> "none", blind |-> FALSE, excused |-> FALSE]
            q == [r EXCEPT !.op = "file.put", !.data.id = f]
<1>3. x \in FileRow /\ x.status = "pending" /\ ~x.archived
  BY <1>1 DEF FileRow, FileRequest
<1>4. /\ DOMAIN file' = DOMAIN file \cup {f} /\ file'[f] = x
      /\ \A g \in DOMAIN file : file'[g] = file[g]
  BY <1>2
<1>5. q = [op |-> "file.put", user |-> r.user, id |-> r.id, data |-> [id |-> f]]
  <2>1. /\ r = [op |-> r.op, user |-> r.user, id |-> r.id, data |-> r.data]
        /\ r.data = [id |-> r.data.id]
    BY <1>1 DEF FileRequest
  <2>. DEFINE d == [r.data EXCEPT !.id = f]
  <2>2. d = [id |-> f]
    BY <2>1
  <2>3. q = [r EXCEPT !.op = "file.put", !.data = d]
    BY <2>1
  <2>. HIDE DEF d, q
  <2>4. q = [op |-> "file.put", user |-> r.user, id |-> r.id, data |-> d]
    BY <2>1, <2>3
  <2>. QED
    BY <2>2, <2>4
<1>6. inflight' = (inflight \ {r}) \cup {q}
  BY <1>2
<1>. HIDE DEF x, q
<1>7. FileRequest(q)'
  BY <1>1, <1>4, <1>5 DEF FileRequest, FileOps
<1>8. (\A p \in inflight : FileRequest(p))'
  <2>1. \A p \in inflight : FileRequest(p)
    BY DEF FileInv
  <2>2. \A p \in inflight : FileRequest(p)'
    BY <1>4, <2>1, FileRequestStays
  <2>. QED
    BY <1>6, <1>7, <2>2
<1>9. UploadsTypeOK' /\ ServesItsBytes'
  BY <1>3, <1>4 DEF FileInv, UploadsTypeOK, ServesItsBytes
<1>10. DeletedBytesGone'
  BY <1>1, <1>3, <1>4, <1>6 DEF FileInv, DeletedBytesGone
<1>. QED
  BY <1>8, <1>9, <1>10 DEF FileInv

\* Pending files are failed when they are old.
LEMMA FileSweeps ==
  ASSUME FileInv, NEW old \in SUBSET DOMAIN file, SweepStale(old)
  PROVE  FileInv'
<1>1. /\ DOMAIN file' = DOMAIN file /\ inflight' = inflight
      /\ \A f \in old : file'[f] = [file[f] EXCEPT !.status = "failed"]
      /\ \A f \in DOMAIN file \ old : file'[f] = file[f]
  BY DEF SweepStale, requestVars
<1>2. \A f \in DOMAIN file : file[f] \in FileRow
  BY DEF FileInv, UploadsTypeOK
<1>3. \A f \in DOMAIN file :
        /\ file'[f] \in FileRow
        /\ file'[f].archived = file[f].archived /\ file'[f].object = file[f].object
        /\ file'[f].excused = file[f].excused /\ file'[f].blind = file[f].blind
        /\ file'[f].status = "completed" => file[f].status = "completed"
  <2>. TAKE f \in DOMAIN file
  <2>1. CASE f \in old
    <3>1. file[f] \in FileRow /\ file'[f] = [file[f] EXCEPT !.status = "failed"]
      BY <1>1, <1>2, <2>1
    <3>2. /\ file'[f] \in FileRow /\ file'[f].status = "failed"
          /\ file'[f].archived = file[f].archived /\ file'[f].object = file[f].object
          /\ file'[f].excused = file[f].excused /\ file'[f].blind = file[f].blind
      BY <3>1 DEF FileRow
    <3>. QED
      BY <3>2
  <2>2. CASE f \notin old
    BY <1>1, <1>2, <2>2
  <2>. QED
    BY <2>1, <2>2
<1>4. (\A p \in inflight : FileRequest(p))'
  <2>1. \A p \in inflight : FileRequest(p)
    BY DEF FileInv
  <2>2. \A p \in inflight : FileRequest(p)'
    BY <1>1, <1>3, <2>1, FileRequestStays
  <2>. QED
    BY <1>1, <2>2
<1>5. UploadsTypeOK' /\ ServesItsBytes'
  BY <1>1, <1>3 DEF FileInv, UploadsTypeOK, ServesItsBytes
<1>6. DeletedBytesGone'
  BY <1>1, <1>3 DEF FileInv, DeletedBytesGone
<1>. QED
  BY <1>4, <1>5, <1>6 DEF FileInv

\* The invariant of the files is kept by every step of the board system.
LEMMA FilesStep == FilesInv /\ [Next]_vars => FilesInv'
<1>. SUFFICES ASSUME FilesInv, [Next]_vars PROVE FilesInv'
  OBVIOUS
<1>0. focus' = focus
  BY DEF Next, vars
<1>1. CASE focus # "files"
  <2>1. file' = file
    BY <1>1 DEF Next, vars, ContentsNext, contentVars
  <2>. QED
    BY <1>0, <1>1, <2>1 DEF FilesInv
<1>2. CASE focus = "files"
  <2>. SUFFICES FileInv'
    BY <1>0, <1>2 DEF FilesInv
  <2>1. FileInv
    BY <1>2 DEF FilesInv
  <2>2. CASE UNCHANGED <<file, inflight>>
    BY <2>1, <2>2, FilesAlone
  <2>3. CASE UploadsNext
    BY <2>1, <2>3, FileAsks, FileConfirmReads, FilePuts, FileConfirms, FileArchives,
       FileObjectGoes, FileRequested, FileSweeps DEF UploadsNext
  <2>4. CASE Closing /\ UNCHANGED file
    BY <2>1, <2>4, FileAsks, FileCloses DEF Closing
  <2>5. [ContentsNext]_contentVars
    BY DEF Next, vars
  <2>. QED
    BY <1>2, <2>2, <2>3, <2>4, <2>5 DEF ContentsNext, contentVars, requestVars
<1>. QED
  BY <1>1, <1>2

\* However uploads, confirmations by anybody, deletions and the sweep overlap,
\* the bytes that were in the store when FileService.confirm completed a row
\* are there as long as the file can be downloaded, and FileService.delete
\* leaves no bytes behind unless the store refused or they arrived late.
THEOREM BoardFilesMatch == Spec => []FilesMatchStore
<1>1. Init => FilesInv
  <2>. SUFFICES ASSUME Init PROVE FilesInv
    OBVIOUS
  <2>1. file = <<>> /\ inflight = {}
    BY DEF Init, ContentsInit, UploadsInit
  <2>2. DOMAIN file = {}
    BY <2>1
  <2>. QED
    BY <2>1, <2>2 DEF FilesInv, FileInv, UploadsTypeOK, ServesItsBytes, DeletedBytesGone
<1>2. FilesInv => FilesMatchStore
  <2>1. file = <<>> => DOMAIN file = {}
    OBVIOUS
  <2>. QED
    BY <2>1 DEF FilesInv, FileInv, FilesMatchStore, ServesItsBytes, DeletedBytesGone
<1>. QED
  BY <1>1, <1>2, FilesStep, PTL DEF Spec

-----------------------------------------------------------------------------
(* Listeners: what they hold while they are at work *)

CardEvents == {"comment.created", "card.status_changed", "card.priority_changed"}

\* The users who were assigned all the while are assigned now, and the ones
\* assigned now were assigned at some time, since each event.
Witnessed ==
    \A i \in DOMAIN events :
        /\ events[i].always \subseteq Assignees
        /\ Assignees \subseteq events[i].since

AnyEvent == [name : Names \cup Handled, actor : Users, whom : SUBSET Users,
             since : SUBSET Users, always : SUBSET Users]

EventsTyped ==
    /\ card \in [assigned : SUBSET Members, live : BOOLEAN]
    /\ events \in Seq(AnyEvent)
    /\ jobs \subseteq Job
    /\ \A j \in jobs : j.event \in DOMAIN events

\* A listener is started once for an event, and none of another is taken
\* for it.
OneListener == \A j, k \in jobs : j.event = k.event /\ j.kind = k.kind => j = k

\* The listener that will insert the row or send the mail has not yet.
TracePending ==
    /\ \A x \in DOMAIN feed :
         /\ x.event \in DOMAIN events /\ feed[x] = 1
         /\ \A y \in DOMAIN feed : y.event = x.event => y = x
         /\ \A j \in jobs : ~(j.event = x.event /\ j.kind = "activity")
    /\ \A i \in DOMAIN mails :
         /\ i \in DOMAIN events /\ mails[i] = 1
         /\ \A j \in jobs : ~(j.event = i /\ j.kind = "mail")

\* Every listener an event has is at work, has left its trace or has failed.
TraceOwed ==
    \A i \in DOMAIN events :
        /\ events[i].name \in DOMAIN Recorded
             => \/ AtWork(i, "activity") \/ <<i, "activity">> \in failed
                \/ \E x \in DOMAIN feed : x.event = i
        /\ events[i].name \in MailEvents
             => AtWork(i, "mail") \/ <<i, "mail">> \in failed \/ i \in DOMAIN mails

\* What a listener has left to publish is for the right users.
AddressedJob(j) ==
    LET e == events[j.event] IN
    /\ j.step \notin {"publish", "mention"} => j.to = {}
    /\ j.kind = "mail" => j.step = "write"
    /\ j.kind = "activity" => j.step \in {"resolve", "write"}
    /\ j.kind = "notify" =>
         /\ j.step # "write"
         /\ e.name \in DOMAIN NotificationType
         /\ e.name = "card.assignee_added" => e.actor \notin e.whom
    /\ j.step = "publish" =>
         /\ e.name = "card.assignee_added" => j.to \subseteq e.whom
         /\ e.name \in CardEvents => j.to \subseteq e.since \ {e.actor}
    /\ j.step = "mention" => e.name = "comment.created" /\ j.to \subseteq e.whom \cap Members

Addressed == \A j \in jobs : AddressedJob(j)

\* User u has been told of card event i, not by a mention.
Told(i, u) == \E n \in notices : n.event = i /\ n.to = u /\ n.type # "comment_mentioned"

\* The listener has u to tell, or has not read the assignees yet.
StillTo(j, u) ==
    /\ j.kind = "notify"
    /\ j.step \in {"resolve", "read"} \/ (j.step = "publish" /\ u \in j.to)

\* Whoever was assigned all the while is told, or will be, or the listener
\* has failed.
NoticeOwed ==
    \A i \in DOMAIN events :
        events[i].name \in CardEvents /\ <<i, "notify">> \notin failed =>
            \A u \in events[i].always \ {events[i].actor} :
                Told(i, u) \/ \E j \in jobs : j.event = i /\ StillTo(j, u)

\* A notification that is about its event and for one of its users.
NoticeFits(n) ==
    LET e == events[n.event] IN
    /\ n.event \in DOMAIN events
    /\ n.to = e.actor => n.type \in {"comment_mentioned", "workspace_invited",
                                     "workspace_role_changed"}
    /\ n.type = "comment_mentioned" => n.to \in e.whom \cap Members
    /\ e.name \in CardEvents /\ n.type # "comment_mentioned" => n.to \in e.since

NoticesFit == \A n \in notices : NoticeFits(n)

\* The inductive invariant of the listeners.
ListenersInv ==
    /\ EventsTyped /\ Witnessed /\ OneListener
    /\ TracePending /\ TraceOwed
    /\ Addressed /\ NoticeOwed /\ NoticesFit

\* A listener takes a step: what it becomes, if anything.
Becomes(j) == jobs' \ (jobs \ {j})

LEMMA ListenerMoves ==
  ASSUME ListenersInv, NEW j \in jobs,
         UNCHANGED <<card, events>>,
         jobs \ {j} \subseteq jobs',
         \A k \in Becomes(j) : k \in Job /\ k.event = j.event /\ k.kind = j.kind /\ AddressedJob(k),
         \A k, l \in Becomes(j) : k = l
  PROVE  EventsTyped' /\ Witnessed' /\ OneListener' /\ Addressed'
<1>1. EventsTyped'
  BY DEF ListenersInv, EventsTyped, Becomes
<1>2. Witnessed'
  BY DEF ListenersInv, Witnessed, Assignees
<1>3. OneListener'
  BY DEF ListenersInv, OneListener, Becomes
<1>4. Addressed'
  <2>1. \A k \in jobs' : AddressedJob(k)
    BY DEF ListenersInv, Addressed, Becomes
  <2>2. \A k \in jobs' : AddressedJob(k)'
    BY <2>1 DEF AddressedJob
  <2>. QED
    BY <2>2 DEF Addressed
<1>. QED
  BY <1>1, <1>2, <1>3, <1>4

\* It inserts no row and sends no mail: it goes on, or has failed, or owed none.
LEMMA TracesAlone ==
  ASSUME ListenersInv, NEW j \in jobs,
         UNCHANGED <<events, feed, mails>>, failed \subseteq failed',
         jobs \ {j} \subseteq jobs',
         \A k \in Becomes(j) : k.event = j.event /\ k.kind = j.kind,
         Becomes(j) # {} \/ j.kind = "notify" \/ <<j.event, j.kind>> \in failed'
  PROVE  TracePending' /\ TraceOwed'
<1>1. TracePending'
  BY DEF ListenersInv, TracePending, Becomes
<1>2. ASSUME NEW i, NEW kind \in {"activity", "mail"}, AtWork(i, kind)
      PROVE  AtWork(i, kind)' \/ <<i, kind>> \in failed'
  BY <1>2 DEF AtWork, Becomes
<1>3. TraceOwed'
  BY <1>2 DEF ListenersInv, TraceOwed
<1>. QED
  BY <1>1, <1>3

\* It publishes nothing, or only what fits.
LEMMA NoticesMove ==
  ASSUME ListenersInv, NEW j \in jobs,
         UNCHANGED events, failed \subseteq failed', notices \subseteq notices',
         jobs \ {j} \subseteq jobs',
         \A k \in Becomes(j) : k.event = j.event,
         \A n \in notices' \ notices : NoticeFits(n),
         \A u \in events[j.event].always \ {events[j.event].actor} :
            StillTo(j, u) /\ events[j.event].name \in CardEvents
              => \/ <<j.event, "notify">> \in failed'
                 \/ Told(j.event, u)'
                 \/ \E k \in Becomes(j) : StillTo(k, u)
  PROVE  NoticesFit' /\ NoticeOwed'
<1>1. NoticesFit'
  <2>1. \A n \in notices' : NoticeFits(n)
    BY DEF ListenersInv, NoticesFit
  <2>2. \A n \in notices' : NoticeFits(n)'
    BY <2>1 DEF NoticeFits
  <2>. QED
    BY <2>2 DEF NoticesFit
<1>2. NoticeOwed'
  <2>. SUFFICES ASSUME NEW i \in DOMAIN events, events[i].name \in CardEvents,
                       <<i, "notify">> \notin failed',
                       NEW u \in events[i].always \ {events[i].actor}
                PROVE  Told(i, u)' \/ \E k \in jobs' : k.event = i /\ StillTo(k, u)
    BY DEF NoticeOwed, StillTo
  <2>1. Told(i, u) \/ \E k \in jobs : k.event = i /\ StillTo(k, u)
    BY DEF ListenersInv, NoticeOwed
  <2>2. Told(i, u) => Told(i, u)'
    BY DEF Told
  <2>. QED
    BY <2>1, <2>2 DEF Becomes
<1>. QED
  BY <1>1, <1>2

Steps == {"resolve", "read", "publish", "mention", "write"}

LEMMA JobGoesOn ==
  ASSUME ListenersInv, NEW j \in jobs, NEW step \in Steps, NEW to \in SUBSET Users,
         GoesOn(j, step, to)
  PROVE  \E k \in Job : /\ jobs \ {j} \subseteq jobs' /\ Becomes(j) = {k}
                        /\ k.event = j.event /\ k.kind = j.kind
                        /\ k.step = step /\ k.to = to
<1>. DEFINE k == [j EXCEPT !.step = step, !.to = to]
<1>1. j \in Job
  BY DEF ListenersInv, EventsTyped
<1>2. /\ k \in Job /\ k.event = j.event /\ k.kind = j.kind
      /\ k.step = step /\ k.to = to
  BY <1>1 DEF Job, Steps
<1>3. jobs' = (jobs \ {j}) \cup {k}
  BY DEF GoesOn
<1>. HIDE DEF k
<1>4. Becomes(j) = {k}
  BY <1>2, <1>3 DEF Becomes, ListenersInv, OneListener
<1>. QED
  BY <1>2, <1>3, <1>4

LEMMA JobParts ==
  ASSUME ListenersInv, NEW j \in jobs
  PROVE  /\ j.event \in DOMAIN events /\ events[j.event] \in AnyEvent
         /\ j.kind \in Kinds /\ j.step \in Steps /\ j.to \in SUBSET Users
         /\ AddressedJob(j) /\ EventsTyped
<1>1. j \in Job /\ j.event \in DOMAIN events /\ events \in Seq(AnyEvent)
  BY DEF ListenersInv, EventsTyped
<1>2. events[j.event] \in AnyEvent
  BY <1>1
<1>. QED
  BY <1>1, <1>2 DEF Job, Steps, ListenersInv, Addressed

\* The failure of one listener, and the broker that refuses one message.
LEMMA ListenerFails ==
  ASSUME ListenersInv, NEW j \in jobs, Fails(j)
  PROVE  ListenersInv'
<1>1. /\ jobs' = jobs \ {j}
      /\ failed' = failed \cup {<<j.event, j.kind>>}
      /\ UNCHANGED <<card, events, feed, notices, mails>>
  BY DEF Fails, Ends
<1>2. EventsTyped' /\ Witnessed' /\ OneListener' /\ Addressed'
  BY <1>1, ListenerMoves DEF Becomes
<1>3. TracePending' /\ TraceOwed'
  BY <1>1, TracesAlone DEF Becomes
<1>4. NoticesFit' /\ NoticeOwed'
  BY <1>1, NoticesMove DEF Becomes, StillTo
<1>. QED
  BY <1>2, <1>3, <1>4 DEF ListenersInv

LEMMA ListenerResolves ==
  ASSUME ListenersInv, NEW j \in jobs, Resolve(j)
  PROVE  ListenersInv'
<1>1. j.step = "resolve" /\ UNCHANGED <<card, events, feed, notices, mails>>
  BY DEF Resolve
<1>2. CASE Ends(j) /\ failed' = failed \cup {<<j.event, j.kind>>}
  <2>1. jobs' = jobs \ {j}
    BY <1>2 DEF Ends
  <2>2. EventsTyped' /\ Witnessed' /\ OneListener' /\ Addressed'
    BY <1>1, <2>1, ListenerMoves DEF Becomes
  <2>3. TracePending' /\ TraceOwed'
    BY <1>1, <1>2, <2>1, TracesAlone DEF Becomes
  <2>4. NoticesFit' /\ NoticeOwed'
    BY <1>1, <1>2, <2>1, NoticesMove DEF Becomes, StillTo
  <2>. QED
    BY <2>2, <2>3, <2>4 DEF ListenersInv
<1>3. CASE /\ GoesOn(j, IF j.kind = "activity" THEN "write" ELSE "read", {})
           /\ UNCHANGED failed
  <2>. DEFINE step == IF j.kind = "activity" THEN "write" ELSE "read"
  <2>1. step \in Steps
    BY DEF Steps
  <2>2. PICK k \in Job : /\ jobs \ {j} \subseteq jobs' /\ Becomes(j) = {k}
                         /\ k.event = j.event /\ k.kind = j.kind
                         /\ k.step = step /\ k.to = {}
    BY <1>3, <2>1, JobGoesOn, JobParts
  <2>3. AddressedJob(k)
    BY <1>1, <2>2, JobParts DEF AddressedJob, Kinds
  <2>4. EventsTyped' /\ Witnessed' /\ OneListener' /\ Addressed'
    BY <1>1, <2>2, <2>3, ListenerMoves
  <2>5. TracePending' /\ TraceOwed'
    BY <1>1, <1>3, <2>2, TracesAlone
  <2>6. \A u : StillTo(j, u) => StillTo(k, u)
    BY <2>2 DEF StillTo
  <2>7. NoticesFit' /\ NoticeOwed'
    BY <1>1, <1>3, <2>2, <2>6, NoticesMove
  <2>. QED
    BY <2>4, <2>5, <2>7 DEF ListenersInv
<1>. QED
  BY <1>2, <1>3 DEF Resolve

LEMMA ListenerRecords ==
  ASSUME ListenersInv, NEW j \in jobs, Record(j)
  PROVE  ListenersInv'
<1>. DEFINE x == [event |-> j.event, what |-> Recorded[events[j.event].name],
                  actorId |-> ActorId(events[j.event])]
<1>add. feed' = feed (+) SetToBag({x})
  BY DEF Record
<1>1. /\ j.kind = "activity"
      /\ jobs' = jobs \ {j}
      /\ UNCHANGED <<card, events, notices, mails, failed>>
  BY DEF Record, Ends
<1>2. x.event = j.event
  OBVIOUS
<1>. HIDE DEF x
<1>3. x \notin DOMAIN feed
  BY <1>1, <1>2 DEF ListenersInv, TracePending
<1>once. \A y \in DOMAIN feed : feed[y] = 1
  BY DEF ListenersInv, TracePending
<1>4. /\ DOMAIN feed' = DOMAIN feed \cup {x} /\ feed'[x] = 1
      /\ \A y \in DOMAIN feed : feed'[y] = feed[y]
  BY <1>add, <1>3, <1>once DEF (+), SetToBag
<1>5. EventsTyped' /\ Witnessed' /\ OneListener' /\ Addressed'
  BY <1>1, ListenerMoves DEF Becomes
<1>6. TracePending'
  BY <1>1, <1>2, <1>4, JobParts DEF ListenersInv, TracePending, OneListener
<1>7. TraceOwed'
  <2>1. \A i : AtWork(i, "activity") => AtWork(i, "activity")' \/ i = x.event
    BY <1>1, <1>2 DEF AtWork
  <2>2. \A i : AtWork(i, "mail") => AtWork(i, "mail")'
    BY <1>1 DEF AtWork
  <2>. QED
    BY <1>1, <1>4, <2>1, <2>2 DEF ListenersInv, TraceOwed
<1>8. NoticesFit' /\ NoticeOwed'
  BY <1>1, NoticesMove DEF Becomes, StillTo
<1>. QED
  BY <1>5, <1>6, <1>7, <1>8 DEF ListenersInv

LEMMA ListenerMails ==
  ASSUME ListenersInv, NEW j \in jobs, SendMail(j)
  PROVE  ListenersInv'
<1>add. mails' = mails (+) SetToBag({j.event})
  BY DEF SendMail
<1>1. /\ j.kind = "mail"
      /\ jobs' = jobs \ {j}
      /\ UNCHANGED <<card, events, notices, feed, failed>>
  BY DEF SendMail, Ends
<1>2. j.event \notin DOMAIN mails
  BY <1>1 DEF ListenersInv, TracePending
<1>once. \A i \in DOMAIN mails : mails[i] = 1
  BY DEF ListenersInv, TracePending
<1>3. /\ DOMAIN mails' = DOMAIN mails \cup {j.event} /\ mails'[j.event] = 1
      /\ \A i \in DOMAIN mails : mails'[i] = mails[i]
  BY <1>add, <1>2, <1>once DEF (+), SetToBag
<1>4. EventsTyped' /\ Witnessed' /\ OneListener' /\ Addressed'
  BY <1>1, ListenerMoves DEF Becomes
<1>5. TracePending'
  BY <1>1, <1>3, JobParts DEF ListenersInv, TracePending, OneListener
<1>6. TraceOwed'
  <2>1. \A i : AtWork(i, "mail") => AtWork(i, "mail")' \/ i = j.event
    BY <1>1 DEF AtWork
  <2>2. \A i : AtWork(i, "activity") => AtWork(i, "activity")'
    BY <1>1 DEF AtWork
  <2>. QED
    BY <1>1, <1>3, <2>1, <2>2 DEF ListenersInv, TraceOwed
<1>7. NoticesFit' /\ NoticeOwed'
  BY <1>1, NoticesMove DEF Becomes, StillTo
<1>. QED
  BY <1>4, <1>5, <1>6, <1>7 DEF ListenersInv

\* The assignees are read: whoever was assigned all the while is among them,
\* and nobody who was not at some time.
LEMMA ListenerReads ==
  ASSUME ListenersInv, NEW j \in jobs, ReadRecipients(j)
  PROVE  ListenersInv'
<1>. DEFINE e == events[j.event]
            to == Recipients(e)
<1>1. /\ j.kind = "notify" /\ j.step = "read" /\ GoesOn(j, "publish", to)
      /\ UNCHANGED <<card, events, feed, notices, mails, failed>>
  BY DEF ReadRecipients
<1>2. /\ e \in AnyEvent /\ e.always \subseteq Assignees /\ Assignees \subseteq e.since
      /\ Assignees \in SUBSET Users
  BY JobParts DEF ListenersInv, Witnessed, EventsTyped, Assignees, Users
<1>3. to \in SUBSET Users
  BY <1>2 DEF Recipients, AnyEvent
<1>4. PICK k \in Job : /\ jobs \ {j} \subseteq jobs' /\ Becomes(j) = {k}
                       /\ k.event = j.event /\ k.kind = j.kind
                       /\ k.step = "publish" /\ k.to = to
  BY <1>1, <1>3, JobGoesOn DEF Steps
<1>5. /\ e.name = "card.assignee_added" => to \subseteq e.whom
      /\ e.name \in CardEvents => to = Assignees \ {e.actor}
  BY DEF Recipients, CardEvents
<1>6. AddressedJob(k)
  BY <1>1, <1>2, <1>4, <1>5, JobParts DEF AddressedJob
<1>7. EventsTyped' /\ Witnessed' /\ OneListener' /\ Addressed'
  BY <1>1, <1>4, <1>6, ListenerMoves
<1>8. TracePending' /\ TraceOwed'
  BY <1>1, <1>4, TracesAlone
<1>9. \A u \in e.always \ {e.actor} : e.name \in CardEvents => StillTo(k, u)
  BY <1>1, <1>2, <1>4, <1>5 DEF StillTo
<1>10. NoticesFit' /\ NoticeOwed'
  BY <1>1, <1>4, <1>9, NoticesMove
<1>. QED
  BY <1>7, <1>8, <1>10 DEF ListenersInv

\* One user less to tell: u is told, or the listener has failed.
LEMMA OneLess ==
  ASSUME ListenersInv, NEW j \in jobs, NEW u \in j.to, GoesOn(j, j.step, j.to \ {u}),
         UNCHANGED <<card, events, feed, mails>>,
         failed \subseteq failed', notices \subseteq notices',
         \A n \in notices' \ notices : NoticeFits(n),
         \/ <<j.event, j.kind>> \in failed'
         \/ j.step = "publish" /\ events[j.event].name \in CardEvents => Told(j.event, u)'
  PROVE  ListenersInv'
<1>1. j.to \in SUBSET Users /\ j.step \in Steps /\ j.step \in {"publish", "mention"}
  BY JobParts DEF AddressedJob
<1>2. PICK k \in Job : /\ jobs \ {j} \subseteq jobs' /\ Becomes(j) = {k}
                       /\ k.event = j.event /\ k.kind = j.kind
                       /\ k.step = j.step /\ k.to = j.to \ {u}
  <2>1. j.to \ {u} \in SUBSET Users
    BY <1>1
  <2>. QED
    BY <1>1, <2>1, JobGoesOn
<1>3. AddressedJob(k)
  BY <1>1, <1>2, JobParts DEF AddressedJob
<1>4. EventsTyped' /\ Witnessed' /\ OneListener' /\ Addressed'
  BY <1>2, <1>3, ListenerMoves
<1>5. TracePending' /\ TraceOwed'
  BY <1>2, TracesAlone
<1>6. \A v : StillTo(j, v) => StillTo(k, v) \/ (v = u /\ j.step = "publish" /\ j.kind = "notify")
  BY <1>1, <1>2 DEF StillTo
<1>7. NoticesFit' /\ NoticeOwed'
  BY <1>2, <1>6, NoticesMove
<1>. QED
  BY <1>4, <1>5, <1>7 DEF ListenersInv

LEMMA ListenerPublishes ==
  ASSUME ListenersInv, NEW j \in jobs, NEW u \in j.to, Publish(j, u) \/ PublishFails(j, u)
  PROVE  ListenersInv'
<1>1. CASE PublishFails(j, u)
  <2>1. /\ GoesOn(j, j.step, j.to \ {u})
        /\ failed' = failed \cup {<<j.event, j.kind>>}
        /\ UNCHANGED <<card, events, feed, mails, notices>>
    BY <1>1 DEF PublishFails
  <2>. QED
    BY <2>1, OneLess
<1>2. CASE Publish(j, u)
  <2>. DEFINE e == events[j.event]
              type == IF j.step = "mention" THEN "comment_mentioned"
                      ELSE NotificationType[e.name]
              n == [event |-> j.event, to |-> u, type |-> type]
  <2>1. /\ GoesOn(j, j.step, j.to \ {u}) /\ notices' = notices \cup {n}
        /\ UNCHANGED <<card, events, feed, mails, failed>>
    BY <1>2 DEF Publish
  <2>2. n.event = j.event /\ n.to = u /\ n.type = type
    OBVIOUS
  <2>3. /\ j.step \in {"publish", "mention"} /\ j.kind = "notify"
        /\ j.event \in DOMAIN events /\ e.name \in DOMAIN NotificationType
        /\ AddressedJob(j)
    BY JobParts DEF AddressedJob, Kinds
  <2>4. CASE j.step = "mention"
    <3>1. type = "comment_mentioned" /\ u \in e.whom \cap Members
      BY <2>3, <2>4 DEF AddressedJob
    <3>2. NoticeFits(n)
      BY <2>2, <2>3, <3>1 DEF NoticeFits
    <3>. HIDE DEF n
    <3>. QED
      BY <2>1, <2>4, <3>2, OneLess
  <2>5. CASE j.step = "publish"
    <3>1. type = NotificationType[e.name]
      BY <2>5
    <3>2. /\ type # "comment_mentioned"
          /\ e.name \in CardEvents \cup {"card.assignee_added"}
             \/ type \in {"workspace_invited", "workspace_role_changed"}
      BY <2>3, <3>1 DEF NotificationType, CardEvents
    <3>3. /\ e.name \in CardEvents => u \in e.since /\ u # e.actor
          /\ e.name = "card.assignee_added" => u # e.actor
      BY <2>3, <2>5 DEF AddressedJob
    <3>. HIDE DEF type
    <3>4. NoticeFits(n)
      BY <2>2, <2>3, <3>2, <3>3 DEF NoticeFits
    <3>5. Told(j.event, u)'
      BY <2>1, <2>2, <3>2 DEF Told
    <3>. HIDE DEF n
    <3>. QED
      BY <2>1, <3>4, <3>5, OneLess
  <2>. QED
    BY <2>3, <2>4, <2>5
<1>. QED
  BY <1>1, <1>2

\* Nobody is left to tell: the mentions come next, or nothing.
LEMMA ListenerPublished ==
  ASSUME ListenersInv, NEW j \in jobs, Published(j)
  PROVE  ListenersInv'
<1>1. /\ j.step \in {"publish", "mention"} /\ j.to = {}
      /\ UNCHANGED <<card, events, feed, notices, mails, failed>>
  BY DEF Published
<1>2. j.kind = "notify" /\ \A u : ~StillTo(j, u)
  BY <1>1, JobParts DEF AddressedJob, Kinds, StillTo
<1>3. CASE Ends(j)
  <2>1. jobs' = jobs \ {j}
    BY <1>3 DEF Ends
  <2>2. EventsTyped' /\ Witnessed' /\ OneListener' /\ Addressed'
    BY <1>1, <2>1, ListenerMoves DEF Becomes
  <2>3. TracePending' /\ TraceOwed'
    BY <1>1, <1>2, <2>1, TracesAlone DEF Becomes
  <2>4. NoticesFit' /\ NoticeOwed'
    BY <1>1, <1>2, <2>1, NoticesMove DEF Becomes
  <2>. QED
    BY <2>2, <2>3, <2>4 DEF ListenersInv
<1>4. CASE /\ events[j.event].name = "comment.created"
           /\ GoesOn(j, "mention", events[j.event].whom \cap Members)
  <2>. DEFINE to == events[j.event].whom \cap Members
  <2>1. to \in SUBSET Users
    BY DEF Users
  <2>2. PICK k \in Job : /\ jobs \ {j} \subseteq jobs' /\ Becomes(j) = {k}
                         /\ k.event = j.event /\ k.kind = j.kind
                         /\ k.step = "mention" /\ k.to = to
    BY <1>4, <2>1, JobGoesOn DEF Steps
  <2>3. AddressedJob(k)
    BY <1>2, <1>4, <2>2, JobParts DEF AddressedJob
  <2>4. EventsTyped' /\ Witnessed' /\ OneListener' /\ Addressed'
    BY <1>1, <2>2, <2>3, ListenerMoves
  <2>5. TracePending' /\ TraceOwed'
    BY <1>1, <1>2, <2>2, TracesAlone
  <2>6. NoticesFit' /\ NoticeOwed'
    BY <1>1, <1>2, <2>2, NoticesMove
  <2>. QED
    BY <2>4, <2>5, <2>6 DEF ListenersInv
<1>. QED
  BY <1>3, <1>4 DEF Published

LEMMA ListenersCrash ==
  ASSUME ListenersInv, Crash
  PROVE  ListenersInv'
<1>1. /\ jobs' = {} /\ failed \subseteq failed'
      /\ \A j \in jobs : <<j.event, j.kind>> \in failed'
      /\ UNCHANGED <<card, events, feed, notices, mails>>
  BY DEF Crash
<1>2. EventsTyped' /\ Witnessed' /\ OneListener' /\ Addressed'
  BY <1>1 DEF ListenersInv, EventsTyped, Witnessed, Assignees, OneListener, Addressed
<1>3. TracePending'
  BY <1>1 DEF ListenersInv, TracePending
<1>4. TraceOwed'
  BY <1>1 DEF ListenersInv, TraceOwed, AtWork
<1>5. NoticesFit'
  BY <1>1 DEF ListenersInv, NoticesFit, NoticeFits
<1>6. NoticeOwed'
  BY <1>1 DEF ListenersInv, NoticeOwed, Told, StillTo
<1>. QED
  BY <1>2, <1>3, <1>4, <1>5, <1>6 DEF ListenersInv

-----------------------------------------------------------------------------
(* Events: a new one is fresh to every listener, the others only age *)

\* The indices of a sequence say how long it is.
LEMMA SameBounds ==
  ASSUME NEW m \in Nat, NEW n \in Nat, 1..m = 1..n
  PROVE  m = n
<1>1. m = 0 \/ m \in 1..n
  OBVIOUS
<1>2. n = 0 \/ n \in 1..m
  OBVIOUS
<1>. QED
  BY <1>1, <1>2

LEMMA OneMore ==
  ASSUME NEW n \in Nat
  PROVE  1..(n + 1) = (1..n) \cup {n + 1} /\ n + 1 \notin 1..n
<1>1. \A i \in 1..(n + 1) : i \in 1..n \/ i = n + 1
  OBVIOUS
<1>2. (1..n) \cup {n + 1} \subseteq 1..(n + 1)
  OBVIOUS
<1>3. n + 1 \notin 1..n
  OBVIOUS
<1>. QED
  BY <1>1, <1>2, <1>3, Zenon

\* A function on 1..n is a sequence of length n.
LEMMA OnIndices ==
  ASSUME NEW S, NEW n \in Nat, NEW f \in [1..n -> S]
  PROVE  f \in Seq(S) /\ Len(f) = n
<1>1. f \in Seq(S)
  BY SeqDef
<1>2. Len(f) \in Nat /\ DOMAIN f = 1..Len(f) /\ DOMAIN f = 1..n
  BY <1>1, LenProperties
<1>. QED
  BY <1>1, <1>2, SameBounds

LEMMA EventFields ==
  ASSUME NEW n, NEW a, NEW w, NEW s
  PROVE  LET e == [name |-> n, actor |-> a, whom |-> w, since |-> s, always |-> s]
         IN  e.name = n /\ e.actor = a /\ e.whom = w /\ e.since = s /\ e.always = s
OBVIOUS

\* The events after one more.
LEMMA EventsAfter ==
  ASSUME EventsTyped, NEW seen \in SUBSET Users, NEW e \in AnyEvent,
         events' = Append([i \in DOMAIN events |->
                             [events[i] EXCEPT !.since = @ \cup seen, !.always = @ \cap seen]], e)
  PROVE  /\ events' \in Seq(AnyEvent)
         /\ Len(events) + 1 \notin DOMAIN events
         /\ DOMAIN events' = DOMAIN events \cup {Len(events) + 1}
         /\ events'[Len(events) + 1] = e
         /\ \A i \in DOMAIN events :
              /\ events'[i].name = events[i].name /\ events'[i].actor = events[i].actor
              /\ events'[i].whom = events[i].whom
              /\ events'[i].since = events[i].since \cup seen
              /\ events'[i].always = events[i].always \cap seen
<1>. DEFINE n == Len(events)
            Aged(i) == [events[i] EXCEPT !.since = @ \cup seen, !.always = @ \cap seen]
            old == [i \in 1..n |-> Aged(i)]
<1>0. events \in Seq(AnyEvent)
  BY DEF EventsTyped
<1>1. n \in Nat /\ DOMAIN events = 1..n /\ \A i \in 1..n : events[i] \in AnyEvent
  BY <1>0, LenProperties, ElementOfSeq
<1>2. \A i \in 1..n :
        /\ Aged(i) \in AnyEvent
        /\ Aged(i).name = events[i].name /\ Aged(i).actor = events[i].actor
        /\ Aged(i).whom = events[i].whom
        /\ Aged(i).since = events[i].since \cup seen
        /\ Aged(i).always = events[i].always \cap seen
  BY <1>1 DEF AnyEvent
<1>. HIDE DEF Aged, n
<1>3. old \in Seq(AnyEvent) /\ Len(old) = n /\ \A i \in 1..n : old[i] = Aged(i)
  <2>1. old \in [1..n -> AnyEvent] /\ \A i \in 1..n : old[i] = Aged(i)
    BY <1>2
  <2>. HIDE DEF old
  <2>. QED
    BY <1>1, <2>1, OnIndices
<1>4. events' = Append(old, e)
  BY <1>1 DEF Aged, n
<1>. HIDE DEF old
<1>5. /\ events' \in Seq(AnyEvent) /\ DOMAIN events' = 1..(n + 1)
      /\ events'[n + 1] = e /\ \A i \in 1..n : events'[i] = old[i]
  <2>1. Append(old, e) \in Seq(AnyEvent) /\ Len(Append(old, e)) = n + 1
    BY <1>3, AppendProperties
  <2>0. old \in Seq(AnyEvent)
    BY <1>3
  <2>2. Append(old, e)[n + 1] = e
    BY ONLY <2>0, <1>3, AppendProperties, e \in AnyEvent
  <2>3. \A i \in 1..n : Append(old, e)[i] = old[i]
    BY ONLY <2>0, <1>3, AppendProperties, e \in AnyEvent
  <2>. QED
    BY <1>4, <2>1, <2>2, <2>3, LenProperties
<1>6. DOMAIN events' = DOMAIN events \cup {n + 1} /\ n + 1 \notin DOMAIN events
  BY <1>1, <1>5, OneMore
<1>7. \A i \in DOMAIN events :
        /\ events'[i].name = events[i].name /\ events'[i].actor = events[i].actor
        /\ events'[i].whom = events[i].whom
        /\ events'[i].since = events[i].since \cup seen
        /\ events'[i].always = events[i].always \cap seen
  <2>. TAKE i \in DOMAIN events
  <2>1. i \in 1..n /\ events'[i] = Aged(i)
    BY <1>1, <1>3, <1>5
  <2>. QED
    BY <1>2, <2>1
<1>. QED
  BY <1>5, <1>6, <1>7 DEF n

\* The listeners that an event starts.
LEMMA Started ==
  ASSUME NEW i \in Nat, NEW name, NEW actor, NEW whom
  PROVE  /\ \A k \in JobsOf(i, name, actor, whom) :
              /\ k \in Job /\ k.event = i /\ k.to = {}
              /\ k.kind = "activity" => k.step = "resolve"
              /\ k.kind = "mail" => k.step = "write"
              /\ k.kind = "notify" =>
                   /\ k.step = "resolve" /\ name \in DOMAIN NotificationType
                   /\ ~(name = "card.assignee_added" /\ whom = {actor})
         /\ \A k, l \in JobsOf(i, name, actor, whom) : k.kind = l.kind => k = l
         /\ name \in DOMAIN Recorded
              => \E k \in JobsOf(i, name, actor, whom) : k.kind = "activity"
         /\ name \in MailEvents
              => \E k \in JobsOf(i, name, actor, whom) : k.kind = "mail"
         /\ name \in CardEvents
              => \E k \in JobsOf(i, name, actor, whom) : k.kind = "notify"
<1>. DEFINE a == [event |-> i, kind |-> "activity", step |-> "resolve", to |-> {}]
            b == [event |-> i, kind |-> "notify", step |-> "resolve", to |-> {}]
            c == [event |-> i, kind |-> "mail", step |-> "write", to |-> {}]
<1>1. {a, b, c} \subseteq Job
  BY DEF Job, Kinds
<1>2. \A k \in JobsOf(i, name, actor, whom) :
        \/ k = a
        \/ /\ k = b /\ name \in DOMAIN NotificationType
           /\ ~(name = "card.assignee_added" /\ whom = {actor})
        \/ k = c
  BY DEF JobsOf
<1>3. /\ name \in DOMAIN Recorded => a \in JobsOf(i, name, actor, whom)
      /\ name \in MailEvents => c \in JobsOf(i, name, actor, whom)
  BY DEF JobsOf
<1>4. name \in CardEvents => b \in JobsOf(i, name, actor, whom)
  <2>1. CardEvents \subseteq DOMAIN NotificationType /\ "card.assignee_added" \notin CardEvents
    BY DEF CardEvents, NotificationType
  <2>. QED
    BY <2>1 DEF JobsOf
<1>5. /\ a.event = i /\ a.kind = "activity" /\ a.step = "resolve" /\ a.to = {}
      /\ b.event = i /\ b.kind = "notify" /\ b.step = "resolve" /\ b.to = {}
      /\ c.event = i /\ c.kind = "mail" /\ c.step = "write" /\ c.to = {}
  OBVIOUS
<1>. HIDE DEF a, b, c
<1>. QED
  BY <1>1, <1>2, <1>3, <1>4, <1>5

\* An event happens: its listeners start, and the others keep what they know.
LEMMA ListenersHappen ==
  ASSUME ListenersInv, NEW name \in Names \cup Handled, NEW actor \in Users,
         NEW whom \in SUBSET Users, NEW b, NEW d,
         NEW c \in [assigned : SUBSET Members, live : BOOLEAN],
         name = "card.assignee_added" => \E v : whom = {v},
         Happen(name, actor, whom, c, b, d)
  PROVE  ListenersInv'
<1>. DEFINE n == Len(events) + 1
            seen == IF c.live THEN c.assigned ELSE {}
            e == [name |-> name, actor |-> actor, whom |-> whom,
                  since |-> seen, always |-> seen]
            J == JobsOf(n, name, actor, whom)
<1>1. /\ card' = c /\ jobs' = jobs \cup J
      /\ UNCHANGED <<feed, notices, mails, failed>>
  BY DEF Happen
<1>e. events' = Append([i \in DOMAIN events |->
                             [events[i] EXCEPT !.since = @ \cup seen, !.always = @ \cap seen]], e)
  BY DEF Happen
<1>2. EventsTyped /\ n \in Nat
  <2>1. EventsTyped /\ events \in Seq(AnyEvent)
    BY DEF ListenersInv, EventsTyped
  <2>. QED
    BY <2>1, LenProperties
<1>3. seen \in SUBSET Users
  BY DEF Users
<1>4. e \in AnyEvent
  BY <1>3 DEF AnyEvent
<1>. HIDE DEF seen, J
<1>5. /\ e.name = name /\ e.actor = actor /\ e.whom = whom
      /\ e.since = seen /\ e.always = seen
  BY EventFields
<1>. HIDE DEF e
<1>6. /\ events' \in Seq(AnyEvent) /\ n \notin DOMAIN events
      /\ DOMAIN events' = DOMAIN events \cup {n} /\ events'[n] = e
      /\ \A i \in DOMAIN events :
           /\ events'[i].name = events[i].name /\ events'[i].actor = events[i].actor
           /\ events'[i].whom = events[i].whom
           /\ events'[i].since = events[i].since \cup seen
           /\ events'[i].always = events[i].always \cap seen
  BY <1>e, <1>2, <1>3, <1>4, EventsAfter
<1>7. Assignees' = seen
  BY <1>1 DEF Assignees, seen
<1>8. /\ \A k \in J :
           /\ k \in Job /\ k.event = n /\ k.to = {}
           /\ k.kind = "activity" => k.step = "resolve"
           /\ k.kind = "mail" => k.step = "write"
           /\ k.kind = "notify" =>
                /\ k.step = "resolve" /\ name \in DOMAIN NotificationType
                /\ ~(name = "card.assignee_added" /\ whom = {actor})
      /\ \A k, l \in J : k.kind = l.kind => k = l
      /\ name \in DOMAIN Recorded => \E k \in J : k.kind = "activity"
      /\ name \in MailEvents => \E k \in J : k.kind = "mail"
      /\ name \in CardEvents => \E k \in J : k.kind = "notify"
  BY <1>2, Started DEF J
<1>. HIDE DEF n
<1>9. \A j \in jobs : j.event \in DOMAIN events /\ j.event # n
  BY <1>2, <1>6 DEF EventsTyped
<1>10. EventsTyped'
  BY <1>1, <1>2, <1>6, <1>8 DEF EventsTyped
<1>11. Witnessed'
  BY <1>5, <1>6, <1>7 DEF Witnessed
<1>12. OneListener'
  <2>. SUFFICES ASSUME NEW j \in jobs', NEW k \in jobs', j.event = k.event, j.kind = k.kind
                PROVE  j = k
    BY DEF OneListener
  <2>1. CASE j \in J /\ k \in J
    BY <1>8, <2>1
  <2>2. CASE j \in jobs /\ k \in jobs
    BY <2>2 DEF ListenersInv, OneListener
  <2>. QED
    BY <1>1, <1>8, <1>9, <2>1, <2>2
<1>13. TracePending'
  <2>1. \A x \in DOMAIN feed : x.event \in DOMAIN events /\ x.event # n
    BY <1>6 DEF ListenersInv, TracePending
  <2>2. \A i \in DOMAIN mails : i \in DOMAIN events /\ i # n
    BY <1>6 DEF ListenersInv, TracePending
  <2>3. \A j \in jobs' : j \in jobs \/ j.event = n
    BY <1>1, <1>8
  <2>4. TracePending
    BY DEF ListenersInv
  <2>5. ASSUME NEW x \in DOMAIN feed'
        PROVE  /\ x.event \in DOMAIN events' /\ feed'[x] = 1
               /\ \A y \in DOMAIN feed' : y.event = x.event => y = x
               /\ \A j \in jobs' : ~(j.event = x.event /\ j.kind = "activity")
    BY <1>1, <1>6, <2>1, <2>3, <2>4 DEF TracePending
  <2>6. ASSUME NEW i \in DOMAIN mails'
        PROVE  /\ i \in DOMAIN events' /\ mails'[i] = 1
               /\ \A j \in jobs' : ~(j.event = i /\ j.kind = "mail")
    BY <1>1, <1>6, <2>2, <2>3, <2>4 DEF TracePending
  <2>. QED
    BY <2>5, <2>6 DEF TracePending
<1>14. TraceOwed'
  <2>1. \A i, kind : AtWork(i, kind) => AtWork(i, kind)'
    BY <1>1 DEF AtWork
  <2>2. /\ name \in DOMAIN Recorded => \E j \in jobs' : j.event = n /\ j.kind = "activity"
        /\ name \in MailEvents => \E j \in jobs' : j.event = n /\ j.kind = "mail"
    BY <1>1, <1>8
  <2>3. ASSUME NEW i \in DOMAIN events
        PROVE  /\ events'[i].name \in DOMAIN Recorded
                    => \/ AtWork(i, "activity")' \/ <<i, "activity">> \in failed'
                       \/ \E x \in DOMAIN feed' : x.event = i
               /\ events'[i].name \in MailEvents
                    => AtWork(i, "mail")' \/ <<i, "mail">> \in failed' \/ i \in DOMAIN mails'
    BY <1>1, <1>6, <2>1 DEF ListenersInv, TraceOwed
  <2>. QED
    BY <1>5, <1>6, <2>2, <2>3 DEF TraceOwed, AtWork
<1>15. Addressed'
  <2>1. ASSUME NEW j \in jobs PROVE AddressedJob(j)'
    <3>1. AddressedJob(j)
      BY DEF ListenersInv, Addressed
    <3>. QED
      BY <1>6, <1>9, <3>1 DEF AddressedJob
  <2>2. ASSUME NEW k \in J PROVE AddressedJob(k)'
    <3>1. k.kind \in Kinds
      BY <1>8 DEF Job
    <3>2. name = "card.assignee_added" /\ whom # {actor} => actor \notin whom
      OBVIOUS
    <3>. QED
      BY <1>5, <1>6, <1>8, <3>1, <3>2 DEF AddressedJob, Kinds
  <2>. QED
    BY <1>1, <2>1, <2>2 DEF Addressed
<1>16. NoticesFit'
  <2>1. ASSUME NEW m \in notices PROVE NoticeFits(m)'
    <3>1. NoticeFits(m)
      BY DEF ListenersInv, NoticesFit
    <3>. QED
      BY <1>6, <3>1 DEF NoticeFits
  <2>. QED
    BY <1>1, <2>1 DEF NoticesFit
<1>17. NoticeOwed'
  <2>1. ASSUME NEW i \in DOMAIN events, events[i].name \in CardEvents,
               <<i, "notify">> \notin failed,
               NEW u \in events[i].always \ {events[i].actor}
        PROVE  Told(i, u)' \/ \E j \in jobs' : j.event = i /\ StillTo(j, u)'
    <3>1. Told(i, u) \/ \E j \in jobs : j.event = i /\ StillTo(j, u)
      BY <2>1 DEF ListenersInv, NoticeOwed
    <3>. QED
      BY <1>1, <3>1 DEF Told, StillTo
  <2>2. ASSUME name \in CardEvents, NEW u
        PROVE  \E j \in jobs' : j.event = n /\ StillTo(j, u)'
    BY <1>1, <1>8, <2>2 DEF StillTo
  <2>. SUFFICES ASSUME NEW i \in DOMAIN events', events'[i].name \in CardEvents,
                       <<i, "notify">> \notin failed',
                       NEW u \in events'[i].always \ {events'[i].actor}
                PROVE  Told(i, u)' \/ \E j \in jobs' : j.event = i /\ StillTo(j, u)'
    BY DEF NoticeOwed
  <2>3. CASE i = n
    BY <1>5, <1>6, <2>2, <2>3
  <2>4. CASE i \in DOMAIN events
    BY <1>1, <1>6, <2>1, <2>4
  <2>. QED
    BY <1>6, <2>3, <2>4
<1>. QED
  BY <1>10, <1>11, <1>12, <1>13, <1>14, <1>15, <1>16, <1>17 DEF ListenersInv

\* Every event is one of these.
LEMMA EventsHappen ==
  ASSUME ListenersInv, NEW u \in Members,
         \/ \E v \in Members : \/ CardAssigned(u, v) \/ CardUnassigned(u, v)
                              \/ \E name \in Names : OtherEvent(u, v, name)
         \/ \E mentioned \in Mentions : Commented(u, mentioned)
         \/ \E name \in Names : StageChanged(u, name)
         \/ CardClosed(u) \/ BoardClosed(u) \/ DocumentRenamed(u) \/ DocumentClosed(u)
  PROVE  ListenersInv'
<1>1. u \in Users /\ card \in [assigned : SUBSET Members, live : BOOLEAN]
  BY DEF Users, ListenersInv, EventsTyped
<1>2. /\ \A v \in Members : /\ {v} \in SUBSET Users
                            /\ [card EXCEPT !.assigned = @ \cup {v}] \in [assigned : SUBSET Members, live : BOOLEAN]
                            /\ [card EXCEPT !.assigned = @ \ {v}] \in [assigned : SUBSET Members, live : BOOLEAN]
      /\ [card EXCEPT !.live = FALSE] \in [assigned : SUBSET Members, live : BOOLEAN]
      /\ Mentions \subseteq SUBSET Users /\ {u} \in SUBSET Users /\ {} \in SUBSET Users
  BY <1>1 DEF Users, Mentions
<1>3. ASSUME NEW v \in Members, CardAssigned(u, v) PROVE ListenersInv'
  BY <1>1, <1>2, <1>3, ListenersHappen DEF CardAssigned, Handled
<1>4. ASSUME NEW v \in Members, CardUnassigned(u, v) PROVE ListenersInv'
  <2>. DEFINE c == [card EXCEPT !.assigned = @ \ {v}]
              name == "card.assignee_removed"
  <2>1. Happen(name, u, {v}, c, board, document)
    BY <1>4 DEF CardUnassigned
  <2>2. /\ c \in [assigned : SUBSET Members, live : BOOLEAN] /\ {v} \in SUBSET Users
        /\ name \in Names \cup Handled /\ name # "card.assignee_added"
    BY <1>2 DEF Handled
  <2>. HIDE DEF c, name
  <2>. QED
    BY <1>1, <2>1, <2>2, ListenersHappen
<1>5. ASSUME NEW mentioned \in Mentions, Commented(u, mentioned) PROVE ListenersInv'
  BY <1>1, <1>2, <1>5, ListenersHappen DEF Commented, Handled
<1>6. ASSUME NEW name \in Names, StageChanged(u, name) PROVE ListenersInv'
  BY <1>1, <1>2, <1>6, ListenersHappen DEF StageChanged
<1>7. ASSUME NEW v \in Members, NEW name \in Names, OtherEvent(u, v, name) PROVE ListenersInv'
  BY <1>1, <1>2, <1>7, ListenersHappen DEF OtherEvent
<1>8. CASE CardClosed(u)
  BY <1>1, <1>2, <1>8, ListenersHappen DEF CardClosed, Handled
<1>9. CASE BoardClosed(u)
  BY <1>1, <1>2, <1>9, ListenersHappen DEF BoardClosed, Handled
<1>10. CASE DocumentRenamed(u)
  BY <1>1, <1>2, <1>10, ListenersHappen DEF DocumentRenamed, Handled
<1>11. CASE DocumentClosed(u)
  BY <1>1, <1>2, <1>11, ListenersHappen DEF DocumentClosed, Handled
<1>. QED
  BY <1>3, <1>4, <1>5, <1>6, <1>7, <1>8, <1>9, <1>10, <1>11

LEMMA ListenersStep == ListenersInv /\ [ReactionsNext]_reactionVars => ListenersInv'
<1>. SUFFICES ASSUME ListenersInv, [ReactionsNext]_reactionVars PROVE ListenersInv'
  OBVIOUS
<1>1. CASE UNCHANGED reactionVars
  <2>1. UNCHANGED <<card, events, jobs, feed, notices, mails, failed>>
    BY <1>1 DEF reactionVars
  <2>2. EventsTyped' /\ Witnessed' /\ OneListener' /\ TracePending' /\ TraceOwed'
    BY <2>1 DEF ListenersInv, EventsTyped, Witnessed, Assignees, OneListener, TracePending,
                TraceOwed, AtWork
  <2>3. Addressed' /\ NoticeOwed' /\ NoticesFit'
    BY <2>1 DEF ListenersInv, Addressed, AddressedJob, NoticeOwed, Told, StillTo, NoticesFit,
                NoticeFits
  <2>. QED
    BY <2>2, <2>3 DEF ListenersInv
<1>2. ASSUME NEW j \in jobs,
             \/ Resolve(j) \/ Record(j) \/ SendMail(j) \/ ReadRecipients(j) \/ Published(j)
             \/ Fails(j)
             \/ \E u \in j.to : Publish(j, u) \/ PublishFails(j, u)
      PROVE  ListenersInv'
  BY <1>2, ListenerResolves, ListenerRecords, ListenerMails, ListenerReads,
     ListenerPublished, ListenerFails, ListenerPublishes
<1>. QED
  BY <1>1, <1>2, EventsHappen, ListenersCrash DEF ReactionsNext

\* What the listeners leave behind is right at every moment, whatever is
\* assigned, archived or renamed between an event and its listeners: one row
\* of the feed, whoever it names, and one mail at most, no event without its
\* trace unless its listener failed, and notifications for the right users
\* only.
THEOREM BoardListenersRight == Spec => []ListenersRight
<1>1. Init => ListenersInv
  <2>. SUFFICES ASSUME Init PROVE ListenersInv
    OBVIOUS
  <2>1. /\ card = [assigned |-> {CHOOSE u \in Members : TRUE}, live |-> TRUE]
        /\ events = <<>> /\ jobs = {} /\ notices = {} /\ feed = EmptyBag /\ mails = EmptyBag
    BY DEF Init, ReactionsInit
  <2>2. DOMAIN events = {} /\ DOMAIN feed = {} /\ DOMAIN mails = {}
    BY <2>1 DEF EmptyBag, SetToBag
  <2>3. EventsTyped
    BY <2>1, <2>2, SomeMember DEF EventsTyped
  <2>. QED
    BY <2>1, <2>2, <2>3 DEF ListenersInv, Witnessed, OneListener, TracePending, TraceOwed,
       Addressed, NoticeOwed, NoticesFit
<1>2. [Next]_vars => [ReactionsNext]_reactionVars
  BY DEF Next, vars
<1>3. ListenersInv => ListenersRight
  <2>. SUFFICES ASSUME ListenersInv PROVE TracedOnce /\ NoticesRight
    BY DEF ListenersRight
  <2>1. TracedOnce
    <3>1. TracePending /\ TraceOwed /\ BagToSet(feed) = DOMAIN feed /\ BagToSet(mails) = DOMAIN mails
      BY DEF ListenersInv, BagToSet
    <3>2. ASSUME NEW i \in DOMAIN events
          PROVE  LET rowsOf == {x \in DOMAIN feed : x.event = i} IN
                   /\ \A x, y \in rowsOf : feed[x] = 1 /\ x = y
                   /\ events[i].name \in DOMAIN Recorded /\ ~AtWork(i, "activity")
                        => rowsOf # {} \/ <<i, "activity">> \in failed
      BY <3>1 DEF TracePending, TraceOwed
    <3>3. ASSUME NEW i \in DOMAIN events
          PROVE  /\ i \in DOMAIN mails => mails[i] = 1
                 /\ events[i].name \in MailEvents /\ ~AtWork(i, "mail")
                      => i \in DOMAIN mails \/ <<i, "mail">> \in failed
      BY <3>1 DEF TracePending, TraceOwed
    <3>. QED
      BY <3>1, <3>2, <3>3 DEF TracedOnce
  <2>2. NoticesRight
    <3>1. \A n \in notices : NoticeFits(n)
      BY DEF ListenersInv, NoticesFit
    <3>2. ASSUME NEW i \in DOMAIN events, events[i].name \in CardEvents,
                 ~AtWork(i, "notify"), <<i, "notify">> \notin failed,
                 NEW u \in events[i].always \ {events[i].actor}
          PROVE  Told(i, u)
      BY <3>2 DEF ListenersInv, NoticeOwed, StillTo, AtWork
    <3>. QED
      BY <3>1, <3>2 DEF NoticesRight, NoticeFits, Told, CardEvents
  <2>. QED
    BY <2>1, <2>2
<1>. QED
  BY <1>1, <1>2, <1>3, ListenersStep, PTL DEF Spec
-----------------------------------------------------------------------------
(* Ranks *)

\* A set of numbers has a least one.
LEMMA Least ==
  ASSUME NEW T \in SUBSET Nat, T # {}
  PROVE  \E k \in T : \A j \in T : k <= j
<1>. DEFINE R == OpToRel(<, Nat)
<1>1. \A j, k \in Nat : ~(<<j, k>> \in R) => k <= j
  <2>1. \A j, k \in Nat : j < k => <<j, k>> \in R
    BY DEF OpToRel
  <2>. HIDE DEF R
  <2>. QED
    BY <2>1
<1>2. IsWellFoundedOn(R, Nat)
  BY NatLessThanWellFounded
<1>. HIDE DEF R
<1>3. PICK k \in T : \A j \in T : ~(<<j, k>> \in R)
  BY <1>2, WFMin
<1>. QED
  BY <1>1, <1>3

\* The greatest and the least of a finite set of ranks: it is the one with
\* the fewest others beyond it.
LEMMA Greatest ==
  ASSUME NEW S \in SUBSET Int, IsFiniteSet(S), S # {}
  PROVE  Max(S) \in S /\ \A y \in S : y <= Max(S)
<1>. DEFINE Above(x) == {y \in S : y > x}
            T == {Cardinality(Above(x)) : x \in S}
<1>1. \A x \in S : IsFiniteSet(Above(x)) /\ Cardinality(Above(x)) \in Nat
  BY FS_Subset, FS_CardinalityType
<1>2. PICK k \in T : \A j \in T : k <= j
  <2>1. T \in SUBSET Nat /\ T # {}
    BY <1>1
  <2>. QED
    BY <2>1, Least
<1>3. PICK x \in S : k = Cardinality(Above(x))
  BY <1>2
<1>4. ASSUME NEW y \in S, y > x PROVE FALSE
  <2>0. x \in Int /\ y \in Int /\ \A z \in S : z \in Int
    OBVIOUS
  <2>1. Above(y) \subseteq Above(x) /\ y \in Above(x) /\ y \notin Above(y)
    <3>1. \A z \in S : z > y => z > x
      BY <1>4, <2>0
    <3>2. ~(y > y)
      BY <2>0
    <3>. QED
      BY <1>4, <3>1, <3>2, Zenon
  <2>2. Cardinality(Above(y)) <= Cardinality(Above(x)) /\ Cardinality(Above(y)) # Cardinality(Above(x))
    BY <1>1, <2>1, FS_Subset
  <2>3. Cardinality(Above(x)) <= Cardinality(Above(y))
    BY <1>2, <1>3
  <2>. QED
    BY <1>1, <2>2, <2>3
<1>5. \A y \in S : x >= y
  BY <1>4
<1>. QED
  BY <1>5 DEF Max

LEMMA Lowest ==
  ASSUME NEW S \in SUBSET Int, IsFiniteSet(S), S # {}
  PROVE  Min(S) \in S /\ \A y \in S : Min(S) <= y
<1>. DEFINE Under(x) == {y \in S : y < x}
            T == {Cardinality(Under(x)) : x \in S}
<1>1. \A x \in S : IsFiniteSet(Under(x)) /\ Cardinality(Under(x)) \in Nat
  BY FS_Subset, FS_CardinalityType
<1>2. PICK k \in T : \A j \in T : k <= j
  <2>1. T \in SUBSET Nat /\ T # {}
    BY <1>1
  <2>. QED
    BY <2>1, Least
<1>3. PICK x \in S : k = Cardinality(Under(x))
  BY <1>2
<1>4. ASSUME NEW y \in S, y < x PROVE FALSE
  <2>0. x \in Int /\ y \in Int /\ \A z \in S : z \in Int
    OBVIOUS
  <2>1. Under(y) \subseteq Under(x) /\ y \in Under(x) /\ y \notin Under(y)
    <3>1. \A z \in S : z < y => z < x
      BY <1>4, <2>0
    <3>2. ~(y < y)
      BY <2>0
    <3>. QED
      BY <1>4, <3>1, <3>2, Zenon
  <2>2. Cardinality(Under(y)) <= Cardinality(Under(x)) /\ Cardinality(Under(y)) # Cardinality(Under(x))
    BY <1>1, <2>1, FS_Subset
  <2>3. Cardinality(Under(x)) <= Cardinality(Under(y))
    BY <1>2, <1>3
  <2>. QED
    BY <1>1, <2>2, <2>3
<1>5. \A y \in S : x <= y
  BY <1>4
<1>. QED
  BY <1>5 DEF Min

\* A new rank is after the last, before the first or between the two.
LEMMA NewRank ==
  ASSUME NEW prev \in SUBSET Int, NEW next \in SUBSET Int,
         \A a, b \in prev : a = b, \A a, b \in next : a = b,
         \A a \in prev, b \in next : a <= b, HasRoom(prev, next)
  PROVE  /\ \A r \in GetRankBetween(prev, next) :
               /\ r \in Int
               /\ \A a \in prev : a < r
               /\ \A b \in next : r < b
         /\ GetRankBetween(prev, next) = {} => prev # {} /\ prev = next
<1>1. CASE prev = {} /\ next = {}
  BY <1>1 DEF GetRankBetween, InitialRank
<1>2. CASE prev = {} /\ next # {}
  <2>1. \A b \in Int : GenPrev(b) \in Int /\ GenPrev(b) < b
    BY DEF GenPrev, Gap, Unit
  <2>2. GetRankBetween(prev, next) = {GenPrev(b) : b \in next}
    BY <1>2 DEF GetRankBetween
  <2>. QED
    BY <1>2, <2>1, <2>2
<1>3. CASE prev # {} /\ next = {}
  <2>1. \A b \in Int : GenNext(b) \in Int /\ GenNext(b) > b
    BY DEF GenNext, Gap, Unit
  <2>2. GetRankBetween(prev, next) = {GenNext(b) : b \in prev}
    BY <1>3 DEF GetRankBetween
  <2>. QED
    BY <1>3, <2>1, <2>2
<1>4. CASE prev # {} /\ next # {}
  <2>1. GetRankBetween(prev, next) = {(a + b) \div 2 : a \in prev \ next, b \in next \ prev}
    BY <1>4 DEF GetRankBetween
  <2>2. PICK a \in prev, b \in next : prev = {a} /\ next = {b}
    BY <1>4
  <2>3. CASE a = b
    <3>1. prev \ next = {}
      BY <2>2, <2>3
    <3>. QED
      BY <1>4, <2>1, <2>2, <2>3, <3>1
  <2>4. CASE a # b
    <3>1. b >= a + 2
      BY <2>2, <2>4 DEF HasRoom
    <3>2. (a + b) \div 2 \in Int /\ a < (a + b) \div 2 /\ (a + b) \div 2 < b
      BY <3>1
    <3>3. GetRankBetween(prev, next) = {(a + b) \div 2}
      BY <2>1, <2>2, <2>4
    <3>. QED
      BY <2>2, <3>2, <3>3
  <2>. QED
    BY <2>3, <2>4
<1>. QED
  BY <1>1, <1>2, <1>3, <1>4

-----------------------------------------------------------------------------
(* Requests: what one carries from its reads to its writes *)

\* The routes that a viewer is refused, and those that a member is refused too.
WriteOps ==
    {"list.create", "list.move", "list.archive", "list.unarchive", "card.create",
     "card.subcard", "card.move", "card.archive", "card.unarchive", "board.unarchive",
     "time.log", "time.estimate", "checklist.create", "checklist.rename",
     "checklist.delete", "item.add", "item.update", "item.remove", "item.promote",
     "comment.create", "comment.update", "comment.delete", "label.create", "label.update",
     "label.delete", "wlabel.create", "wlabel.update", "wlabel.delete", "card.label",
     "card.unlabel", "card.assign", "card.unassign", "value.set", "file.request",
     "file.confirm", "file.delete", "board.update", "list.update", "card.update", "card.priority",
     "card.status"}
AdminOps ==
    {"board.archive", "board.delete", "list.delete", "card.delete",
     "field.create", "field.update", "field.delete"}
StarOps == {"board.star", "board.unstar"}

\* The later steps of requests; a confirm is also a request of its own.
LaterOps ==
    {"time.reread", "time.announce", "promote.create", "promote.tick", "file.put", "file.confirm",
     "file.complete", "file.deleteObject"}

\* The requests that place a row.
PlaceOps == {"list.create", "card.create", "card.subcard", "list.move", "card.move"}

\* The requests that an archived board does not stop.
UnstoppedOps ==
    {"card.create", "card.label", "card.assign"} \cup Ops(WorkspaceLabelRoutes \cup FieldDefRoutes)

Permitted(op, u) ==
    /\ u \in DOMAIN RoleOf
    /\ RoleOf[u] = "viewer" => op \in StarOps
    /\ op \in AdminOps => RoleOf[u] \in {"owner", "admin"}

\* The board was open, or did not matter.
LetIn(op, d) ==
    "open" \in DOMAIN d /\ ~d.open
        => \/ d.id = Board /\ op \in {"board.archive", "board.unarchive", "board.delete"}
           \/ op \in UnstoppedOps

\* The rank is none of those seen unless the request was blind to some, and
\* on the right side of the rows above and below unless two of these tied.
WellPlaced(d) ==
    /\ d.to \in Lists \cup {Board} /\ d.rank \in Int
    /\ ~d.blind => \A e \in d.seen : e[2] # d.rank
    /\ \A i \in d.above \cup d.below : \E e \in d.seen : e[1] = i
    /\ \/ \E e, f \in d.seen : /\ e[1] # f[1] /\ e[2] = f[2]
                               /\ {e[1], f[1]} \subseteq d.above \cup d.below
       \/ \A e \in d.seen : /\ e[1] \in d.above => e[2] < d.rank
                            /\ e[1] \in d.below => d.rank < e[2]

Carries(op, d) ==
    /\ LetIn(op, d)
    /\ op \in PlaceOps => WellPlaced(d)
    /\ op \in PlaceOps \ {"list.move", "card.move"} => d.id = Board
    /\ op = "value.set" => d.value = None \/ d.value \in d.options

Sound(r) ==
    /\ r = [op |-> r.op, user |-> r.user, id |-> r.id, data |-> r.data]
    /\ r.op \in WriteOps \cup AdminOps \cup StarOps \cup LaterOps
    /\ Permitted(r.op, r.user)
    /\ Carries(r.op, r.data)

AllSound == \A r \in inflight : Sound(r)

LEMMA RoutesOf ==
  /\ \A op \in WriteOps : <<op, "viewer">> \notin Routes
  /\ \A op \in AdminOps : <<op, "viewer">> \notin Routes /\ <<op, "member">> \notin Routes
<1>. DEFINE Refuses(table) ==
        /\ \A op \in WriteOps : <<op, "viewer">> \notin table
        /\ \A op \in AdminOps : <<op, "viewer">> \notin table /\ <<op, "member">> \notin table
<1>1. Refuses(BoardRoutes) /\ Refuses(BoardStateRoutes) /\ Refuses(BoardRestoreRoutes)
  BY DEF WriteOps, AdminOps, OwnerRoles, AdminRoles, WriteRoles, ReadRoles, BoardRoutes,
         BoardStateRoutes, BoardRestoreRoutes
<1>2. Refuses(ListRoutes) /\ Refuses(ListPlaceRoutes) /\ Refuses(ListRestoreRoutes)
  BY DEF WriteOps, AdminOps, OwnerRoles, AdminRoles, WriteRoles, ReadRoles, ListRoutes,
         ListPlaceRoutes, ListRestoreRoutes
<1>3. Refuses(CardRoutes) /\ Refuses(CardUpdateRoutes) /\ Refuses(SubcardRoutes)
  BY DEF WriteOps, AdminOps, OwnerRoles, AdminRoles, WriteRoles, ReadRoles, CardRoutes,
         CardUpdateRoutes, SubcardRoutes
<1>4. Refuses(CardPlaceRoutes) /\ Refuses(CardRestoreRoutes) /\
      Refuses(AssigneeRoutes) /\ Refuses(CardLabelRoutes)
  BY DEF WriteOps, AdminOps, OwnerRoles, AdminRoles, WriteRoles, ReadRoles,
         CardPlaceRoutes, CardRestoreRoutes, AssigneeRoutes, CardLabelRoutes
<1>5. Refuses(TimeRoutes) /\ Refuses(ChecklistRoutes) /\ Refuses(ItemRoutes)
  BY DEF WriteOps, AdminOps, OwnerRoles, AdminRoles, WriteRoles, ReadRoles, TimeRoutes,
         ChecklistRoutes, ItemRoutes
<1>6. Refuses(CommentRoutes) /\ Refuses(CommentChangeRoutes)
  BY DEF WriteOps, AdminOps, OwnerRoles, AdminRoles, WriteRoles, ReadRoles,
         CommentRoutes, CommentChangeRoutes
<1>7. /\ Refuses(LabelRoutes) /\ Refuses(WorkspaceLabelRoutes)
      /\ Refuses(FieldDefRoutes) /\ Refuses(FieldValueRoutes)
  <2>1. Refuses(LabelRoutes) /\ Refuses(WorkspaceLabelRoutes)
    BY DEF WriteOps, AdminOps, OwnerRoles, AdminRoles, WriteRoles, ReadRoles, LabelRoutes,
           WorkspaceLabelRoutes
  <2>2. Refuses(FieldDefRoutes) /\ Refuses(FieldValueRoutes)
    BY DEF WriteOps, AdminOps, OwnerRoles, AdminRoles, WriteRoles, ReadRoles, FieldDefRoutes,
           FieldValueRoutes
  <2>. QED
    BY <2>1, <2>2
<1>8. Refuses(ViewRoutes) /\ Refuses(FileRoutes) /\ Refuses(AttachmentRoutes)
  BY DEF WriteOps, AdminOps, OwnerRoles, AdminRoles, WriteRoles, ReadRoles, ViewRoutes,
         FileRoutes, AttachmentRoutes
<1>9. Refuses(DocumentRoutes) /\ Refuses(SnapshotRoutes) /\
      Refuses(LinkedDocumentRoutes) /\ Refuses(ActivityRoutes)
  BY DEF WriteOps, AdminOps, OwnerRoles, AdminRoles, WriteRoles, ReadRoles,
         DocumentRoutes, SnapshotRoutes, LinkedDocumentRoutes, ActivityRoutes
<1>10. Refuses(WorkspaceRoutesOf) /\ Refuses(MemberRoutes) /\ Refuses(InvitationRoutes)
  BY DEF WriteOps, AdminOps, OwnerRoles, AdminRoles, WriteRoles, ReadRoles,
         WorkspaceRoutesOf, MemberRoutes, InvitationRoutes
<1>. DEFINE NotRefused(entry) ==
        /\ \A op \in WriteOps : entry # <<op, "viewer">>
        /\ \A op \in AdminOps : entry # <<op, "viewer">> /\ entry # <<op, "member">>
<1>11. \A table : Refuses(table) => \A entry \in table : NotRefused(entry)
  OBVIOUS
<1>. HIDE DEF Refuses, NotRefused
<1>12. \A entry \in Routes : NotRefused(entry)
  BY <1>1, <1>2, <1>3, <1>4, <1>5, <1>6, <1>7, <1>8, <1>9, <1>10, <1>11 DEF Routes
<1>. QED
  BY <1>12 DEF NotRefused

\* What RbacGuard lets through.
LEMMA Guarded ==
  ASSUME NEW u, NEW op \in WriteOps \cup AdminOps \cup StarOps, RbacGuard(u, op)
  PROVE  Permitted(op, u)
<1>1. PICK r \in ReadRoles : <<op, r>> \in Routes /\ ROLE_WEIGHTS[RoleOf[u]] >= ROLE_WEIGHTS[r]
  BY DEF RbacGuard
<1>2. u \in DOMAIN RoleOf /\ RoleOf[u] \in ReadRoles
  BY RolesAreRoles DEF RbacGuard
<1>3. /\ op \in WriteOps \cup AdminOps => r # "viewer"
      /\ op \in AdminOps => r \in {"owner", "admin"}
  BY <1>1, RoutesOf DEF ReadRoles, WriteRoles, AdminRoles, OwnerRoles
<1>4. /\ op \in WriteOps \cup AdminOps => RoleOf[u] # "viewer"
      /\ op \in AdminOps => RoleOf[u] \in {"owner", "admin"}
  BY <1>1, <1>2, <1>3 DEF ROLE_WEIGHTS, ReadRoles, WriteRoles, AdminRoles, OwnerRoles
<1>. QED
  BY <1>2, <1>4 DEF Permitted

\* Labels and field definitions belong to the workspace.
LEMMA Unstopped ==
  /\ {"card.create", "card.label", "card.assign", "wlabel.create", "wlabel.update",
      "wlabel.delete", "field.create", "field.update", "field.delete"} \subseteq UnstoppedOps
  /\ \A op \in UnstoppedOps :
        op \notin LaterOps \cup {"time.log", "item.promote", "file.request", "file.delete"}
<1>1. ASSUME NEW op, NEW r, <<op, r>> \in WorkspaceLabelRoutes \cup FieldDefRoutes
      PROVE  op \in Ops(WorkspaceLabelRoutes \cup FieldDefRoutes)
  <2>1. <<op, r>>[1] = op
    OBVIOUS
  <2>. QED
    BY <1>1, <2>1 DEF Ops
<1>2. ASSUME NEW op \in {"wlabel.create", "wlabel.update", "wlabel.delete", "field.create",
                         "field.update", "field.delete"}
      PROVE  <<op, "owner">> \in WorkspaceLabelRoutes \cup FieldDefRoutes
  BY DEF WorkspaceLabelRoutes, FieldDefRoutes, WriteRoles, AdminRoles, OwnerRoles
<1>3. ASSUME NEW op \in Ops(WorkspaceLabelRoutes \cup FieldDefRoutes)
      PROVE  op \in {"wlabel.create", "wlabel.update", "wlabel.delete", "wlabel.list",
                     "wlabel.cards", "field.create", "field.update", "field.delete", "field.list"}
  <2>1. PICK entry \in WorkspaceLabelRoutes \cup FieldDefRoutes : op = entry[1]
    BY DEF Ops
  <2>. QED
    BY <2>1 DEF WorkspaceLabelRoutes, FieldDefRoutes
<1>. QED
  BY <1>1, <1>2, <1>3 DEF UnstoppedOps, LaterOps

\* A request that was just admitted.
LEMMA AdmitsSound ==
  ASSUME NEW u, NEW op \in WriteOps \cup AdminOps \cup StarOps, NEW what,
         AllSound, Admit(u, op, what), Carries(op, what)
  PROVE  AllSound'
<1>. DEFINE q == [op |-> op, user |-> u, id |-> asked, data |-> what]
<1>1. inflight' = inflight \cup {q} /\ RbacGuard(u, op)
  BY DEF Admit
<1>2. q.op = op /\ q.user = u /\ q.data = what /\ q.id = asked
  OBVIOUS
<1>3. Permitted(op, u)
  BY <1>1, Guarded
<1>4. Sound(q)
  BY <1>2, <1>3 DEF Sound
<1>. QED
  BY <1>1, <1>4 DEF AllSound

\* A request that needed the board open or need not look at it.
LEMMA PlainSound ==
  ASSUME NEW u, NEW op \in WriteOps \cup AdminOps \cup StarOps, NEW what,
         op \notin PlaceOps \cup {"value.set"},
         AllSound, Admit(u, op, what), LetIn(op, what)
  PROVE  AllSound'
BY AdmitsSound DEF Carries

\* The next step of a request.
LEMMA ContinuesSound ==
  ASSUME NEW r \in inflight, NEW op, AllSound, Continue(r, op),
         op \in LaterOps,
         r.op \in LaterOps \cup {"time.log", "item.promote", "file.request", "file.delete"}
  PROVE  AllSound'
<1>. DEFINE q == [r EXCEPT !.op = op]
<1>1. Sound(r) /\ inflight' = (inflight \ {r}) \cup {q}
  BY DEF AllSound, Continue
<1>2. /\ q.op = op /\ q.user = r.user /\ q.id = r.id /\ q.data = r.data
      /\ q = [op |-> q.op, user |-> q.user, id |-> q.id, data |-> q.data]
  BY <1>1 DEF Sound
<1>3. Permitted(op, r.user)
  BY <1>1 DEF Sound, Permitted, StarOps, LaterOps, AdminOps
<1>4. Carries(op, r.data)
  <2>1. LetIn(r.op, r.data)
    BY <1>1 DEF Sound, Carries
  <2>2. r.op \notin UnstoppedOps
    BY Unstopped
  <2>3. LetIn(op, r.data)
    BY <2>1, <2>2 DEF LetIn, LaterOps
  <2>. QED
    BY <2>3 DEF Carries, LaterOps, PlaceOps
<1>5. Sound(q)
  BY <1>2, <1>3, <1>4 DEF Sound
<1>. HIDE DEF q
<1>. QED
  BY <1>1, <1>5 DEF AllSound

\* A request that ends.
LEMMA EndsSound ==
  ASSUME AllSound, inflight' \subseteq inflight
  PROVE  AllSound'
BY DEF AllSound

\* The board was open when the request about the card was let in, or did not matter.
LEMMA AskSound ==
  ASSUME NEW u, NEW op \in WriteOps \cup AdminOps \cup StarOps, NEW what,
         op \notin PlaceOps, "open" \notin DOMAIN what,
         AllSound, Ask(u, op, what), BoardOpen \/ op \in UnstoppedOps,
         op = "value.set" => /\ {"value", "options"} \subseteq DOMAIN what
                             /\ what.value = None \/ what.value \in what.options
  PROVE  AllSound'
<1>. DEFINE m == Merged(what, [id |-> Card, open |-> BoardOpen])
<1>1. Admit(u, op, m)
  BY DEF Ask
<1>2. m.open = BoardOpen /\ \A x \in DOMAIN what : m[x] = what[x]
  BY DEF Merged
<1>3. LetIn(op, m)
  BY <1>2 DEF LetIn
<1>4. op = "value.set" => m.value = None \/ m.value \in m.options
  BY <1>2
<1>. HIDE DEF m
<1>. QED
  BY <1>1, <1>3, <1>4, AdmitsSound DEF Carries

LEMMA TimeSound ==
  ASSUME AllSound, TimeNext
  PROVE  AllSound'
<1>1. ASSUME NEW u, NEW m, AskLog(u, m) PROVE AllSound'
  BY <1>1, AskSound DEF AskLog, CardOpen, BoardOpen, WriteOps, PlaceOps
<1>2. ASSUME NEW r \in inflight, AddEntry(r) PROVE AllSound'
  BY <1>2, ContinuesSound DEF AddEntry, LaterOps
<1>3. ASSUME NEW r \in inflight, Finish(r) PROVE AllSound'
  BY <1>3, EndsSound DEF Finish
<1>4. ASSUME NEW r \in inflight, r.op = "time.reread",
             inflight' = (inflight \ {r})
               \cup {[r EXCEPT !.op = "time.announce", !.data = [total |-> time.logged]]}
      PROVE  AllSound'
  <2>. DEFINE d == [total |-> time.logged]
              q == [r EXCEPT !.op = "time.announce", !.data = d]
  <2>1. Sound(r)
    BY DEF AllSound
  <2>2. /\ q.op = "time.announce" /\ q.user = r.user /\ q.id = r.id /\ q.data = d
        /\ q = [op |-> q.op, user |-> q.user, id |-> q.id, data |-> q.data]
    <3>1. r = [op |-> r.op, user |-> r.user, id |-> r.id, data |-> r.data]
      BY <2>1 DEF Sound
    <3>2. q = [r EXCEPT !.op = "time.announce", !.data = d]
      OBVIOUS
    <3>. HIDE DEF d, q
    <3>3. q = [op |-> "time.announce", user |-> r.user, id |-> r.id, data |-> d]
      BY <3>1, <3>2
    <3>. QED
      BY <3>3
  <2>3. Permitted("time.announce", r.user)
    BY <1>4, <2>1 DEF Sound, Permitted, StarOps, AdminOps
  <2>4. Carries("time.announce", d)
    BY DEF Carries, LetIn, PlaceOps
  <2>5. Sound(q)
    BY <2>2, <2>3, <2>4 DEF Sound, LaterOps
  <2>. HIDE DEF q
  <2>. QED
    BY <1>4, <2>5 DEF AllSound, q
<1>. QED
  BY <1>1, <1>2, <1>3, <1>4 DEF TimeNext, Reread, Announce

LEMMA ChecklistSound ==
  ASSUME AllSound, ChecklistNext
  PROVE  AllSound'
<1>1. ASSUME NEW u, NEW k, CreateChecklist(u) \/ RenameChecklist(u, k) \/ DeleteChecklist(u, k) \/ AddItem(u, k)
      PROVE  AllSound'
  <2>1. /\ \E op \in {"checklist.create", "checklist.rename", "checklist.delete", "item.add"} :
              \E x : Ask(u, op, [list |-> x])
        /\ BoardOpen
    BY <1>1 DEF CreateChecklist, RenameChecklist, DeleteChecklist, AddItem, CardOpen, BoardOpen
  <2>. QED
    BY <2>1, AskSound DEF WriteOps, PlaceOps
<1>2. ASSUME NEW u, NEW i, NEW done, RemoveItem(u, i) \/ PromoteItem(u, i) \/ UpdateItem(u, i, done)
      PROVE  AllSound'
  <2>1. /\ \E op \in {"item.remove", "item.promote", "item.update"} :
              \E d : Ask(u, op, [item |-> i, done |-> d])
        /\ BoardOpen
    BY <1>2 DEF RemoveItem, PromoteItem, UpdateItem, AskItem, CardOpen, BoardOpen
  <2>. QED
    BY <2>1, AskSound DEF WriteOps, PlaceOps
<1>3. ASSUME NEW r \in inflight,
             \/ InsertChecklist(r) \/ WriteTitle(r) \/ EraseChecklist(r)
             \/ InsertItem(r) \/ WriteItem(r) \/ EraseItem(r) \/ (Gone(r) /\ Drop(r))
             \/ PromoteTick(r)
      PROVE  AllSound'
  <2>1. Finish(r)
    BY <1>3 DEF InsertChecklist, WriteTitle, EraseChecklist, InsertItem, WriteItem, EraseItem,
                Drop, PromoteTick, SetChecklist
  <2>. QED
    BY <2>1, EndsSound DEF Finish
<1>4. ASSUME NEW r \in inflight, PromoteCheck(r) PROVE AllSound'
  BY <1>4, ContinuesSound, EndsSound DEF PromoteCheck, LaterOps, Finish
<1>5. ASSUME NEW r \in inflight, PromoteCreate(r) PROVE AllSound'
  BY <1>5, ContinuesSound DEF PromoteCreate, LaterOps
<1>. QED
  BY <1>1, <1>2, <1>3, <1>4, <1>5 DEF ChecklistNext

LEMMA CommentSound ==
  ASSUME AllSound, CommentNext
  PROVE  AllSound'
<1>1. ASSUME NEW u, NEW k, CreateComment(u, k) PROVE AllSound'
  BY <1>1, AskSound DEF CreateComment, CardOpen, BoardOpen, WriteOps, PlaceOps
<1>2. ASSUME NEW u, NEW k, UpdateComment(u, k) \/ DeleteComment(u, k) PROVE AllSound'
  <2>1. /\ \E op \in {"comment.update", "comment.delete"} : Ask(u, op, [comment |-> k])
        /\ BoardOpen
    BY <1>2 DEF UpdateComment, DeleteComment, CardOpen, BoardOpen
  <2>. QED
    BY <2>1, AskSound DEF WriteOps, PlaceOps
<1>3. ASSUME NEW r \in inflight, InsertComment(r) \/ WriteContent(r) \/ SoftDelete(r)
      PROVE  AllSound'
  <2>1. Finish(r)
    BY <1>3 DEF InsertComment, WriteContent, SoftDelete, SetComment
  <2>. QED
    BY <2>1, EndsSound DEF Finish
<1>. QED
  BY <1>1, <1>2, <1>3 DEF CommentNext

LEMMA WornSound ==
  ASSUME AllSound, WornNext
  PROVE  AllSound'
<1>1. ASSUME NEW u, NEW x, CreateLabel(u, x) \/ CreateWorkspaceLabel(u, x) PROVE AllSound'
  <2>1. \E op \in {"label.create", "wlabel.create"} :
          Ask(u, op, [onCard |-> x]) /\ (BoardOpen \/ op = "wlabel.create")
    BY <1>1 DEF CreateLabel, CreateWorkspaceLabel
  <2>. QED
    BY <2>1, AskSound, Unstopped DEF WriteOps, PlaceOps
<1>2. ASSUME NEW u, NEW l,
             \/ UpdateLabel(u, l) \/ UpdateWorkspaceLabel(u, l)
             \/ DeleteLabel(u, l) \/ DeleteWorkspaceLabel(u, l)
             \/ AddLabel(u, l) \/ RemoveLabel(u, l)
      PROVE  AllSound'
  <2>1. \E op \in {"label.update", "label.delete", "card.unlabel",
                   "wlabel.update", "wlabel.delete", "card.label"} :
          Ask(u, op, [label |-> l])
            /\ (BoardOpen \/ op \in {"wlabel.update", "wlabel.delete", "card.label"})
    BY <1>2 DEF UpdateLabel, UpdateWorkspaceLabel, DeleteLabel, DeleteWorkspaceLabel, AddLabel,
                RemoveLabel, CardOpen, BoardOpen
  <2>. QED
    BY <2>1, AskSound, Unstopped DEF WriteOps, PlaceOps
<1>3. ASSUME NEW u, NEW v, AddAssignee(u, v) \/ RemoveAssignee(u, v) PROVE AllSound'
  <2>1. \E op \in {"card.assign", "card.unassign"} :
          Ask(u, op, [assignee |-> v]) /\ (BoardOpen \/ op = "card.assign")
    BY <1>3 DEF AddAssignee, RemoveAssignee, CardOpen, BoardOpen
  <2>. QED
    BY <2>1, AskSound, Unstopped DEF WriteOps, PlaceOps
<1>4. ASSUME NEW r \in inflight,
             \/ InsertLabel(r) \/ WriteLabel(r) \/ EraseLabel(r)
             \/ WearLabel(r) \/ UnwearLabel(r) \/ WriteAssignee(r)
      PROVE  AllSound'
  <2>1. Finish(r)
    BY <1>4 DEF InsertLabel, WriteLabel, EraseLabel, WearLabel, UnwearLabel, WriteAssignee,
                SetWorn, Drop
  <2>. QED
    BY <2>1, EndsSound DEF Finish
<1>. QED
  BY <1>1, <1>2, <1>3, <1>4 DEF WornNext

LEMMA FieldSound ==
  ASSUME AllSound, FieldNext
  PROVE  AllSound'
<1>1. ASSUME NEW u, NEW x, CreateDef(u, x) \/ UpdateDef(u, x) \/ DeleteDef(u) PROVE AllSound'
  <2>1. \E op \in {"field.create", "field.update", "field.delete"} : \E y : Ask(u, op, [options |-> y])
    BY <1>1 DEF CreateDef, UpdateDef, DeleteDef
  <2>. QED
    BY <2>1, AskSound, Unstopped DEF AdminOps, PlaceOps
<1>2. ASSUME NEW u, NEW x, SetValue(u, x) PROVE AllSound'
  BY <1>2, AskSound DEF SetValue, ValidateFieldValue, CardOpen, BoardOpen, WriteOps, PlaceOps
<1>3. ASSUME NEW r \in inflight,
             InsertDef(r) \/ WriteDef(r) \/ EraseDef(r) \/ WriteValue(r) \/ FieldRefused(r)
      PROVE  AllSound'
  <2>1. Finish(r)
    BY <1>3 DEF InsertDef, WriteDef, EraseDef, WriteValue, FieldRefused, SetField, Drop
  <2>. QED
    BY <2>1, EndsSound DEF Finish
<1>. QED
  BY <1>1, <1>2, <1>3 DEF FieldNext

\* The requests about files say nothing of the board.
LEMMA FilesSound ==
  ASSUME AllSound, UploadsNext
  PROVE  AllSound'
<1>1. ASSUME NEW u, NEW f, AskUpload(u) \/ AskConfirm(u, f) \/ AskDeleteFile(u, f)
      PROVE  AllSound'
  <2>1. \E op \in {"file.request", "file.confirm", "file.delete"} :
           \E x : Admit(u, op, [id |-> x])
    BY <1>1 DEF AskUpload, AskConfirm, AskDeleteFile, AskFile
  <2>. QED
    BY <2>1, PlainSound DEF LetIn, WriteOps, PlaceOps
<1>2. ASSUME NEW r \in inflight, RequestUpload(r) PROVE AllSound'
  <2>1. PICK f \in Files \ DOMAIN file :
           inflight' = (inflight \ {r}) \cup {[r EXCEPT !.op = "file.put", !.data.id = f]}
    BY <1>2 DEF RequestUpload
  <2>. DEFINE q == [r EXCEPT !.op = "file.put", !.data.id = f]
  <2>2. Sound(r) /\ r.op = "file.request"
    BY <1>2 DEF AllSound, RequestUpload
  <2>3. /\ q.op = "file.put" /\ q.user = r.user /\ q.id = r.id
        /\ q.data = [r.data EXCEPT !.id = f]
        /\ q = [op |-> q.op, user |-> q.user, id |-> q.id, data |-> q.data]
    <3>. DEFINE d == [r.data EXCEPT !.id = f]
    <3>1. r = [op |-> r.op, user |-> r.user, id |-> r.id, data |-> r.data]
      BY <2>2 DEF Sound
    <3>2. q = [r EXCEPT !.op = "file.put", !.data = d]
      BY <3>1
    <3>. HIDE DEF d, q
    <3>3. q = [op |-> "file.put", user |-> r.user, id |-> r.id, data |-> d]
      BY <3>1, <3>2
    <3>. QED
      BY <3>3 DEF d
  <2>4. /\ DOMAIN q.data = DOMAIN r.data
        /\ "open" \in DOMAIN r.data => q.data.open = r.data.open
    BY <2>3
  <2>5. "open" \in DOMAIN r.data => r.data.open
    BY <2>2, Unstopped DEF Sound, Carries, LetIn
  <2>6. Sound(q)
    BY <2>2, <2>3, <2>4, <2>5 DEF Sound, Permitted, Carries, LetIn, LaterOps, PlaceOps, StarOps, AdminOps
  <2>. HIDE DEF q
  <2>. QED
    BY <2>1, <2>6 DEF AllSound, q
<1>3. ASSUME NEW r \in inflight, PutObject(r) \/ ConfirmRead(r) \/ Confirm(r) \/ ArchiveFile(r) \/ DeleteObject(r)
      PROVE  AllSound'
  <2>1. \/ Finish(r)
        \/ /\ r.op \in LaterOps \cup {"file.delete"}
           /\ \E op \in LaterOps : Continue(r, op)
    BY <1>3 DEF PutObject, ConfirmRead, Confirm, ArchiveFile, DeleteObject, LaterOps
  <2>. QED
    BY <2>1, ContinuesSound, EndsSound DEF Finish
<1>4. ASSUME NEW old, SweepStale(old) PROVE AllSound'
  BY <1>4, EndsSound DEF SweepStale, requestVars
<1>. QED
  BY <1>1, <1>2, <1>3, <1>4 DEF UploadsNext

LEMMA EditsSound ==
  ASSUME AllSound, EditsNext
  PROVE  AllSound'
<1>1. ASSUME NEW u, StarBoard(u) \/ UnstarBoard(u) PROVE AllSound'
  <2>1. \E op \in StarOps : Admit(u, op, [id |-> Board, open |-> TRUE])
    BY <1>1 DEF StarBoard, UnstarBoard, StarOps
  <2>. QED
    BY <2>1, PlainSound DEF LetIn, StarOps, PlaceOps
<1>2. ASSUME NEW u, NEW v, NEW s, NEW set, NEW complete,
             \/ BoardUpdate(u, v) \/ ListUpdate(u, v) \/ UpdatePriority(u, v) \/ SetEstimate(u, v)
             \/ UpdateStatus(u, s) \/ CardUpdate(u, set, complete)
      PROVE  AllSound'
  <2>1. \E op \in {"board.update", "list.update", "card.priority", "time.estimate",
                   "card.status", "card.update"} : \E x, y :
           AskEdit(u, op, x, y) /\ Live(Board)
    BY <1>2 DEF BoardUpdate, ListUpdate, UpdatePriority, SetEstimate, UpdateStatus, CardUpdate,
                EditedOpen
  <2>. QED
    BY <2>1, PlainSound DEF AskEdit, LetIn, WriteOps, PlaceOps
<1>3. ASSUME NEW r \in inflight, WriteColumns(r) \/ WriteStar(r) PROVE AllSound'
  BY <1>3, EndsSound DEF WriteColumns, WriteStar, Finish
<1>. QED
  BY <1>1, <1>2, <1>3 DEF EditsNext

\* Archiving, restoring and deleting.
LEMMA StateSound ==
  ASSUME NEW u, NEW l, NEW c, AllSound,
         \/ BoardArchive(u) \/ BoardUnarchive(u) \/ BoardDelete(u)
         \/ ListArchive(u, l) \/ ListUnarchive(u, l) \/ ListDelete(u, l)
         \/ StateNext(u, c)
  PROVE  AllSound'
<1>1. \E op \in {"board.archive", "board.unarchive", "board.delete", "list.archive",
                 "list.unarchive", "list.delete", "card.archive", "card.unarchive", "card.delete"} :
      \E i : /\ AskState(u, op, i)
             /\ \/ Live(Board)
                \/ i = Board /\ op \in {"board.unarchive", "board.delete"}
  BY DEF BoardArchive, BoardUnarchive, BoardDelete, ListArchive, ListUnarchive, ListDelete,
         StateNext, CardArchive, CardUnarchive, CardDelete
<1>. QED
  BY <1>1, PlainSound DEF AskState, LetIn, WriteOps, AdminOps, PlaceOps

-----------------------------------------------------------------------------
(* Places *)

RowsTyped == IsFiniteSet(DOMAIN row) /\ \A i \in DOMAIN row : row[i] \in Row

RanksIn(S) == {row[j].rank : j \in S}

\* The optional rank of the last and of the first row of a set.
LastOf(S)  == IF S = {} THEN {} ELSE {Max(RanksIn(S))}
FirstOf(S) == IF S = {} THEN {} ELSE {Min(RanksIn(S))}

LEMMA EndRanks ==
  ASSUME RowsTyped, NEW c, NEW S \in SUBSET In(c)
  PROVE  /\ \A i \in S : i \in DOMAIN row \ {Board} /\ row[i].rank \in Int
         /\ LastOf(S) \subseteq RanksIn(S) /\ \A a, b \in LastOf(S) : a = b
         /\ FirstOf(S) \subseteq RanksIn(S) /\ \A a, b \in FirstOf(S) : a = b
         /\ \A i \in S : \E a \in LastOf(S) : row[i].rank <= a
         /\ \A i \in S : \E b \in FirstOf(S) : b <= row[i].rank
         /\ RanksIn(S) \subseteq Int
<1>1. S \subseteq DOMAIN row /\ Board \notin S
  BY DEF In
<1>2. IsFiniteSet(S)
  BY <1>1, FS_Subset DEF RowsTyped
<1>3. \A i \in S : row[i].rank \in Int
  BY <1>1 DEF RowsTyped, Row
<1>4. RanksIn(S) \subseteq Int /\ IsFiniteSet(RanksIn(S))
  <2>. DEFINE f == [i \in S |-> row[i].rank]
  <2>1. f \in Surjection(S, RanksIn(S))
    BY DEF Surjection, RanksIn
  <2>. HIDE DEF f
  <2>2. IsFiniteSet(RanksIn(S))
    BY <1>2, <2>1, FS_Surjection
  <2>. QED
    BY <1>3, <2>2 DEF RanksIn
<1>5. CASE S = {}
  <2>1. LastOf(S) = {} /\ FirstOf(S) = {}
    BY <1>5 DEF LastOf, FirstOf
  <2>. QED
    BY <1>1, <1>3, <1>4, <1>5, <2>1
<1>6. CASE S # {}
  <2>1. RanksIn(S) # {} /\ \A i \in S : row[i].rank \in RanksIn(S)
    BY <1>6 DEF RanksIn
  <2>2. Max(RanksIn(S)) \in RanksIn(S) /\ \A y \in RanksIn(S) : y <= Max(RanksIn(S))
    BY <1>4, <2>1, Greatest
  <2>3. Min(RanksIn(S)) \in RanksIn(S) /\ \A y \in RanksIn(S) : Min(RanksIn(S)) <= y
    BY <1>4, <2>1, Lowest
  <2>4. LastOf(S) = {Max(RanksIn(S))} /\ FirstOf(S) = {Min(RanksIn(S))}
    BY <1>6 DEF LastOf, FirstOf
  <2>. QED
    BY <1>1, <1>3, <1>4, <2>1, <2>2, <2>3, <2>4
<1>. QED
  BY <1>5, <1>6

\* The rank a request computes from the rows above and below: it is between
\* them, and there is none only if two of them tie.
LEMMA Between ==
  ASSUME RowsTyped, NEW c, NEW above \in SUBSET In(c), NEW below \in SUBSET In(c),
         \A j \in above, k \in below : row[j].rank <= row[k].rank,
         HasRoom(LastOf(above), FirstOf(below))
  PROVE  /\ \A r \in GetRankBetween(LastOf(above), FirstOf(below)) :
               /\ r \in Int
               /\ \A i \in above : row[i].rank < r
               /\ \A i \in below : r < row[i].rank
         /\ GetRankBetween(LastOf(above), FirstOf(below)) = {}
              => \E j \in above, k \in below : row[j].rank = row[k].rank
<1>. DEFINE prev == LastOf(above)
            next == FirstOf(below)
<1>1. /\ prev \subseteq RanksIn(above) /\ (\A a, b \in prev : a = b)
      /\ prev \subseteq Int
      /\ \A i \in above : row[i].rank \in Int /\ \E a \in prev : row[i].rank <= a
  BY EndRanks
<1>2. /\ next \subseteq RanksIn(below) /\ (\A a, b \in next : a = b)
      /\ next \subseteq Int
      /\ \A i \in below : row[i].rank \in Int /\ \E b \in next : b <= row[i].rank
  BY EndRanks
<1>3. \A a \in prev, b \in next : a <= b
  BY <1>1, <1>2 DEF RanksIn
<1>. HIDE DEF prev, next
<1>4. HasRoom(prev, next)
  BY DEF prev, next
<1>5. /\ \A r \in GetRankBetween(prev, next) :
            /\ r \in Int
            /\ \A a \in prev : a < r
            /\ \A b \in next : r < b
      /\ GetRankBetween(prev, next) = {} => prev # {} /\ prev = next
  BY <1>1, <1>2, <1>3, <1>4, NewRank
<1>6. ASSUME NEW r \in GetRankBetween(prev, next)
      PROVE  /\ r \in Int
             /\ \A i \in above : row[i].rank < r
             /\ \A i \in below : r < row[i].rank
  BY <1>1, <1>2, <1>5
<1>7. ASSUME GetRankBetween(prev, next) = {}
      PROVE  \E j \in above, k \in below : row[j].rank = row[k].rank
  <2>1. PICK a : a \in prev /\ a \in next
    BY <1>5, <1>7
  <2>. QED
    BY <1>1, <1>2, <2>1 DEF RanksIn
<1>. QED
  BY <1>6, <1>7 DEF prev, next

\* The rows that a page leaves out come after it.
LEMMA PageFirst ==
  ASSUME RowsTyped, NEW c, NEW j \in Page(c), NEW k \in In(c) \ Page(c)
  PROVE  row[j].rank <= row[k].rank
<1>. DEFINE Before(i) == {x \in In(c) : row[x].rank < row[i].rank}
<1>1. In(c) \in SUBSET In(c) /\ j \in In(c)
  BY DEF Page
<1>2. \A i \in In(c) : row[i].rank \in Int
  BY <1>1, EndRanks
<1>3. IsFiniteSet(In(c))
  BY FS_Subset DEF In, RowsTyped
<1>4. IsFiniteSet(Before(j)) /\ IsFiniteSet(Before(k))
  BY <1>3, FS_Subset
<1>5. Cardinality(Before(j)) < PageSize /\ ~(Cardinality(Before(k)) < PageSize)
  BY DEF Page
<1>6. ASSUME row[k].rank < row[j].rank PROVE FALSE
  <2>1. Before(k) \subseteq Before(j)
    BY <1>1, <1>2, <1>6
  <2>2. Cardinality(Before(k)) <= Cardinality(Before(j))
    BY <1>4, <2>1, FS_Subset
  <2>3. Cardinality(Before(k)) \in Nat /\ Cardinality(Before(j)) \in Nat
    BY <1>4, FS_CardinalityType
  <2>. QED
    BY <1>5, <2>2, <2>3, PageSizeIsPositive
<1>. QED
  BY <1>1, <1>2, <1>6

\* What a request has seen.
LEMMA SeenIs ==
  ASSUME NEW c
  PROVE  /\ \A e \in Ranks(c) : e[1] \in In(c) /\ e[2] = row[e[1]].rank
         /\ \A i \in In(c) : \E e \in Ranks(c) : e[1] = i
<1>1. ASSUME NEW e \in Ranks(c) PROVE e[1] \in In(c) /\ e[2] = row[e[1]].rank
  <2>1. PICK i \in In(c) : e = <<i, row[i].rank>>
    BY DEF Ranks
  <2>. QED
    BY <2>1
<1>2. ASSUME NEW i \in In(c) PROVE \E e \in Ranks(c) : e[1] = i
  <2>1. <<i, row[i].rank>> \in Ranks(c) /\ <<i, row[i].rank>>[1] = i
    BY DEF Ranks
  <2>. QED
    BY <2>1
<1>. QED
  BY <1>1, <1>2

LEMMA AppendSound ==
  ASSUME RowsTyped, AllSound, NEW u, NEW op \in {"list.create", "card.create", "card.subcard"},
         NEW c \in Lists \cup {Board}, AskAppend(u, op, c), Live(Board) \/ op = "card.create"
  PROVE  AllSound'
<1>1. PICK rank \in EndRank(c) :
         Admit(u, op, [id |-> Board, to |-> c, rank |-> rank, seen |-> Ranks(c),
                       above |-> In(c), below |-> {}, blind |-> FALSE,
                       open |-> Live(Board)])
  BY DEF AskAppend
<1>. DEFINE d == [id |-> Board, to |-> c, rank |-> rank, seen |-> Ranks(c),
                  above |-> In(c), below |-> {}, blind |-> FALSE, open |-> Live(Board)]
<1>2. EndRank(c) = GetRankBetween(LastOf(In(c)), FirstOf({}))
  BY DEF EndRank, LastOf, FirstOf, RanksIn
<1>3. HasRoom(LastOf(In(c)), FirstOf({}))
  BY DEF HasRoom, FirstOf
<1>4. rank \in Int /\ \A i \in In(c) : row[i].rank < rank
  BY <1>1, <1>2, <1>3, Between
<1>5. \A i \in In(c) : row[i].rank \in Int
  BY EndRanks
<1>6. /\ d.to = c /\ d.rank = rank /\ d.seen = Ranks(c) /\ d.above = In(c) /\ d.below = {}
      /\ d.open = Live(Board) /\ d.id = Board
  OBVIOUS
<1>7. Admit(u, op, d)
  BY <1>1
<1>. HIDE DEF d
<1>8. WellPlaced(d)
  <2>1. \A e \in d.seen : e[1] \in In(c) /\ e[2] = row[e[1]].rank /\ e[2] < rank /\ e[2] # rank
    BY <1>4, <1>5, <1>6, SeenIs
  <2>2. \A i \in d.above \cup d.below : \E e \in d.seen : e[1] = i
    BY <1>6, SeenIs
  <2>. QED
    BY <1>4, <1>6, <2>1, <2>2 DEF WellPlaced
<1>9. LetIn(op, d)
  BY <1>6, Unstopped DEF LetIn
<1>. QED
  BY <1>6, <1>7, <1>8, <1>9, AdmitsSound DEF Carries, WriteOps

LEMMA PlaceSound ==
  ASSUME RowsTyped, AllSound, NEW u, NEW op \in {"list.move", "card.move"}, NEW i,
         NEW c \in Lists \cup {Board}, NEW fallback \in SUBSET Int,
         AskPlace(u, op, i, c, fallback), Live(Board)
  PROVE  AllSound'
<1>. DEFINE page == Page(c) \ {i}
<1>1. PICK above \in SUBSET page :
        LET below   == page \ above
            between == GetRankBetween(LastOf(above), FirstOf(below))
        IN  /\ \A j \in above, k \in below : row[j].rank <= row[k].rank
            /\ HasRoom(LastOf(above), FirstOf(below))
            /\ \E rank \in IF between = {} THEN fallback ELSE between :
                 Admit(u, op,
                   [id |-> i, to |-> c, rank |-> rank,
                    seen |-> {e \in Ranks(c) : e[1] # i},
                    above |-> above, below |-> below,
                    blind |-> between = {} \/ (below = {} /\ Page(c) # In(c)),
                    open |-> Live(Board)])
  BY DEF AskPlace, LastOf, FirstOf, RanksIn
<1>. DEFINE below   == page \ above
            between == GetRankBetween(LastOf(above), FirstOf(below))
<1>2. PICK rank \in IF between = {} THEN fallback ELSE between :
        Admit(u, op,
          [id |-> i, to |-> c, rank |-> rank, seen |-> {e \in Ranks(c) : e[1] # i},
           above |-> above, below |-> below,
           blind |-> between = {} \/ (below = {} /\ Page(c) # In(c)), open |-> Live(Board)])
  BY <1>1
<1>. DEFINE d == [id |-> i, to |-> c, rank |-> rank, seen |-> {e \in Ranks(c) : e[1] # i},
                  above |-> above, below |-> below,
                  blind |-> between = {} \/ (below = {} /\ Page(c) # In(c)),
                  open |-> Live(Board)]
<1>3. /\ \A j \in above, k \in below : row[j].rank <= row[k].rank
      /\ HasRoom(LastOf(above), FirstOf(below))
  BY <1>1
<1>4. /\ Page(c) \subseteq In(c) /\ page \subseteq In(c) \ {i}
      /\ above \subseteq In(c) \ {i} /\ below \subseteq In(c) \ {i}
      /\ page = above \cup below /\ above \cap below = {} /\ page = Page(c) \ {i}
  BY DEF Page
<1>5. /\ d.to = c /\ d.rank = rank /\ d.seen = {e \in Ranks(c) : e[1] # i}
      /\ d.above = above /\ d.below = below /\ d.open = Live(Board)
      /\ d.blind <=> between = {} \/ (below = {} /\ Page(c) # In(c))
  OBVIOUS
<1>6. Admit(u, op, d)
  BY <1>2
<1>. HIDE DEF d, below, page
<1>7. /\ \A r \in between :
            /\ r \in Int
            /\ \A j \in above : row[j].rank < r
            /\ \A j \in below : r < row[j].rank
      /\ between = {} => \E j \in above, k \in below : row[j].rank = row[k].rank
  BY <1>3, <1>4, Between
<1>. HIDE DEF between
<1>8. rank \in Int
  BY <1>2, <1>7
<1>9. \A j \in In(c) : row[j].rank \in Int
  BY EndRanks
<1>10. /\ \A e \in d.seen : e[1] \in In(c) \ {i} /\ e[2] = row[e[1]].rank
       /\ \A j \in In(c) \ {i} : \E e \in d.seen : e[1] = j
  BY <1>5, SeenIs
<1>11. ASSUME ~d.blind, NEW e \in d.seen PROVE e[2] # d.rank
  <2>1. between # {} /\ rank \in between
    BY <1>2, <1>5, <1>11
  <2>2. CASE e[1] \in page
    BY <1>4, <1>5, <1>7, <1>8, <1>9, <1>10, <2>1, <2>2
  <2>3. CASE e[1] \notin page
    <3>1. e[1] \in In(c) \ Page(c)
      BY <1>4, <1>10, <2>3
    <3>2. PICK j \in below : TRUE
      BY <1>5, <1>11, <3>1
    <3>3. row[j].rank <= row[e[1]].rank
      BY <1>4, <3>1, <3>2, PageFirst
    <3>4. rank < row[j].rank
      BY <1>7, <2>1, <3>2
    <3>. QED
      BY <1>4, <1>5, <1>8, <1>9, <1>10, <3>1, <3>2, <3>3, <3>4
  <2>. QED
    BY <2>2, <2>3
<1>12. \A j \in d.above \cup d.below : \E e \in d.seen : e[1] = j
  BY <1>4, <1>5, <1>10
<1>13. \/ \E e, f \in d.seen : /\ e[1] # f[1] /\ e[2] = f[2]
                               /\ {e[1], f[1]} \subseteq d.above \cup d.below
       \/ \A e \in d.seen : /\ e[1] \in d.above => e[2] < d.rank
                            /\ e[1] \in d.below => d.rank < e[2]
  <2>1. CASE between = {}
    <3>1. PICK j \in above, k \in below : row[j].rank = row[k].rank
      BY <1>7, <2>1
    <3>2. PICK e \in d.seen : e[1] = j
      BY <1>4, <1>10, <3>1
    <3>3. PICK f \in d.seen : f[1] = k
      BY <1>4, <1>10, <3>1
    <3>4. e[1] # f[1] /\ e[2] = f[2] /\ {e[1], f[1]} \subseteq d.above \cup d.below
      BY <1>4, <1>5, <1>10, <3>1, <3>2, <3>3
    <3>. QED
      BY <3>4
  <2>2. CASE between # {}
    <3>1. rank \in between
      BY <1>2, <2>2
    <3>. QED
      BY <1>5, <1>7, <1>10, <3>1
  <2>. QED
    BY <2>1, <2>2
<1>14. WellPlaced(d)
  BY <1>5, <1>8, <1>11, <1>12, <1>13 DEF WellPlaced
<1>15. LetIn(op, d)
  BY <1>5 DEF LetIn
<1>. QED
  BY <1>6, <1>14, <1>15, AdmitsSound DEF Carries, WriteOps

LEMMA OrderSound ==
  ASSUME RowsTyped, AllSound, OrderNext
  PROVE  AllSound'
<1>1. ASSUME NEW u, ListCreate(u) PROVE AllSound'
  BY <1>1, AppendSound DEF ListCreate
<1>2. ASSUME NEW u, NEW l \in Lists, CardCreate(u, l) PROVE AllSound'
  BY <1>2, AppendSound DEF CardCreate
<1>3. ASSUME NEW u, NEW p \in DOMAIN row, CreateSubcard(u, p) PROVE AllSound'
  <2>1. row[p].in \in Lists \cup {Board}
    BY DEF RowsTyped, Row
  <2>. QED
    BY <1>3, <2>1, AppendSound DEF CreateSubcard
<1>4. ASSUME NEW u, NEW l, ListMove(u, l) PROVE AllSound'
  BY <1>4, PlaceSound DEF ListMove
<1>5. ASSUME NEW u, NEW c, NEW l \in Lists, CardMove(u, c, l) PROVE AllSound'
  BY <1>5, PlaceSound DEF CardMove, InitialRank
<1>6. ASSUME NEW r \in inflight, InsertList(r) \/ InsertCard(r) \/ MoveRow(r) \/ WriteState(r)
      PROVE  AllSound'
  BY <1>6, EndsSound DEF InsertList, InsertCard, Insert, MoveRow, WriteState, WriteArchive,
                         WriteUnarchive, WriteDelete, Finish
<1>. QED
  BY <1>1, <1>2, <1>3, <1>4, <1>5, <1>6, StateSound DEF OrderNext

-----------------------------------------------------------------------------
(* The order of the board *)

BoardInv == AllSound /\ RowsTyped /\ TiesExplained

\* A row is inserted or moved: its rank is new to a container that did not
\* change since it was read, or the row is loose from now on.
LEMMA PlacedInOrder ==
  ASSUME BoardInv, NEW r \in inflight, r.op \in PlaceOps, NEW i, Placed(r, i),
         NEW x, x.in = r.data.to, x.rank = r.data.rank, x \in Row,
         DOMAIN row \subseteq DOMAIN row', DOMAIN row' \subseteq DOMAIN row \cup {i},
         \A j \in DOMAIN row \ {i} : row'[j] = row[j],
         i \in DOMAIN row' => row'[i] = x,
         i = r.data.id \/ r.data.id = Board
  PROVE  RowsTyped' /\ TiesExplained'
<1>1. WellPlaced(r.data)
  BY DEF BoardInv, AllSound, Sound, Carries
<1>2. RowsTyped'
  <2>1. IsFiniteSet(DOMAIN row \cup {i})
    BY FS_AddElement DEF BoardInv, RowsTyped
  <2>2. IsFiniteSet(DOMAIN row')
    BY <2>1, FS_Subset
  <2>. QED
    BY <2>2 DEF BoardInv, RowsTyped
<1>3. ASSUME NEW j \in (Lists \cup Cards) \cap DOMAIN row', j # i, Live(j)',
             i \in DOMAIN row', row'[j].in = x.in, row'[j].rank = x.rank
      PROVE  i \in loose'
  <2>1. j \in DOMAIN row /\ row'[j] = row[j] /\ j # Board
    BY <1>3, DisjointIds
  <2>2. j \in In(r.data.to)
    BY <1>3, <2>1 DEF In, Live
  <2>3. <<j, row[j].rank>> \in Ranks(r.data.to) /\ <<j, row[j].rank>>[1] = j
        /\ <<j, row[j].rank>>[2] = row[j].rank
    BY <2>2 DEF Ranks
  <2>4. CASE Steady(r) /\ ~r.data.blind
    <3>0. ASSUME j # r.data.id PROVE FALSE
      <4>1. <<j, row[j].rank>> \in r.data.seen
        BY <2>3, <2>4, <3>0 DEF Steady
      <4>2. row[j].rank # r.data.rank
        BY <1>1, <2>3, <2>4, <4>1 DEF WellPlaced
      <4>. QED
        BY <1>3, <2>1, <4>2
    <3>. QED
      BY <3>0, <1>3, <2>1
  <2>5. CASE ~(Steady(r) /\ ~r.data.blind)
    BY <2>5 DEF Placed
  <2>. QED
    BY <2>4, <2>5
<1>4. ASSUME NEW j \in (Lists \cup Cards) \cap DOMAIN row', NEW k \in (Lists \cup Cards) \cap DOMAIN row',
             Live(j)', Live(k)', j # k, row'[j].in = row'[k].in, row'[j].rank = row'[k].rank
      PROVE  {j, k} \cap loose' # {}
  <2>1. CASE j = i
    BY <1>3, <1>4, <2>1
  <2>2. CASE k = i
    BY <1>3, <1>4, <2>2
  <2>3. CASE j # i /\ k # i
    <3>1. /\ j \in DOMAIN row /\ k \in DOMAIN row /\ row'[j] = row[j] /\ row'[k] = row[k]
          /\ Live(j) /\ Live(k)
      BY <1>4, <2>3 DEF Live
    <3>2. {j, k} \cap loose # {}
      BY <1>4, <3>1 DEF BoardInv, TiesExplained
    <3>. QED
      BY <2>3, <3>2 DEF Placed
  <2>. QED
    BY <2>1, <2>2, <2>3
<1>5. TiesExplained'
  BY <1>4 DEF TiesExplained
<1>. QED
  BY <1>2, <1>5

LEMMA RowInserted ==
  ASSUME BoardInv, NEW r \in inflight, InsertList(r) \/ InsertCard(r)
  PROVE  RowsTyped' /\ TiesExplained'
<1>1. PICK ids : Insert(r, ids) /\ r.op \in PlaceOps /\ r.data.id = Board
  BY DEF InsertList, InsertCard, PlaceOps, BoardInv, AllSound, Sound, Carries
<1>. DEFINE i == CHOOSE x \in ids \ DOMAIN row : TRUE
            x == [in |-> r.data.to, rank |-> r.data.rank, archived |-> FALSE, deleted |-> FALSE]
<1>2. /\ i \notin DOMAIN row /\ Placed(r, i)
      /\ row' = [y \in DOMAIN row \cup {i} |-> IF y \in DOMAIN row THEN row[y] ELSE x]
  BY <1>1 DEF Insert
<1>3. x.in = r.data.to /\ x.rank = r.data.rank /\ x \in Row
  BY <1>1 DEF BoardInv, AllSound, Sound, Carries, WellPlaced, Row
<1>. HIDE DEF i, x
<1>4. /\ DOMAIN row' = DOMAIN row \cup {i}
      /\ \A j \in DOMAIN row \ {i} : row'[j] = row[j]
      /\ row'[i] = x
  BY <1>2
<1>. QED
  BY <1>1, <1>2, <1>3, <1>4, PlacedInOrder

LEMMA RowMoved ==
  ASSUME BoardInv, NEW r \in inflight, MoveRow(r)
  PROVE  RowsTyped' /\ TiesExplained'
<1>. DEFINE i == r.data.id
            x == IF i \in DOMAIN row
                 THEN [row[i] EXCEPT !.in = r.data.to, !.rank = r.data.rank]
                 ELSE [in |-> r.data.to, rank |-> r.data.rank, archived |-> FALSE, deleted |-> FALSE]
<1>1. /\ row' = [row EXCEPT ![i].in = r.data.to, ![i].rank = r.data.rank]
      /\ Placed(r, i) /\ r.op \in PlaceOps
  BY DEF MoveRow, PlaceOps
<1>2. r.data.to \in Lists \cup {Board} /\ r.data.rank \in Int
  BY <1>1 DEF BoardInv, AllSound, Sound, Carries, WellPlaced
<1>3. x.in = r.data.to /\ x.rank = r.data.rank /\ x \in Row
  BY <1>2 DEF BoardInv, RowsTyped, Row
<1>4. /\ DOMAIN row' = DOMAIN row
      /\ \A j \in DOMAIN row \ {i} : row'[j] = row[j]
      /\ i \in DOMAIN row' => row'[i] = x
  BY <1>1
<1>. HIDE DEF i, x
<1>. QED
  BY <1>1, <1>3, <1>4, PlacedInOrder DEF i

\* Archiving and deleting make no row live; restoring makes one loose.
LEMMA RowClosed ==
  ASSUME BoardInv, NEW r \in inflight, WriteState(r)
  PROVE  RowsTyped' /\ TiesExplained'
<1>. DEFINE i == r.data.id
<1>1. /\ DOMAIN row' = DOMAIN row
      /\ \A j \in DOMAIN row : /\ row'[j].in = row[j].in /\ row'[j].rank = row[j].rank
                               /\ row'[j] \in Row
                               /\ Live(j)' /\ ~Live(j) => j \in loose'
      /\ loose \subseteq loose'
  <2>1. CASE WriteArchive(r)
    BY <2>1 DEF WriteArchive, BoardInv, RowsTyped, Row, Live
  <2>2. CASE WriteDelete(r)
    BY <2>2 DEF WriteDelete, BoardInv, RowsTyped, Row, Live
  <2>3. CASE WriteUnarchive(r)
    BY <2>3 DEF WriteUnarchive, BoardInv, RowsTyped, Row, Live
  <2>. QED
    BY <2>1, <2>2, <2>3 DEF WriteState
<1>2. RowsTyped'
  BY <1>1 DEF BoardInv, RowsTyped
<1>3. TiesExplained'
  BY <1>1 DEF BoardInv, TiesExplained
<1>. QED
  BY <1>2, <1>3

LEMMA BoardStep == BoardInv /\ [Next]_vars => BoardInv'
<1>. SUFFICES ASSUME BoardInv, [Next]_vars PROVE BoardInv'
  OBVIOUS
<1>1. CASE UNCHANGED <<requestVars, orderVars>>
  <2>1. AllSound'
    BY <1>1, EndsSound DEF BoardInv, requestVars
  <2>2. RowsTyped' /\ TiesExplained'
    BY <1>1 DEF BoardInv, RowsTyped, TiesExplained, Live, orderVars
  <2>. QED
    BY <2>1, <2>2 DEF BoardInv
<1>2. CASE ContentsNext
  <2>1. CASE OrderNext \/ Closing
    <3>1. AllSound'
      <4>1. CASE OrderNext
        BY <4>1, OrderSound DEF BoardInv
      <4>2. CASE Closing
        BY <4>2, StateSound, EndsSound DEF BoardInv, Closing, WriteState, WriteArchive,
                                           WriteUnarchive, WriteDelete, Finish
      <4>. QED
        BY <2>1, <4>1, <4>2
    <3>2. RowsTyped' /\ TiesExplained'
      <4>1. CASE UNCHANGED orderVars
        BY <4>1 DEF BoardInv, RowsTyped, TiesExplained, Live, orderVars
      <4>2. ASSUME NEW r \in inflight, InsertList(r) \/ InsertCard(r) \/ MoveRow(r) \/ WriteState(r)
            PROVE  RowsTyped' /\ TiesExplained'
        BY <4>2, RowInserted, RowMoved, RowClosed
      <4>3. \/ UNCHANGED orderVars
            \/ \E r \in inflight : InsertList(r) \/ InsertCard(r) \/ MoveRow(r) \/ WriteState(r)
        <5>1. \A u, op, c : AskAppend(u, op, c) => UNCHANGED orderVars
          BY DEF AskAppend
        <5>2. \A u, op, i, c, fallback : AskPlace(u, op, i, c, fallback) => UNCHANGED orderVars
          BY DEF AskPlace
        <5>3. \A u, op, i : AskState(u, op, i) => UNCHANGED orderVars
          BY DEF AskState
        <5>4. \A u, c : StateNext(u, c) => UNCHANGED orderVars
          BY <5>3 DEF StateNext, CardArchive, CardUnarchive, CardDelete
        <5>5. \A u : BoardArchive(u) \/ BoardUnarchive(u) \/ BoardDelete(u) => UNCHANGED orderVars
          BY <5>3 DEF BoardArchive, BoardUnarchive, BoardDelete
        <5>6. \A u, l : ListArchive(u, l) \/ ListUnarchive(u, l) \/ ListDelete(u, l)
                          => UNCHANGED orderVars
          BY <5>3 DEF ListArchive, ListUnarchive, ListDelete
        <5>7. \A u, i : ListCreate(u) \/ CardCreate(u, i) \/ CreateSubcard(u, i)
                          => UNCHANGED orderVars
          BY <5>1 DEF ListCreate, CardCreate, CreateSubcard
        <5>8. \A u, i, l : ListMove(u, l) \/ CardMove(u, i, l) => UNCHANGED orderVars
          BY <5>2 DEF ListMove, CardMove
        <5>9. CASE OrderNext
          BY <5>9, <5>4, <5>5, <5>6, <5>7, <5>8 DEF OrderNext
        <5>10. CASE Closing
          BY <5>10, <5>4, <5>5 DEF Closing
        <5>. QED
          BY <2>1, <5>9, <5>10
      <4>. QED
        BY <4>1, <4>2, <4>3
    <3>. QED
      BY <3>1, <3>2 DEF BoardInv
  <2>2. CASE TimeNext \/ ChecklistNext \/ CommentNext \/ WornNext \/ FieldNext \/ UploadsNext \/ EditsNext
    <3>1. AllSound'
      BY <2>2, TimeSound, ChecklistSound, CommentSound, WornSound, FieldSound, FilesSound,
         EditsSound DEF BoardInv
    <3>2. UNCHANGED orderVars
      <4>1. CASE TimeNext
        BY <4>1 DEF TimeNext, AskLog, Ask, AddEntry, Reread, Announce
      <4>2. CASE ChecklistNext
        BY <4>2 DEF ChecklistNext, CreateChecklist, RenameChecklist, DeleteChecklist, AddItem,
             RemoveItem, PromoteItem, UpdateItem, AskItem, Ask, InsertChecklist, WriteTitle,
             EraseChecklist, InsertItem, WriteItem, EraseItem, Drop, PromoteCheck, PromoteCreate,
             PromoteTick, SetChecklist
      <4>3. CASE CommentNext
        BY <4>3 DEF CommentNext, CreateComment, UpdateComment, DeleteComment, Ask, InsertComment,
             WriteContent, SoftDelete, SetComment
      <4>4. CASE WornNext
        BY <4>4 DEF WornNext, CreateLabel, CreateWorkspaceLabel, UpdateLabel, UpdateWorkspaceLabel,
             DeleteLabel, DeleteWorkspaceLabel, AddLabel, RemoveLabel, AddAssignee, RemoveAssignee,
             Ask, InsertLabel, WriteLabel, EraseLabel, WearLabel, UnwearLabel, WriteAssignee,
             SetWorn, Drop
      <4>5. CASE FieldNext
        BY <4>5 DEF FieldNext, CreateDef, UpdateDef, DeleteDef, SetValue, Ask, InsertDef, WriteDef,
             EraseDef, WriteValue, FieldRefused, SetField, Drop
      <4>6. CASE UploadsNext
        BY <4>6 DEF UploadsNext, AskUpload, AskConfirm, AskDeleteFile, AskFile, RequestUpload, PutObject,
             ConfirmRead, Confirm, ArchiveFile, DeleteObject, SweepStale
      <4>7. CASE EditsNext
        BY <4>7 DEF EditsNext, StarBoard, UnstarBoard, BoardUpdate, ListUpdate, UpdatePriority,
             SetEstimate, UpdateStatus, CardUpdate, AskEdit, WriteColumns, WriteStar
      <4>. QED
        BY <2>2, <4>1, <4>2, <4>3, <4>4, <4>5, <4>6, <4>7
    <3>3. RowsTyped' /\ TiesExplained'
      BY <3>2 DEF BoardInv, RowsTyped, TiesExplained, Live, orderVars
    <3>. QED
      BY <3>1, <3>3 DEF BoardInv
  <2>. QED
    BY <1>2, <2>1, <2>2 DEF ContentsNext
<1>. QED
  BY <1>1, <1>2 DEF Next, vars, contentVars

LEMMA BoardStarts == Init => BoardInv
<1>. SUFFICES ASSUME Init PROVE BoardInv
  OBVIOUS
<1>1. inflight = {} /\ row = FirstRows
  BY DEF Init, ContentsInit, OrderInit
<1>2. RowsTyped
  BY <1>1, FirstRowsInOrder DEF RowsTyped
<1>3. TiesExplained
  BY <1>1, FirstRowsInOrder, DisjointIds DEF TiesExplained
<1>. QED
  BY <1>1, <1>2, <1>3 DEF BoardInv, AllSound

\* No request on its way exceeds the role of its user or was let in by an
\* archived board, but through the methods of CardService that do not look at
\* it, whatever overlaps: RbacGuard, the route tables and the services' reads
\* of the board, for every workspace.
THEOREM BoardWritesPermitted == Spec => []WritesPermitted
<1>1. BoardInv => WritesPermitted
  <2>. SUFFICES ASSUME BoardInv, NEW r \in inflight
       PROVE  /\ RoleOf[r.user] = "viewer" => r.op \in {"board.star", "board.unstar"}
              /\ r.op \in AdminOps => RoleOf[r.user] \in {"owner", "admin"}
              /\ "open" \in DOMAIN r.data /\ ~r.data.open
                   => \/ r.data.id = Board
                          /\ r.op \in {"board.archive", "board.unarchive", "board.delete"}
                      \/ r.op \in {"card.create", "card.label", "card.assign"}
                      \/ r.op \in Ops(WorkspaceLabelRoutes \cup FieldDefRoutes)
    BY DEF WritesPermitted, RolesRespected, ArchivedBoardFrozen, AdminOps
  <2>1. Permitted(r.op, r.user) /\ LetIn(r.op, r.data)
    BY DEF BoardInv, AllSound, Sound, Carries
  <2>. QED
    BY <2>1 DEF Permitted, LetIn, StarOps, UnstoppedOps
<1>. QED
  BY <1>1, BoardStarts, BoardStep, PTL DEF Spec

\* Two live rows of a container share a rank only for a named reason, whatever
\* requests overlap: LexorankService and the services that place, archive and
\* restore rows.
THEOREM BoardTiesExplained == Spec => []TiesExplained
<1>1. BoardInv => TiesExplained
  BY DEF BoardInv
<1>. QED
  BY <1>1, BoardStarts, BoardStep, PTL DEF Spec

\* A row lands where it was dropped unless its container changed meanwhile or
\* the rows around it tied: getRankBetween of the neighbours the user saw.
THEOREM BoardDropsLand == Spec => DropsLand
<1>. DEFINE Lands(r) ==
        (/\ r.op \in {"list.move", "card.move", "list.create", "card.create", "card.subcard"}
         /\ Steady(r)
         /\ \A i, j \in r.data.above \cup r.data.below : i # j => row[i].rank # row[j].rank)
        => /\ \A i \in r.data.above : row[i].rank < r.data.rank
           /\ \A i \in r.data.below : r.data.rank < row[i].rank
<1>1. BoardInv => \A r \in inflight : Lands(r)
  <2>. SUFFICES ASSUME BoardInv, NEW r \in inflight, r.op \in PlaceOps, Steady(r),
                       \A i, j \in r.data.above \cup r.data.below : i # j => row[i].rank # row[j].rank
                PROVE  /\ \A i \in r.data.above : row[i].rank < r.data.rank
                       /\ \A i \in r.data.below : r.data.rank < row[i].rank
    BY DEF PlaceOps
  <2>1. WellPlaced(r.data)
    BY DEF BoardInv, AllSound, Sound, Carries
  <2>2. \A e \in r.data.seen : e[2] = row[e[1]].rank
    BY SeenIs DEF Steady
  <2>3. \A e \in r.data.seen : /\ e[1] \in r.data.above => e[2] < r.data.rank
                               /\ e[1] \in r.data.below => r.data.rank < e[2]
    BY <2>1, <2>2 DEF WellPlaced
  <2>. QED
    BY <2>1, <2>2, <2>3 DEF WellPlaced
<1>2. BoardInv => [\A r \in inflight \ inflight' : Lands(r)]_<<inflight, orderVars>>
  BY <1>1
<1>. HIDE DEF Lands
<1>3. Spec => [][\A r \in inflight \ inflight' : Lands(r)]_<<inflight, orderVars>>
  BY <1>2, BoardStarts, BoardStep, PTL DEF Spec
<1>. QED
  BY <1>3 DEF DropsLand, Lands

-----------------------------------------------------------------------------
(* The contents of the card and the board *)

\* What a step may change depends on what the behaviour is about.
LEMMA Focused ==
  ASSUME [Next]_vars
  PROVE  /\ focus' = focus
         /\ focus # "time" => UNCHANGED time
         /\ focus # "checklist" => UNCHANGED checklist
         /\ focus # "comments" => UNCHANGED comment
         /\ focus # "field" => UNCHANGED field
         /\ focus # "edits" => UNCHANGED editVars
         /\ \/ UNCHANGED <<inflight, detailVars, editVars>>
            \/ Closing /\ UNCHANGED <<detailVars, editVars>>
            \/ focus = "time" /\ TimeNext
            \/ focus = "checklist" /\ ChecklistNext
            \/ focus = "comments" /\ CommentNext
            \/ focus = "field" /\ FieldNext
            \/ focus = "edits" /\ EditsNext
            \/ focus \in {"order", "worn", "files"}
<1>1. CASE UNCHANGED vars
  BY <1>1 DEF vars, contentVars, requestVars, detailVars
<1>2. CASE Next /\ ~ContentsNext
  BY <1>2 DEF Next, contentVars, requestVars, detailVars
<1>3. CASE Next /\ ContentsNext
  <2>1. TimeNext => UNCHANGED <<checklist, comment, field>>
    BY DEF TimeNext, AskLog, Ask, AddEntry, Reread, Announce, detailVars
  <2>2. ChecklistNext => UNCHANGED <<time, comment, field>>
    BY DEF ChecklistNext, CreateChecklist, RenameChecklist, DeleteChecklist, AddItem,
             RemoveItem, PromoteItem, UpdateItem, AskItem, Ask, InsertChecklist, WriteTitle,
             EraseChecklist, InsertItem, WriteItem, EraseItem, Drop, PromoteCheck, PromoteCreate,
             PromoteTick, SetChecklist, detailVars
  <2>3. CommentNext => UNCHANGED <<time, checklist, field>>
    BY DEF CommentNext, CreateComment, UpdateComment, DeleteComment, Ask, InsertComment,
             WriteContent, SoftDelete, SetComment, detailVars
  <2>4. WornNext => UNCHANGED <<time, checklist, comment, field>>
    BY DEF WornNext, CreateLabel, CreateWorkspaceLabel, UpdateLabel, UpdateWorkspaceLabel,
             DeleteLabel, DeleteWorkspaceLabel, AddLabel, RemoveLabel, AddAssignee, RemoveAssignee,
             Ask, InsertLabel, WriteLabel, EraseLabel, WearLabel, UnwearLabel, WriteAssignee,
             SetWorn, Drop, detailVars
  <2>5. FieldNext => UNCHANGED <<time, checklist, comment>>
    BY DEF FieldNext, CreateDef, UpdateDef, DeleteDef, SetValue, Ask, InsertDef, WriteDef,
             EraseDef, WriteValue, FieldRefused, SetField, Drop, detailVars
  <2>. QED
    BY <1>3, <2>1, <2>2, <2>3, <2>4, <2>5 DEF Next, ContentsNext, detailVars
<1>. QED
  BY <1>1, <1>2, <1>3

\* The requests that open and close the card and the board are no others.
StateOps ==
    {"board.archive", "board.unarchive", "board.delete", "list.archive", "list.unarchive",
     "list.delete", "card.archive", "card.unarchive", "card.delete"}

LEMMA Closes ==
  ASSUME Closing
  PROVE  /\ \A r \in inflight \ inflight' : r.op \in StateOps
         /\ \A r \in inflight' \ inflight : r.op \in StateOps
<1>1. ASSUME NEW u, StateNext(u, Card) \/ BoardArchive(u)
      PROVE  \E op \in StateOps : \E what : Admit(u, op, what)
  BY <1>1 DEF StateNext, CardArchive, CardUnarchive, CardDelete, BoardArchive, AskState, StateOps
<1>2. ASSUME NEW u, NEW op \in StateOps, NEW what, Admit(u, op, what)
      PROVE  /\ \A r \in inflight \ inflight' : r.op \in StateOps
             /\ \A r \in inflight' \ inflight : r.op \in StateOps
  <2>1. [op |-> op, user |-> u, id |-> asked, data |-> what].op = op
    OBVIOUS
  <2>. QED
    BY <1>2, <2>1 DEF Admit
<1>3. ASSUME NEW r \in inflight, WriteState(r)
      PROVE  r.op \in StateOps /\ inflight' = inflight \ {r}
  BY <1>3 DEF WriteState, WriteArchive, WriteUnarchive, WriteDelete, Finish, StateOps
<1>. QED
  BY <1>1, <1>2, <1>3 DEF Closing

\* The request that an admission puts in flight.
LEMMA Asked ==
  ASSUME NEW u, NEW op, NEW what, Admit(u, op, what)
  PROVE  \E q : /\ inflight' = inflight \cup {q}
                /\ q.op = op /\ q.data = what
<1>. DEFINE q == [op |-> op, user |-> u, id |-> asked, data |-> what]
<1>1. inflight' = inflight \cup {q} /\ q.op = op /\ q.data = what
  BY DEF Admit
<1>. QED
  BY <1>1

\* The next step of a request that has its fields.
LEMMA Continued ==
  ASSUME NEW r \in inflight, Sound(r), NEW op, Continue(r, op)
  PROVE  \E q : /\ inflight' = (inflight \ {r}) \cup {q}
                /\ q.op = op /\ q.data = r.data
<1>. DEFINE q == [r EXCEPT !.op = op]
<1>1. inflight' = (inflight \ {r}) \cup {q} /\ q.op = op /\ q.data = r.data
  BY DEF Continue, Sound
<1>. QED
  BY <1>1

-----------------------------------------------------------------------------
(* Time *)

TimeRecord == time = [entered |-> time.entered, logged |-> time.logged,
                      announced |-> time.announced, missed |-> time.missed]

TimeInv ==
    IF focus = "time" THEN TimeRecord /\ LoggedMatches
    ELSE time = [entered |-> 0, logged |-> 0, announced |-> {0}, missed |-> FALSE]

LEMMA TimeStep ==
  ASSUME TimeInv, AllSound, [Next]_vars
  PROVE  TimeInv'
<1>1. CASE focus # "time"
  BY <1>1, Focused DEF TimeInv
<1>2. CASE focus = "time"
  <2>. SUFFICES (TimeRecord /\ LoggedMatches)'
    BY <1>2, Focused DEF TimeInv
  <2>1. TimeRecord /\ LoggedMatches
    BY <1>2 DEF TimeInv
  <2>2. ASSUME UNCHANGED time,
               \A r \in inflight \ inflight' : r.op \notin {"time.log", "time.reread", "time.announce"}
        PROVE  (TimeRecord /\ LoggedMatches)'
    BY <2>1, <2>2 DEF TimeRecord, LoggedMatches, Requested
  <2>3. CASE UNCHANGED <<inflight, detailVars>>
    BY <2>2, <2>3 DEF detailVars
  <2>4. CASE Closing /\ UNCHANGED detailVars
    BY <2>2, <2>4, Closes DEF detailVars, StateOps
  <2>5. ASSUME NEW u, NEW m, AskLog(u, m) PROVE (TimeRecord /\ LoggedMatches)'
    BY <2>2, <2>5 DEF AskLog, Ask, Admit, detailVars
  <2>6. ASSUME NEW r \in inflight, AddEntry(r) PROVE (TimeRecord /\ LoggedMatches)'
    <3>1. PICK q : q \in inflight' /\ q.op = "time.reread"
      BY <2>6, Continued DEF AddEntry, AllSound
    <3>2. Requested("time.reread")' # {}
      BY <3>1 DEF Requested
    <3>3. TimeRecord' /\ time'.logged = time'.entered
      BY <2>1, <2>6 DEF AddEntry, TimeRecord, LoggedMatches
    <3>. QED
      BY <3>2, <3>3 DEF LoggedMatches
  <2>7. ASSUME NEW r \in inflight, Reread(r) PROVE (TimeRecord /\ LoggedMatches)'
    <3>1. CASE Live(Card)
      <4>. DEFINE q == [r EXCEPT !.op = "time.announce", !.data = [total |-> time.logged]]
      <4>1. q \in inflight' /\ UNCHANGED time
        BY <2>7, <3>1 DEF Reread
      <4>2. q.op = "time.announce" /\ q.data.total = time.logged
        BY <2>7 DEF AllSound, Sound
      <4>. HIDE DEF q
      <4>3. q \in Requested("time.announce")'
        BY <4>1, <4>2 DEF Requested
      <4>4. TimeRecord' /\ time'.logged = time'.entered
        BY <2>1, <4>1 DEF TimeRecord, LoggedMatches
      <4>. QED
        BY <4>1, <4>2, <4>3, <4>4 DEF LoggedMatches
    <3>2. CASE ~Live(Card)
      BY <2>1, <2>7, <3>2 DEF Reread, TimeRecord, LoggedMatches
    <3>. QED
      BY <3>1, <3>2
  <2>8. ASSUME NEW r \in inflight, Announce(r) PROVE (TimeRecord /\ LoggedMatches)'
    <3>1. /\ r.op = "time.announce" /\ inflight' = inflight \ {r}
          /\ time' = [time EXCEPT !.announced = @ \cup {r.data.total}]
      BY <2>8 DEF Announce, Finish
    <3>2. /\ TimeRecord' /\ time'.logged = time.logged /\ time'.entered = time.entered
          /\ time'.missed = time.missed
          /\ time'.announced = time.announced \cup {r.data.total}
      BY <2>1, <3>1 DEF TimeRecord
    <3>3. Requested("time.reread")' = Requested("time.reread")
      BY <3>1 DEF Requested
    <3>4. CASE \E q \in Requested("time.announce") : q.data.total = time.logged
      <4>1. PICK q \in Requested("time.announce") : q.data.total = time.logged
        BY <3>4
      <4>2. CASE q = r
        BY <2>1, <3>2, <4>1, <4>2 DEF LoggedMatches
      <4>3. CASE q # r
        <5>1. q \in Requested("time.announce")'
          BY <3>1, <4>1, <4>3 DEF Requested
        <5>. QED
          BY <2>1, <3>2, <4>1, <5>1 DEF LoggedMatches
      <4>. QED
        BY <4>2, <4>3
    <3>5. CASE ~ \E q \in Requested("time.announce") : q.data.total = time.logged
      BY <2>1, <3>2, <3>3, <3>5 DEF LoggedMatches
    <3>. QED
      BY <3>4, <3>5
  <2>. QED
    BY <1>2, <2>3, <2>4, <2>5, <2>6, <2>7, <2>8, Focused DEF TimeNext
<1>. QED
  BY <1>1, <1>2

-----------------------------------------------------------------------------
(* Field *)

FieldRecord == field = [exists |-> field.exists, options |-> field.options,
                        value |-> field.value, stale |-> field.stale]

FieldInv == FieldRecord /\ FieldValueAllowed

LEMMA FieldStep ==
  ASSUME FieldInv, AllSound, [Next]_vars
  PROVE  FieldInv'
<1>1. CASE UNCHANGED field
  BY <1>1 DEF FieldInv, FieldRecord, FieldValueAllowed
<1>2. ASSUME NEW r \in inflight,
             InsertDef(r) \/ WriteDef(r) \/ EraseDef(r) \/ WriteValue(r) \/ FieldRefused(r)
      PROVE  FieldInv'
  <2>1. CASE InsertDef(r) \/ EraseDef(r)
    BY <2>1 DEF InsertDef, EraseDef, SetField, FieldInv, FieldRecord, FieldValueAllowed
  <2>2. CASE WriteDef(r)
    BY <2>2 DEF WriteDef, SetField, FieldInv, FieldRecord, FieldValueAllowed
  <2>3. CASE WriteValue(r)
    <3>1. r.data.value = None \/ r.data.value \in r.data.options
      BY <2>3 DEF WriteValue, AllSound, Sound, Carries
    <3>. QED
      BY <2>3, <3>1 DEF WriteValue, SetField, FieldInv, FieldRecord, FieldValueAllowed
  <2>4. CASE FieldRefused(r)
    BY <1>1, <2>4 DEF FieldRefused, Drop, detailVars
  <2>. QED
    BY <1>2, <2>1, <2>2, <2>3, <2>4
<1>3. CASE FieldNext
  <2>1. ASSUME NEW u, NEW x, CreateDef(u, x) \/ UpdateDef(u, x) \/ DeleteDef(u) \/ SetValue(u, x)
        PROVE  FieldInv'
    BY <1>1, <2>1 DEF CreateDef, UpdateDef, DeleteDef, SetValue, Ask, detailVars
  <2>. QED
    BY <1>2, <1>3, <2>1 DEF FieldNext
<1>. QED
  BY <1>1, <1>3, Focused DEF detailVars

-----------------------------------------------------------------------------
(* Edits *)

EditInv == DOMAIN attr = DOMAIN wanted /\ "status" \in DOMAIN attr /\ EditsKept

\* Every column is the one asked for; the status too if the status read for
\* its completion is still there.
LEMMA ColumnsKept ==
  ASSUME EditInv, NEW r, WriteColumns(r)
  PROVE  EditInv'
<1>. DEFINE done(s) == [c \in {"status" : x \in r.data.complete} |->
                          StatusOf(TRUE \in r.data.complete, s)]
            w(s) == Merged(r.data.set, done(s))
<1>1. /\ attr' = Merged(w(r.data.read), attr)
      /\ wanted' = Merged(w(wanted.status), wanted)
      /\ raced' = (raced \/ (r.data.complete # {} /\ r.data.read # attr.status))
  BY DEF WriteColumns, Writes
<1>. DEFINE ones == {"status" : x \in r.data.complete}
<1>2. ASSUME NEW s
      PROVE  /\ DOMAIN w(s) = DOMAIN r.data.set \cup ones
             /\ \A c \in DOMAIN r.data.set : w(s)[c] = r.data.set[c]
             /\ \A c \in ones \ DOMAIN r.data.set :
                   w(s)[c] = StatusOf(TRUE \in r.data.complete, s)
  <2>1. DOMAIN done(s) = ones /\ \A c \in ones : done(s)[c] = StatusOf(TRUE \in r.data.complete, s)
    OBVIOUS
  <2>. HIDE DEF done, ones
  <2>. QED
    BY <2>1 DEF w, Merged
<1>3. \A c \in ones : c = "status" /\ r.data.complete # {}
  OBVIOUS
<1>. HIDE DEF w, ones
<1>. DEFINE A == w(r.data.read)
            W == w(wanted.status)
<1>4. /\ DOMAIN A = DOMAIN W
      /\ DOMAIN A = DOMAIN r.data.set \cup ones
      /\ \A c \in DOMAIN r.data.set : A[c] = W[c]
      /\ \A c \in ones \ DOMAIN r.data.set :
            /\ A[c] = StatusOf(TRUE \in r.data.complete, r.data.read)
            /\ W[c] = StatusOf(TRUE \in r.data.complete, wanted.status)
  BY <1>2
<1>5. /\ attr' = Merged(A, attr) /\ wanted' = Merged(W, wanted)
  BY <1>1
<1>. HIDE DEF A, W
<1>6. /\ DOMAIN attr' = DOMAIN A \cup DOMAIN attr
      /\ \A x \in DOMAIN A : attr'[x] = A[x]
      /\ \A x \in DOMAIN attr \ DOMAIN A : attr'[x] = attr[x]
  BY <1>5 DEF Merged
<1>7. /\ DOMAIN wanted' = DOMAIN W \cup DOMAIN wanted
      /\ \A x \in DOMAIN W : wanted'[x] = W[x]
      /\ \A x \in DOMAIN wanted \ DOMAIN W : wanted'[x] = wanted[x]
  BY <1>5 DEF Merged
<1>8. DOMAIN attr' = DOMAIN wanted' /\ "status" \in DOMAIN attr'
  BY <1>4, <1>6, <1>7 DEF EditInv
<1>9. ASSUME NEW c \in DOMAIN attr' PROVE attr'[c] = wanted'[c] \/ (c = "status" /\ raced')
  <2>1. CASE c \in DOMAIN r.data.set
    BY <1>4, <1>6, <1>7, <2>1
  <2>2. CASE c \in ones \ DOMAIN r.data.set
    <3>1. c = "status" /\ r.data.complete # {}
      BY <1>3, <2>2
    <3>2. /\ attr'[c] = StatusOf(TRUE \in r.data.complete, r.data.read)
          /\ wanted'[c] = StatusOf(TRUE \in r.data.complete, wanted.status)
      BY <1>4, <1>6, <1>7, <2>2
    <3>3. attr["status"] = wanted["status"] \/ raced
      BY DEF EditInv, EditsKept
    <3>. QED
      BY <1>1, <3>1, <3>2, <3>3
  <2>3. CASE c \notin DOMAIN A
    <3>1. c \in DOMAIN attr /\ attr'[c] = attr[c] /\ wanted'[c] = wanted[c]
      BY <1>4, <1>6, <1>7, <2>3 DEF EditInv
    <3>. QED
      BY <1>1, <3>1 DEF EditInv, EditsKept
  <2>. QED
    BY <1>4, <2>1, <2>2, <2>3
<1>. QED
  BY <1>8, <1>9 DEF EditInv, EditsKept

LEMMA EditsStep ==
  ASSUME EditInv, [Next]_vars
  PROVE  EditInv'
<1>1. CASE UNCHANGED <<attr, wanted, raced>>
  BY <1>1 DEF EditInv, EditsKept
<1>2. CASE EditsNext
  <2>1. \/ UNCHANGED <<attr, wanted, raced>>
        \/ \E r \in inflight : WriteColumns(r)
    BY <1>2 DEF EditsNext, StarBoard, UnstarBoard, BoardUpdate, ListUpdate, UpdatePriority,
             SetEstimate, UpdateStatus, CardUpdate, AskEdit, WriteStar, editVars
  <2>. QED
    BY <1>1, <2>1, ColumnsKept
<1>. QED
  BY <1>1, <1>2, Focused DEF editVars

-----------------------------------------------------------------------------
(* Checklists *)

ItemRecord(x) == x = [in |-> x.in, done |-> x.done, subcards |-> x.subcards, excused |-> x.excused]

\* What an item that was made a subcard owes to a promotion on its way.
Owes(x) == x.subcards > 0 /\ ~x.done /\ ~x.excused

Ticking(i) == \E r \in inflight : r.op = "promote.tick" /\ r.data.item = i

ItemsInv ==
    /\ checklist = [lists |-> checklist.lists, items |-> checklist.items]
    /\ \A i \in DOMAIN checklist.items : ItemRecord(checklist.items[i])
    /\ \A i \in DOMAIN checklist.items : Owes(checklist.items[i]) => Ticking(i)

ChecklistInv ==
    IF focus = "checklist" THEN ItemsInv
    ELSE \A i \in DOMAIN checklist.items : checklist.items[i].subcards = 0

\* A step that takes no promotion off its way, and makes no item owe anything.
LEMMA ItemsStay ==
  ASSUME ItemsInv,
         \A r \in inflight \ inflight' : r.op # "promote.tick",
         checklist' = [lists |-> checklist'.lists, items |-> checklist'.items],
         \A i \in DOMAIN checklist'.items :
            \/ i \in DOMAIN checklist.items /\ checklist'.items[i] = checklist.items[i]
            \/ ItemRecord(checklist'.items[i]) /\ ~Owes(checklist'.items[i])
  PROVE  ItemsInv'
<1>1. \A i : Ticking(i) => Ticking(i)'
  BY DEF Ticking
<1>2. \A i \in DOMAIN checklist'.items :
         ItemRecord(checklist'.items[i]) /\ (Owes(checklist'.items[i]) => Ticking(i)')
  BY <1>1 DEF ItemsInv
<1>. QED
  BY <1>2 DEF ItemsInv, ItemRecord, Owes

\* A request that ends and changes one item.
LEMMA ItemChanges ==
  ASSUME ItemsInv, NEW k \in DOMAIN checklist.items, NEW x,
         checklist' = [checklist EXCEPT !.items[k] = x]
  PROVE  /\ checklist' = [lists |-> checklist'.lists, items |-> checklist'.items]
         /\ DOMAIN checklist'.items = DOMAIN checklist.items
         /\ checklist'.items[k] = x
         /\ \A i \in DOMAIN checklist.items \ {k} : checklist'.items[i] = checklist.items[i]
<1>. DEFINE its == [checklist.items EXCEPT ![k] = x]
<1>1. checklist' = [checklist EXCEPT !.items = its]
  OBVIOUS
<1>2. checklist = [lists |-> checklist.lists, items |-> checklist.items]
  BY DEF ItemsInv
<1>. HIDE DEF its
<1>3. checklist' = [lists |-> checklist.lists, items |-> its]
  BY <1>1, <1>2
<1>4. checklist'.items = its /\ checklist'.lists = checklist.lists
  BY <1>3
<1>5. /\ DOMAIN its = DOMAIN checklist.items /\ its[k] = x
      /\ \A i \in DOMAIN checklist.items \ {k} : its[i] = checklist.items[i]
  BY DEF its
<1>. QED
  BY <1>3, <1>4, <1>5

LEMMA ItemSet ==
  ASSUME NEW x, ItemRecord(x), NEW t
  PROVE  /\ ItemRecord([x EXCEPT !.done = t]) /\ [x EXCEPT !.done = t].done = t
         /\ ItemRecord([x EXCEPT !.excused = t]) /\ [x EXCEPT !.excused = t].excused = t
BY DEF ItemRecord

LEMMA ListsChange ==
  ASSUME ItemsInv, NEW r \in inflight, InsertChecklist(r) \/ EraseChecklist(r)
  PROVE  ItemsInv'
<1>0. checklist = [lists |-> checklist.lists, items |-> checklist.items]
  BY DEF ItemsInv
<1>1. CASE InsertChecklist(r)
  <2>1. /\ checklist' = [checklist EXCEPT !.lists = @ \cup {First(Checklists \ checklist.lists)}]
        /\ inflight' = inflight \ {r} /\ r.op = "checklist.create"
    BY <1>1 DEF InsertChecklist, SetChecklist, Finish
  <2>2. /\ checklist' = [lists |-> checklist'.lists, items |-> checklist'.items]
        /\ checklist'.items = checklist.items
    BY <1>0, <2>1
  <2>. QED
    BY <2>1, <2>2, ItemsStay
<1>2. CASE EraseChecklist(r)
  <2>. DEFINE its == [i \in {j \in DOMAIN checklist.items :
                               checklist.items[j].in # r.data.list} |-> checklist.items[i]]
  <2>1. /\ checklist' = [lists |-> checklist.lists \ {r.data.list}, items |-> its]
        /\ inflight' = inflight \ {r} /\ r.op = "checklist.delete"
    BY <1>2 DEF EraseChecklist, SetChecklist, Finish
  <2>2. \A i \in DOMAIN its : i \in DOMAIN checklist.items /\ its[i] = checklist.items[i]
    OBVIOUS
  <2>. HIDE DEF its
  <2>3. /\ checklist' = [lists |-> checklist'.lists, items |-> checklist'.items]
        /\ checklist'.items = its
    BY <2>1
  <2>. QED
    BY <2>1, <2>2, <2>3, ItemsStay
<1>. QED
  BY <1>1, <1>2

LEMMA ItemComes ==
  ASSUME ItemsInv, NEW r \in inflight, InsertItem(r) \/ EraseItem(r)
  PROVE  ItemsInv'
<1>0. checklist = [lists |-> checklist.lists, items |-> checklist.items]
  BY DEF ItemsInv
<1>1. CASE InsertItem(r)
  <2>. DEFINE new == First(Items \ DOMAIN checklist.items)
              x == [in |-> r.data.list, done |-> FALSE, subcards |-> 0, excused |-> FALSE]
              its == [i \in DOMAIN checklist.items \cup {new} |->
                        IF i \in DOMAIN checklist.items THEN checklist.items[i] ELSE x]
  <2>1. /\ checklist' = [checklist EXCEPT !.items = its]
        /\ inflight' = inflight \ {r} /\ r.op = "item.add"
    BY <1>1 DEF InsertItem, SetChecklist, Finish
  <2>2. ItemRecord(x) /\ ~Owes(x)
    BY DEF ItemRecord, Owes
  <2>. HIDE DEF x
  <2>3. \A i \in DOMAIN its : \/ i \in DOMAIN checklist.items /\ its[i] = checklist.items[i]
                              \/ ItemRecord(its[i]) /\ ~Owes(its[i])
    BY <2>2
  <2>. HIDE DEF its
  <2>4. /\ checklist' = [lists |-> checklist'.lists, items |-> checklist'.items]
        /\ checklist'.items = its
    BY <1>0, <2>1
  <2>. QED
    BY <2>1, <2>3, <2>4, ItemsStay
<1>2. CASE EraseItem(r)
  <2>. DEFINE its == [i \in DOMAIN checklist.items \ {r.data.item} |-> checklist.items[i]]
  <2>1. /\ checklist' = [checklist EXCEPT !.items = its]
        /\ inflight' = inflight \ {r} /\ r.op = "item.remove"
    BY <1>2 DEF EraseItem, SetChecklist, Finish
  <2>2. \A i \in DOMAIN its : i \in DOMAIN checklist.items /\ its[i] = checklist.items[i]
    OBVIOUS
  <2>. HIDE DEF its
  <2>3. /\ checklist' = [lists |-> checklist'.lists, items |-> checklist'.items]
        /\ checklist'.items = its
    BY <1>0, <2>1
  <2>. QED
    BY <2>1, <2>2, <2>3, ItemsStay
<1>. QED
  BY <1>1, <1>2

LEMMA ItemWritten ==
  ASSUME ItemsInv, NEW r \in inflight, WriteItem(r)
  PROVE  ItemsInv'
<1>. DEFINE k == r.data.item
            old == checklist.items[k]
            x == [old EXCEPT !.done = r.data.done, !.excused = @ \/ ~r.data.done]
<1>1. /\ k \in DOMAIN checklist.items /\ r.op = "item.update" /\ inflight' = inflight \ {r}
      /\ checklist' = [checklist EXCEPT !.items[k].done = r.data.done,
                                        !.items[k].excused = @ \/ ~r.data.done]
  BY DEF WriteItem, Gone, SetChecklist, Finish
<1>2. checklist = [lists |-> checklist.lists, items |-> checklist.items] /\ ItemRecord(old)
  BY <1>1 DEF ItemsInv
<1>3. checklist' = [checklist EXCEPT !.items[k] = x]
  BY <1>1, <1>2 DEF ItemRecord
<1>. DEFINE e == old.excused \/ ~r.data.done
<1>7. x = [old EXCEPT !.done = r.data.done, !.excused = e]
  BY <1>2 DEF ItemRecord
<1>9. k \in DOMAIN checklist.items
  BY <1>1
<1>. HIDE DEF e, x, k, old
<1>8. x = [in |-> old.in, done |-> r.data.done, subcards |-> old.subcards, excused |-> e]
  BY <1>2, <1>7 DEF ItemRecord
<1>4. ItemRecord(x) /\ x.done = r.data.done /\ x.excused = e
  BY <1>8 DEF ItemRecord
<1>5. /\ checklist' = [lists |-> checklist'.lists, items |-> checklist'.items]
      /\ DOMAIN checklist'.items = DOMAIN checklist.items
      /\ checklist'.items[k] = x
      /\ \A i \in DOMAIN checklist.items \ {k} : checklist'.items[i] = checklist.items[i]
  BY <1>3, <1>9, ItemChanges
<1>6. ~Owes(x)
  BY <1>4, Zenon DEF Owes, e
<1>. QED
  BY <1>1, <1>4, <1>5, <1>6, ItemsStay

\* A subcard is made: its item owes a tick, which the request goes on to make.
LEMMA ItemPromoted ==
  ASSUME ItemsInv, NEW r \in inflight, Sound(r), PromoteCreate(r)
  PROVE  ItemsInv'
<1>. DEFINE k == r.data.item
            old == checklist.items[k]
            x == [old EXCEPT !.subcards = @ + 1]
<1>1. r.op = "promote.create" /\ Continue(r, "promote.tick")
  BY DEF PromoteCreate
<1>2. PICK q : inflight' = (inflight \ {r}) \cup {q} /\ q.op = "promote.tick" /\ q.data = r.data
  BY <1>1, Continued
<1>3. Ticking(k)' /\ \A i : Ticking(i) => Ticking(i)'
  BY <1>1, <1>2 DEF Ticking
<1>4. CASE k \in DOMAIN checklist.items
  <2>1. checklist' = [checklist EXCEPT !.items[k].subcards = @ + 1]
    BY <1>4 DEF PromoteCreate
  <2>2. checklist = [lists |-> checklist.lists, items |-> checklist.items] /\ ItemRecord(old)
    BY <1>4 DEF ItemsInv
  <2>3. checklist' = [checklist EXCEPT !.items[k] = x]
    BY <2>1, <2>2 DEF ItemRecord
  <2>4. ItemRecord(x)
    BY <2>2 DEF ItemRecord
  <2>. HIDE DEF x
  <2>5. /\ checklist' = [lists |-> checklist'.lists, items |-> checklist'.items]
        /\ DOMAIN checklist'.items = DOMAIN checklist.items
        /\ checklist'.items[k] = x
        /\ \A i \in DOMAIN checklist.items \ {k} : checklist'.items[i] = checklist.items[i]
    BY <1>4, <2>3, ItemChanges
  <2>6. \A i \in DOMAIN checklist'.items :
           ItemRecord(checklist'.items[i]) /\ (Owes(checklist'.items[i]) => Ticking(i)')
    BY <1>3, <2>4, <2>5 DEF ItemsInv
  <2>. QED
    BY <2>5, <2>6 DEF ItemsInv, ItemRecord, Owes
<1>5. CASE k \notin DOMAIN checklist.items
  BY <1>1, <1>2, <1>3, <1>5, ItemsStay DEF PromoteCreate, ItemsInv
<1>. QED
  BY <1>4, <1>5

\* The promotion ends: its item is ticked, or the user was told.
LEMMA ItemTicked ==
  ASSUME ItemsInv, NEW r \in inflight, PromoteTick(r)
  PROVE  ItemsInv'
<1>. DEFINE k == r.data.item
            old == checklist.items[k]
<1>1. r.op = "promote.tick" /\ inflight' = inflight \ {r}
  BY DEF PromoteTick, SetChecklist, Drop, Finish
<1>2. \A i : i # k /\ Ticking(i) => Ticking(i)'
  BY <1>1 DEF Ticking
<1>3. CASE k \notin DOMAIN checklist.items
  <2>1. UNCHANGED checklist
    BY <1>3 DEF PromoteTick, Drop, detailVars
  <2>. QED
    BY <1>2, <1>3, <2>1 DEF ItemsInv, Owes
<1>4. CASE k \in DOMAIN checklist.items
  <2>1. checklist = [lists |-> checklist.lists, items |-> checklist.items] /\ ItemRecord(old)
    BY <1>4 DEF ItemsInv
  <2>2. \/ checklist' = [checklist EXCEPT !.items[k].done = TRUE]
        \/ checklist' = [checklist EXCEPT !.items[k].excused = TRUE]
    BY <1>4 DEF PromoteTick, SetChecklist
  <2>3. PICK x : ItemRecord(x) /\ ~Owes(x) /\ checklist' = [checklist EXCEPT !.items[k] = x]
    <3>1. CASE checklist' = [checklist EXCEPT !.items[k].done = TRUE]
      <4>. DEFINE x == [old EXCEPT !.done = TRUE]
      <4>1. checklist' = [checklist EXCEPT !.items[k] = x]
        BY <2>1, <3>1 DEF ItemRecord
      <4>2. ItemRecord(x) /\ x.done = TRUE
        BY <2>1, ItemSet, Zenon
      <4>3. ~Owes(x)
        BY <4>2, Zenon DEF Owes
      <4>. QED
        BY <4>1, <4>2, <4>3
    <3>2. CASE checklist' = [checklist EXCEPT !.items[k].excused = TRUE]
      <4>. DEFINE x == [old EXCEPT !.excused = TRUE]
      <4>1. checklist' = [checklist EXCEPT !.items[k] = x]
        BY <2>1, <3>2 DEF ItemRecord
      <4>2. ItemRecord(x) /\ x.excused = TRUE
        BY <2>1, ItemSet, Zenon
      <4>3. ~Owes(x)
        BY <4>2, Zenon DEF Owes
      <4>. QED
        BY <4>1, <4>2, <4>3
    <3>. QED
      BY <2>2, <3>1, <3>2
  <2>4. /\ checklist' = [lists |-> checklist'.lists, items |-> checklist'.items]
        /\ DOMAIN checklist'.items = DOMAIN checklist.items
        /\ checklist'.items[k] = x
        /\ \A i \in DOMAIN checklist.items \ {k} : checklist'.items[i] = checklist.items[i]
    BY <1>4, <2>3, ItemChanges
  <2>5. \A i \in DOMAIN checklist'.items :
           ItemRecord(checklist'.items[i]) /\ (Owes(checklist'.items[i]) => Ticking(i)')
    BY <1>2, <2>3, <2>4 DEF ItemsInv
  <2>. QED
    BY <2>4, <2>5 DEF ItemsInv, ItemRecord, Owes
<1>. QED
  BY <1>3, <1>4

LEMMA ChecklistStep ==
  ASSUME ChecklistInv, AllSound, [Next]_vars
  PROVE  ChecklistInv'
<1>1. CASE focus # "checklist"
  BY <1>1, Focused DEF ChecklistInv
<1>2. CASE focus = "checklist"
  <2>. SUFFICES ItemsInv'
    BY <1>2, Focused DEF ChecklistInv
  <2>1. ItemsInv
    BY <1>2 DEF ChecklistInv
  <2>2. ASSUME UNCHANGED checklist, \A r \in inflight \ inflight' : r.op # "promote.tick"
        PROVE  ItemsInv'
    BY <2>1, <2>2, ItemsStay DEF ItemsInv
  <2>3. CASE UNCHANGED <<inflight, detailVars>>
    BY <2>2, <2>3 DEF detailVars
  <2>4. CASE Closing /\ UNCHANGED detailVars
    BY <2>2, <2>4, Closes DEF detailVars, StateOps
  <2>5. ASSUME NEW u, NEW op, NEW what, Ask(u, op, what) PROVE ItemsInv'
    BY <2>2, <2>5 DEF Ask, Admit, detailVars
  <2>6. ASSUME NEW u, NEW i, NEW k, NEW done,
               \/ CreateChecklist(u) \/ RenameChecklist(u, k) \/ DeleteChecklist(u, k) \/ AddItem(u, k)
               \/ RemoveItem(u, i) \/ PromoteItem(u, i) \/ UpdateItem(u, i, done)
        PROVE  ItemsInv'
    BY <2>5, <2>6 DEF CreateChecklist, RenameChecklist, DeleteChecklist, AddItem, RemoveItem,
                      PromoteItem, UpdateItem, AskItem
  <2>7. ASSUME NEW r \in inflight, WriteTitle(r) \/ (Gone(r) /\ Drop(r)) PROVE ItemsInv'
    BY <2>2, <2>7 DEF WriteTitle, Gone, Drop, Finish, detailVars
  <2>8. ASSUME NEW r \in inflight, PromoteCheck(r) PROVE ItemsInv'
    BY <2>2, <2>8 DEF PromoteCheck, Continue, Finish, detailVars
  <2>9. ASSUME NEW r \in inflight,
               \/ InsertChecklist(r) \/ EraseChecklist(r)
               \/ InsertItem(r) \/ WriteItem(r) \/ EraseItem(r)
               \/ PromoteCreate(r) \/ PromoteTick(r)
        PROVE  ItemsInv'
    BY <2>1, <2>9, ListsChange, ItemComes, ItemWritten, ItemPromoted, ItemTicked DEF AllSound
  <2>10. CASE ChecklistNext
    BY <2>6, <2>7, <2>8, <2>9, <2>10 DEF ChecklistNext
  <2>. QED
    BY <1>2, <2>3, <2>4, <2>10, Focused
<1>. QED
  BY <1>1, <1>2

-----------------------------------------------------------------------------
(* Comments *)

CommentRow == [author : DOMAIN RoleOf, parent : Nat, deleted : BOOLEAN]

\* One level of replies.
TopLevel(p) == p = 0 \/ (p \in DOMAIN comment /\ comment[p].parent = 0)

RepliesInv ==
    /\ comment \in Seq(CommentRow)
    /\ \A k \in DOMAIN comment : TopLevel(comment[k].parent)
    /\ \A r \in inflight : r.op = "comment.create" => r.data.parent \in Nat /\ TopLevel(r.data.parent)

CommentsInv == IF focus = "comments" THEN RepliesInv ELSE comment = <<>>

\* Comments keep their parents, and no request replies to a reply.
LEMMA RepliesStay ==
  ASSUME RepliesInv, comment' \in Seq(CommentRow), DOMAIN comment \subseteq DOMAIN comment',
         \A k \in DOMAIN comment : comment'[k].parent = comment[k].parent,
         \A k \in DOMAIN comment' \ DOMAIN comment : TopLevel(comment'[k].parent),
         \A r \in inflight' \ inflight :
            r.op = "comment.create" => r.data.parent \in Nat /\ TopLevel(r.data.parent)
  PROVE  RepliesInv'
<1>1. \A p : TopLevel(p) => TopLevel(p)'
  BY DEF TopLevel
<1>2. (\A r \in inflight : r.op = "comment.create" => r.data.parent \in Nat /\ TopLevel(r.data.parent))'
  BY <1>1 DEF RepliesInv
<1>3. (\A k \in DOMAIN comment : TopLevel(comment[k].parent))'
  BY <1>1 DEF RepliesInv
<1>. QED
  BY <1>2, <1>3 DEF RepliesInv

LEMMA ReplyInserted ==
  ASSUME RepliesInv, NEW r \in inflight, Sound(r), InsertComment(r)
  PROVE  RepliesInv'
<1>. DEFINE x == [author |-> r.user, parent |-> r.data.parent, deleted |-> FALSE]
<1>1. /\ comment' = Append(comment, x) /\ inflight' = inflight \ {r}
      /\ r.data.parent \in Nat /\ TopLevel(r.data.parent)
  BY DEF InsertComment, SetComment, Finish, RepliesInv
<1>2. x \in CommentRow /\ x.parent = r.data.parent
  BY <1>1 DEF CommentRow, Sound, Permitted
<1>. HIDE DEF x
<1>3. /\ comment' \in Seq(CommentRow) /\ Len(comment') = Len(comment) + 1
      /\ \A k \in 1 .. Len(comment) : comment'[k] = comment[k]
      /\ comment'[Len(comment) + 1] = x
  BY <1>1, <1>2, AppendProperties DEF RepliesInv
<1>4. /\ DOMAIN comment = 1 .. Len(comment) /\ DOMAIN comment' = 1 .. (Len(comment) + 1)
      /\ Len(comment) \in Nat
  BY <1>3, LenProperties DEF RepliesInv
<1>5. \A k \in DOMAIN comment' \ DOMAIN comment : k = Len(comment) + 1
  BY <1>4
<1>6. DOMAIN comment \subseteq DOMAIN comment'
  BY <1>4
<1>. QED
  BY <1>1, <1>2, <1>3, <1>4, <1>5, <1>6, RepliesStay

LEMMA ReplyDeleted ==
  ASSUME RepliesInv, NEW r \in inflight, SoftDelete(r)
  PROVE  RepliesInv'
<1>. DEFINE k == r.data.comment
            x == [comment[k] EXCEPT !.deleted = TRUE]
<1>1. comment' = [comment EXCEPT ![k].deleted = TRUE] /\ inflight' = inflight \ {r}
  BY DEF SoftDelete, SetComment, Finish
<1>2. CASE k \in DOMAIN comment
  <2>0. comment[k] \in CommentRow
    BY <1>2, ElementOfSeq, LenProperties DEF RepliesInv
  <2>1. x \in CommentRow /\ x.parent = comment[k].parent
    BY <2>0 DEF CommentRow
  <2>2. comment' = [comment EXCEPT ![k] = x]
    BY <1>1
  <2>. HIDE DEF x
  <2>3. /\ comment' \in Seq(CommentRow) /\ DOMAIN comment' = DOMAIN comment
        /\ \A j \in DOMAIN comment : comment'[j].parent = comment[j].parent
    <3>1. Len(comment) \in Nat /\ DOMAIN comment = 1 .. Len(comment)
          /\ comment \in [1 .. Len(comment) -> CommentRow]
      BY LenProperties DEF RepliesInv
    <3>2. comment' \in [1 .. Len(comment) -> CommentRow]
      BY <2>1, <2>2, <3>1
    <3>3. comment' \in Seq(CommentRow)
      BY <3>1, <3>2, SeqDef
    <3>. QED
      BY <2>1, <2>2, <3>3
  <2>. QED
    BY <1>1, <2>3, RepliesStay
<1>3. CASE k \notin DOMAIN comment
  <2>1. Len(comment) \in Nat /\ comment \in [1 .. Len(comment) -> CommentRow]
    BY LenProperties DEF RepliesInv
  <2>2. comment' = comment
    BY <1>1, <1>3, <2>1
  <2>. QED
    BY <1>1, <2>2, RepliesStay DEF RepliesInv
<1>. QED
  BY <1>2, <1>3

LEMMA ReplyAsked ==
  ASSUME RepliesInv, NEW u, NEW k,
         \/ k \in 0 .. Len(comment) /\ CreateComment(u, k)
         \/ UpdateComment(u, k) \/ DeleteComment(u, k)
  PROVE  RepliesInv'
<1>1. ASSUME NEW op, NEW what, Ask(u, op, what),
             op = "comment.create" => /\ "parent" \in DOMAIN what
                                      /\ what.parent \in Nat /\ TopLevel(what.parent)
      PROVE  RepliesInv'
  <2>. DEFINE m == Merged(what, [id |-> Card, open |-> BoardOpen])
  <2>1. Admit(u, op, m) /\ UNCHANGED comment
    BY <1>1 DEF Ask, detailVars
  <2>2. \A x \in DOMAIN what : m[x] = what[x]
    BY DEF Merged
  <2>. HIDE DEF m
  <2>3. PICK q : inflight' = inflight \cup {q} /\ q.op = op /\ q.data = m
    BY <2>1, Asked
  <2>4. q.op = "comment.create" => q.data.parent \in Nat /\ TopLevel(q.data.parent)
    BY <1>1, <2>2, <2>3
  <2>. QED
    BY <2>1, <2>3, <2>4, RepliesStay DEF RepliesInv
<1>2. CASE k \in 0 .. Len(comment) /\ CreateComment(u, k)
  <2>1. Ask(u, "comment.create", [parent |-> k]) /\ TopLevel(k)
    BY <1>2 DEF CreateComment, MayReply, LiveComment, TopLevel
  <2>2. k \in Nat
    BY <1>2, LenProperties DEF RepliesInv
  <2>. QED
    BY <1>1, <2>1, <2>2
<1>3. CASE UpdateComment(u, k) \/ DeleteComment(u, k)
  <2>1. \E op \in {"comment.update", "comment.delete"} : Ask(u, op, [comment |-> k])
    BY <1>3 DEF UpdateComment, DeleteComment
  <2>. QED
    BY <1>1, <2>1
<1>. QED
  BY <1>2, <1>3

LEMMA CommentStep ==
  ASSUME CommentsInv, AllSound, [Next]_vars
  PROVE  CommentsInv'
<1>1. CASE focus # "comments"
  BY <1>1, Focused DEF CommentsInv
<1>2. CASE focus = "comments"
  <2>. SUFFICES RepliesInv'
    BY <1>2, Focused DEF CommentsInv
  <2>1. RepliesInv
    BY <1>2 DEF CommentsInv
  <2>2. ASSUME UNCHANGED comment, \A r \in inflight' \ inflight : r.op # "comment.create"
        PROVE  RepliesInv'
    BY <2>1, <2>2, RepliesStay DEF RepliesInv
  <2>3. CASE UNCHANGED <<inflight, detailVars>>
    BY <2>2, <2>3 DEF detailVars
  <2>4. CASE Closing /\ UNCHANGED detailVars
    BY <2>2, <2>4, Closes DEF detailVars, StateOps
  <2>5. ASSUME NEW r \in inflight, InsertComment(r) \/ WriteContent(r) \/ SoftDelete(r)
        PROVE  RepliesInv'
    <3>1. CASE WriteContent(r)
      BY <2>2, <3>1 DEF WriteContent, SetComment, Finish
    <3>. QED
      BY <2>1, <2>5, <3>1, ReplyInserted, ReplyDeleted DEF AllSound
  <2>6. CASE CommentNext
    BY <2>1, <2>5, <2>6, ReplyAsked DEF CommentNext
  <2>. QED
    BY <1>2, <2>3, <2>4, <2>6, Focused
<1>. QED
  BY <1>1, <1>2

\* A reply that is on the page and not shown: its parent is top-level, so it
\* is deleted or off the page.
LEMMA RepliesReach ==
  ASSUME CommentsInv
  PROVE  CommentsReach
<1>1. CASE comment = <<>>
  BY <1>1 DEF CommentsReach, CommentPage
<1>2. CASE RepliesInv
  <2>. SUFFICES ASSUME NEW k \in CommentPage \ CommentsShown
       PROVE  LET p == comment[k].parent IN
              \/ comment[p].deleted
              \/ Cardinality({j \in DOMAIN comment : LiveComment(j) /\ j > p}) >= PageSize
    BY DEF CommentsReach
  <2>. DEFINE p == comment[k].parent
              Later == {j \in DOMAIN comment : LiveComment(j) /\ j > p}
  <2>1. k \in DOMAIN comment /\ p # 0 /\ TopLevel(p)
    BY <1>2 DEF CommentPage, CommentsShown, RepliesInv
  <2>2. p \in DOMAIN comment /\ comment[p].parent = 0 /\ p \notin CommentPage
    BY <2>1 DEF TopLevel, CommentsShown
  <2>3. Cardinality(Later) \in Nat
    <3>0. DOMAIN comment = 1 .. Len(comment) /\ Len(comment) \in Int /\ 1 \in Int
      BY <1>2, LenProperties DEF RepliesInv
    <3>1. IsFiniteSet(DOMAIN comment)
      BY <3>0, FS_Interval
    <3>2. IsFiniteSet(Later)
      BY <3>1, FS_Subset
    <3>. QED
      BY <3>2, FS_CardinalityType
  <2>4. ~LiveComment(p) \/ ~(Cardinality(Later) < PageSize)
    BY <2>2 DEF CommentPage
  <2>. HIDE DEF Later
  <2>5. comment[p].deleted \/ Cardinality(Later) >= PageSize
    BY <2>2, <2>3, <2>4, PageSizeIsPositive DEF LiveComment
  <2>. QED
    BY <2>5 DEF Later
<1>. QED
  BY <1>1, <1>2 DEF CommentsInv

-----------------------------------------------------------------------------

\* The invariant of everything that users put on a card or a board.
KeptInv == BoardInv /\ TimeInv /\ ChecklistInv /\ CommentsInv /\ FieldInv /\ EditInv

\* Nothing that users put on a card or a board is lost to a concurrent request
\* or a failed second write, and the total of the logged time that is stored
\* is announced, first or last: CardTimeService, ChecklistService, CommentService,
\* CardFieldService and the in-place edits, whatever overlaps.
THEOREM BoardContentsKept == Spec => []ContentsKept
<1>1. Init => KeptInv
  <2>. SUFFICES ASSUME Init PROVE KeptInv
    OBVIOUS
  <2>1. BoardInv /\ inflight = {}
    BY BoardStarts DEF Init, ContentsInit
  <2>2. /\ time = [entered |-> 0, logged |-> 0, announced |-> {0}, missed |-> FALSE]
        /\ checklist = [lists |-> {First(Checklists)},
                        items |-> [i \in {First(Items)} |->
                                     [in |-> First(Checklists), done |-> FALSE,
                                      subcards |-> 0, excused |-> FALSE]]]
        /\ comment = <<>>
        /\ field = [exists |-> TRUE, options |-> {First(Options)}, value |-> First(Options),
                    stale |-> FALSE]
    BY DEF Init, ContentsInit, DetailsInit
  <2>3. TimeInv
    BY <2>2 DEF TimeInv, TimeRecord, LoggedMatches
  <2>4. ChecklistInv
    <3>1. /\ checklist = [lists |-> checklist.lists, items |-> checklist.items]
          /\ \A i \in DOMAIN checklist.items :
                checklist.items[i] = [in |-> First(Checklists), done |-> FALSE,
                                      subcards |-> 0, excused |-> FALSE]
      BY <2>2
    <3>2. \A i \in DOMAIN checklist.items :
             ItemRecord(checklist.items[i]) /\ checklist.items[i].subcards = 0
      BY <3>1 DEF ItemRecord
    <3>. QED
      BY <3>1, <3>2 DEF ChecklistInv, ItemsInv, Owes
  <2>5. CommentsInv
    BY <2>1, <2>2 DEF CommentsInv, RepliesInv
  <2>6. FieldInv
    BY <2>2 DEF FieldInv, FieldRecord, FieldValueAllowed
  <2>7. EditInv
    BY DEF Init, ContentsInit, EditsInit, EditInv, EditsKept
  <2>. QED
    BY <2>1, <2>3, <2>4, <2>5, <2>6, <2>7 DEF KeptInv
<1>2. KeptInv /\ [Next]_vars => KeptInv'
  BY BoardStep, TimeStep, ChecklistStep, CommentStep, FieldStep, EditsStep DEF KeptInv, BoardInv
<1>3. KeptInv => ContentsKept
  <2>. SUFFICES ASSUME KeptInv PROVE ContentsKept
    OBVIOUS
  <2>1. LoggedMatches
    BY DEF KeptInv, TimeInv, LoggedMatches
  <2>2. PromotedIsDone
    <3>1. ASSUME NEW i \in DOMAIN checklist.items, checklist.items[i].subcards > 0,
                 ~checklist.items[i].done, ~checklist.items[i].excused
          PROVE  Ticking(i)
      BY <3>1 DEF KeptInv, ChecklistInv, ItemsInv, Owes
    <3>. QED
      BY <3>1 DEF PromotedIsDone, Ticking, Requested
  <2>3. CommentsReach
    BY RepliesReach DEF KeptInv
  <2>. QED
    BY <2>1, <2>2, <2>3 DEF ContentsKept, KeptInv, FieldInv, EditInv
<1>. QED
  BY <1>1, <1>2, <1>3, PTL DEF Spec

-----------------------------------------------------------------------------
(* The screens: a client shows what the server has stored, or is about to. *)

\* Every element a bag holds is there a number of times.
Counted(B) == \A e \in BagToSet(B) : B[e] \in Nat \ {0}

\* A bag with more elements, or without some.
LEMMA BagParts ==
  ASSUME NEW B, NEW S
  PROVE  /\ BagToSet(B (+) SetToBag(S)) = BagToSet(B) \cup S
         /\ BagToSet(B (-) SetToBag(S)) \subseteq BagToSet(B)
         /\ Counted(B) => /\ Counted(B (+) SetToBag(S)) /\ Counted(B (-) SetToBag(S))
                          /\ BagToSet(B) \ S \subseteq BagToSet(B (-) SetToBag(S))
<1>1. /\ BagToSet(B (+) SetToBag(S)) = BagToSet(B) \cup S
      /\ BagToSet(B (-) SetToBag(S)) \subseteq BagToSet(B)
  BY DEF BagToSet, SetToBag, (+), (-)
<1>2. ASSUME Counted(B) PROVE Counted(B (+) SetToBag(S))
  BY <1>2 DEF BagToSet, SetToBag, (+), Counted
<1>3. ASSUME Counted(B) PROVE Counted(B (-) SetToBag(S))
  BY <1>3 DEF BagToSet, SetToBag, (-), Counted
<1>4. ASSUME Counted(B) PROVE BagToSet(B) \ S \subseteq BagToSet(B (-) SetToBag(S))
  BY <1>4 DEF BagToSet, SetToBag, (-), Counted
<1>. QED
  BY <1>1, <1>2, <1>3, <1>4

-----------------------------------------------------------------------------
(* The board page: no change is overlooked. *)

\* Changes, broadcasts and loads by number.
PageRequest(r) ==
    /\ ~r.answered => r = [change |-> r.change, parts |-> r.parts, answered |-> r.answered,
                           silent |-> r.silent, notes |-> r.notes]
    /\ r.change \in 1..db /\ r.silent \in BOOLEAN /\ r.answered \in BOOLEAN
    /\ \A n \in r.notes : n.change = r.change
    /\ \A parts \in r.parts : parts \subseteq Parts
    /\ r.silent \/ r.notes # {}

PageLoad(l) ==
    /\ l = [part |-> l.part, read |-> l.read]
    /\ l.part \in Parts /\ l.read \in {NotRead} \cup 0..db

PageTyped ==
    /\ db \in Nat /\ mode \in {"board", "table"} /\ banner \in BOOLEAN
    /\ shown \in [Parts -> 0..db] /\ excused \in [Parts -> BOOLEAN]
    /\ last.change \in 0..db
    /\ \A n \in sock : n.change \in 1..db
    /\ \A r \in requests : PageRequest(r)
    /\ Counted(loads) /\ \A l \in BagToSet(loads) : PageLoad(l)

\* The part shows the change, or a load that is on its way will bring it.
Fetched(p, k) ==
    \/ k <= shown[p]
    \/ \E l \in BagToSet(loads) : l.part = p /\ (l.read = NotRead \/ k <= l.read)

\* The change is still to be announced, or to be loaded by its own handler.
Awaited(k) ==
    \/ \E n \in sock : n.change = k
    \/ \E r \in requests : r.change = k /\ (r.silent \/ ~r.answered)

\* Every change is on its way to the part; what a stamp makes the page
\* ignore has been fetched.
UpToDate(p) ==
    /\ \A k \in 1..db : Fetched(p, k) \/ Awaited(k)
    /\ \A k \in 1..last.change : Fetched(p, k)

BoardUpToDate == excused["board"] \/ UpToDate("board")
ViewUpToDate  == mode = "table" => excused["view"] \/ banner \/ UpToDate("view")

PageInv == PageTyped /\ BoardUpToDate /\ ViewUpToDate


\* The events for which the page gets a broadcast.
Heard(e) == \E y \in Relay : y[1] = e /\ y[2] \in EntityEvents

LEMMA HeardEvents ==
  /\ Heard("board.updated") /\ Heard("board.archived") /\ Heard("board.unarchived")
  /\ Heard("board.deleted")
  /\ Heard("list.created") /\ Heard("list.updated") /\ Heard("list.moved")
  /\ Heard("list.archived") /\ Heard("list.unarchived") /\ Heard("list.deleted")
  /\ Heard("card.created") /\ Heard("card.updated") /\ Heard("card.moved")
  /\ Heard("card.archived") /\ Heard("card.unarchived") /\ Heard("card.deleted")
  /\ Heard("card.priority_changed") /\ Heard("card.status_changed")
  /\ Heard("card.subcard_created") /\ Heard("card.time_logged")
  /\ Heard("card.assignee_added") /\ Heard("card.assignee_removed")
  /\ Heard("checklist.created") /\ Heard("checklist.updated") /\ Heard("checklist.deleted")
  /\ Heard("comment.created") /\ Heard("comment.updated") /\ Heard("comment.deleted")
<1>1. \A e, b : <<e, b>> \in Relay /\ b \in EntityEvents => Heard(e)
  BY Zenon DEF Heard
<1>2. \A e, b : /\ <<e, b>> \in BoardRelay \cup ListRelay \cup CardRelay \cup CommentRelay
                                  \cup AssigneeRelay \cup ChecklistRelay \cup StageRelay
                /\ b \in EntityEvents
                => Heard(e)
  BY <1>1 DEF Relay
<1>3. /\ Heard("board.updated") /\ Heard("board.archived") /\ Heard("board.unarchived")
      /\ Heard("board.deleted")
  BY <1>2 DEF BoardRelay, EntityEvents
<1>4. /\ Heard("list.created") /\ Heard("list.updated") /\ Heard("list.moved")
      /\ Heard("list.archived") /\ Heard("list.unarchived") /\ Heard("list.deleted")
  BY <1>2 DEF ListRelay, EntityEvents
<1>5. /\ Heard("card.created") /\ Heard("card.updated") /\ Heard("card.moved")
      /\ Heard("card.archived") /\ Heard("card.unarchived") /\ Heard("card.deleted")
  BY <1>2 DEF CardRelay, EntityEvents
<1>6. /\ Heard("card.priority_changed") /\ Heard("card.status_changed")
      /\ Heard("card.subcard_created") /\ Heard("card.time_logged")
  BY <1>2 DEF StageRelay, EntityEvents
<1>7. Heard("card.assignee_added") /\ Heard("card.assignee_removed")
  BY <1>2 DEF AssigneeRelay, EntityEvents
<1>8. Heard("checklist.created") /\ Heard("checklist.updated") /\ Heard("checklist.deleted")
  BY <1>2 DEF ChecklistRelay, EntityEvents
<1>9. Heard("comment.created") /\ Heard("comment.updated") /\ Heard("comment.deleted")
  BY <1>2 DEF CommentRelay, EntityEvents
<1>. QED
  BY <1>3, <1>4, <1>5, <1>6, <1>7, <1>8, <1>9

\* Every request that changes the board is broadcast, or known not to be.
LEMMA Broadcast ==
  ASSUME NEW op \in Changes, op \notin NothingEmitted
  PROVE  Notes(op) # {}
<1>1. PICK x \in Emits : op = x[1]
  BY DEF Changes, Ops
<1>2. x = <<op, x[2]>> /\ Heard(x[2])
  <2>1. CASE x \in BoardEmits \cup ListEmits
    BY <1>1, <2>1, HeardEvents DEF BoardEmits, ListEmits
  <2>2. CASE x \in CardEmits \cup SubcardEmits
    BY <1>1, <2>2, HeardEvents DEF CardEmits, SubcardEmits
  <2>3. CASE x \in AssigneeEmits \cup CommentEmits \cup TimeEmits
    BY <1>1, <2>3, HeardEvents DEF AssigneeEmits, CommentEmits, TimeEmits
  <2>4. CASE x \in ChecklistEmits
    BY <1>1, <2>4, HeardEvents DEF ChecklistEmits
  <2>. QED
    BY <2>1, <2>2, <2>3, <2>4 DEF Emits
<1>3. PICK y \in Relay : y[1] = x[2] /\ y[2] \in EntityEvents
  BY <1>2 DEF Heard
<1>4. y[2] \in Notes(op)
  BY <1>1, <1>2, <1>3 DEF Notes
<1>. QED
  BY <1>4

LEMMA PageInvPrime ==
  ASSUME PageTyped', BoardUpToDate', ViewUpToDate'
  PROVE  PageInv'
  BY DEF PageInv

\* A step of either part that leaves the view and the banner alone.
LEMMA PageMoves ==
  ASSUME PageInv, PageTyped', mode' = mode, banner' = banner,
         \A p \in Parts : excused[p] \/ UpToDate(p) => excused'[p] \/ UpToDate(p)'
  PROVE  PageInv'
<1>1. "board" \in Parts /\ "view" \in Parts
  BY DEF Parts
<1>. QED
  BY <1>1 DEF PageInv, BoardUpToDate, ViewUpToDate

\* Nothing new is stored or noted, and nothing fetched or awaited is lost.
LEMMA PartStays ==
  ASSUME NEW p \in Parts, UpToDate(p), db' = db, last' = last, PageTyped,
         \A k \in 1..db : Fetched(p, k) => Fetched(p, k)',
         \A k \in 1..db : Awaited(k) => Awaited(k)' \/ Fetched(p, k)'
  PROVE  UpToDate(p)'
<1>1. 1..last.change \subseteq 1..db
  BY DEF PageTyped
<1>. QED
  BY <1>1 DEF UpToDate

LEMMA FetchedStays ==
  ASSUME NEW p, NEW k, Fetched(p, k), shown'[p] = shown[p],
         \A l \in BagToSet(loads) : l.part = p => l \in BagToSet(loads')
  PROVE  Fetched(p, k)'
  BY DEF Fetched

LEMMA FetchedAll ==
  ASSUME NEW p, NEW l \in BagToSet(loads'), l.part = p, l.read = NotRead
  PROVE  UpToDate(p)'
  BY DEF UpToDate, Fetched

LEMMA ExcusedIs ==
  ASSUME NEW parts, Excuse(parts), NEW p \in Parts
  PROVE  excused'[p] = (excused[p] \/ p \in parts)
  BY DEF Excuse

-----------------------------------------------------------------------------
\* The loads that start.
LEMMA LoadsStart ==
  ASSUME NEW old, NEW parts, StartLoads(old, parts)
  PROVE  /\ BagToSet(loads') = BagToSet(old) \cup {[part |-> p, read |-> NotRead] : p \in parts}
         /\ Counted(old) => Counted(loads')
  BY BagParts DEF StartLoads, NewLoads

LEMMA Changed ==
  ASSUME PageInv, NEW op \in Changes, NEW parts, NEW stamp, Change(op, parts, stamp),
         \A ps \in parts : ps \subseteq Parts
  PROVE  PageInv'
<1>1. PICK k0, notes, r0 :
        /\ k0 = db + 1
        /\ notes = {[stamp |-> IF Stamped(n) THEN stamp ELSE 0, change |-> db + 1] : n \in Notes(op)}
        /\ r0 = [change |-> k0, parts |-> parts, answered |-> FALSE,
                 silent |-> op \in NothingEmitted, notes |-> notes]
        /\ requests' = requests \cup {r0}
  BY Zenon DEF Change
<1>2. db' = k0 /\ UNCHANGED <<conn, sock, drops, loads, mode, shown, banner, last, excused>>
  BY <1>1 DEF Change
<1>3. op \in NothingEmitted \/ notes # {}
  <2>1. ASSUME NEW n \in Notes(op) PROVE notes # {}
    BY <1>1, <2>1
  <2>. QED
    BY <2>1, Broadcast
<1>4. \A n \in notes : n.change = k0
  BY <1>1
<1>5. /\ r0.change = k0 /\ r0.parts = parts /\ r0.answered = FALSE /\ r0.silent = (op \in NothingEmitted)
      /\ r0.notes = notes
      /\ r0 = [change |-> r0.change, parts |-> r0.parts, answered |-> r0.answered,
               silent |-> r0.silent, notes |-> r0.notes]
  BY <1>1
<1>6. /\ db \in Nat /\ k0 \in Nat /\ 0..db \subseteq 0..k0 /\ 1..db \subseteq 1..k0 /\ k0 \in 1..k0
      /\ \A k \in 1..k0 : k \in 1..db \/ k = k0
  BY <1>1 DEF PageInv, PageTyped
<1>7. PageTyped'
  <2>1. \A r \in requests : PageRequest(r)'
    BY <1>2, <1>6 DEF PageRequest, PageInv, PageTyped
  <2>2. PageRequest(r0)'
    <3>1. r0.silent \in BOOLEAN /\ r0.answered \in BOOLEAN /\ (r0.silent \/ r0.notes # {})
      <4>1. CASE op \in NothingEmitted
        BY <1>1, <4>1
      <4>2. CASE op \notin NothingEmitted
        BY <1>1, <1>3, <4>2
      <4>. QED
        BY <4>1, <4>2
    <3>2. r0.change \in 1..db' /\ \A n \in r0.notes : n.change = r0.change
      BY <1>2, <1>4, <1>5, <1>6
    <3>. QED
      BY <1>5, <3>1, <3>2 DEF PageRequest
  <2>3. \A l \in BagToSet(loads) : PageLoad(l)'
    BY <1>2, <1>6 DEF PageLoad, PageInv, PageTyped
  <2>. QED
    BY <1>1, <1>2, <1>6, <2>1, <2>2, <2>3 DEF PageInv, PageTyped
<1>8. ASSUME NEW p \in Parts, UpToDate(p) PROVE UpToDate(p)'
  <2>1. \A k : Fetched(p, k) => Fetched(p, k)'
    BY <1>2 DEF Fetched
  <2>2. \A k : Awaited(k) => Awaited(k)'
    BY <1>1, <1>2 DEF Awaited
  <2>3. Awaited(k0)'
    BY <1>1, <1>5 DEF Awaited
  <2>. QED
    BY <1>2, <1>6, <1>8, <2>1, <2>2, <2>3 DEF UpToDate
<1>. QED
  BY <1>2, <1>7, <1>8, PageMoves

LEMMA RequestRelayed ==
  ASSUME PageInv, NEW r \in requests, Relayed(r)
  PROVE  PageInv'
<1>. DEFINE e == [r EXCEPT !.answered = TRUE]
<1>1. /\ ~r.answered
      /\ sock' = IF conn = "in" THEN sock \cup r.notes ELSE sock
      /\ requests' = (requests \ {r}) \cup {x \in {e} : r.parts # {}}
      /\ IF IF r.silent THEN r.parts = {} ELSE conn # "in"
         THEN Excuse(Parts) ELSE UNCHANGED excused
      /\ UNCHANGED <<db, conn, drops, loads, mode, shown, banner, last>>
  BY DEF Relayed
<1>2. PageRequest(r)
  BY DEF PageInv, PageTyped
<1>3. e.change = r.change /\ e.parts = r.parts /\ e.answered /\ e.silent = r.silent /\ e.notes = r.notes
  BY <1>1, <1>2 DEF PageRequest
<1>. HIDE DEF e
<1>4. excused' \in [Parts -> BOOLEAN] /\ \A p \in Parts : excused[p] => excused'[p]
  BY <1>1 DEF PageInv, PageTyped, Excuse
<1>5. PageTyped'
  <2>1. \A x \in requests' : PageRequest(x)'
    <3>1. db' = db /\ \A x \in requests' : x \in requests \/ x = e
      BY <1>1
    <3>2. \A x \in requests : PageRequest(x)'
      BY <3>1 DEF PageRequest, PageInv, PageTyped
    <3>3. PageRequest(e)'
      BY <1>2, <1>3, <3>1 DEF PageRequest
    <3>. QED
      BY <3>1, <3>2, <3>3
  <2>2. \A n \in sock' : n.change \in 1..db
    BY <1>1, <1>2 DEF PageRequest, PageInv, PageTyped
  <2>3. \A l \in BagToSet(loads) : PageLoad(l)'
    BY <1>1 DEF PageLoad, PageInv, PageTyped
  <2>. QED
    BY <1>1, <1>4, <2>1, <2>2, <2>3 DEF PageInv, PageTyped
<1>6. ASSUME NEW p \in Parts, UpToDate(p), ~excused'[p] PROVE UpToDate(p)'
  <2>1. \A k : Fetched(p, k) => Fetched(p, k)'
    BY <1>1 DEF Fetched
  <2>2. IF r.silent THEN r.parts # {} ELSE conn = "in"
    BY <1>1, <1>6, ExcusedIs
  <2>3. Awaited(r.change)'
    <3>1. CASE r.silent
      BY <1>1, <1>3, <2>2, <3>1 DEF Awaited
    <3>2. CASE ~r.silent
      BY <1>1, <1>2, <2>2, <3>2 DEF Awaited, PageRequest
    <3>. QED
      BY <3>1, <3>2
  <2>4. ASSUME NEW k, Awaited(k) PROVE Awaited(k)'
    <3>1. CASE k = r.change
      BY <3>1, <2>3
    <3>2. CASE k # r.change
      BY <1>1, <2>4, <3>2 DEF Awaited
    <3>. QED
      BY <3>1, <3>2
  <2>. QED
    BY <1>1, <1>6, <2>1, <2>4, PartStays DEF PageInv
<1>. QED
  BY <1>1, <1>4, <1>5, <1>6, PageMoves

\* The requests that remain, and what a part that is not excused now awaits.
LEMMA RequestEnds ==
  ASSUME PageInv, NEW r \in requests, Answer(r) \/ AnswerLost(r)
  PROVE  PageInv'
<1>1. /\ r.answered /\ requests' = requests \ {r}
      /\ UNCHANGED <<db, conn, sock, mode, shown, banner, last>>
  BY DEF Answer, AnswerLost
<1>2. PageRequest(r)
  BY DEF PageInv, PageTyped
<1>3. PICK now :
        /\ now \subseteq Parts
        /\ BagToSet(loads') = BagToSet(loads) \cup {[part |-> p, read |-> NotRead] : p \in now}
        /\ Counted(loads')
        /\ IF r.silent THEN Excuse(Parts \ now) ELSE UNCHANGED excused
  <2>1. CASE AnswerLost(r)
    <3>1. BagToSet(loads') = BagToSet(loads) \cup {[part |-> p, read |-> NotRead] : p \in {}}
      BY <2>1 DEF AnswerLost
    <3>2. Counted(loads') /\ IF r.silent THEN Excuse(Parts \ {}) ELSE UNCHANGED excused
      BY <2>1 DEF AnswerLost, PageInv, PageTyped
    <3>. QED
      BY <3>1, <3>2
  <2>2. CASE Answer(r)
    <3>1. PICK parts \in r.parts : LET now == IF mode = "board" THEN parts \ {"view"} ELSE parts IN
             /\ StartLoads(loads, now)
             /\ IF r.silent THEN Excuse(Parts \ now) ELSE UNCHANGED excused
      BY <2>2 DEF Answer
    <3>. DEFINE now == IF mode = "board" THEN parts \ {"view"} ELSE parts
    <3>2. /\ StartLoads(loads, now)
          /\ IF r.silent THEN Excuse(Parts \ now) ELSE UNCHANGED excused
      BY <3>1
    <3>3. now \subseteq Parts
      BY <1>2 DEF PageRequest
    <3>. HIDE DEF now
    <3>. QED
      BY <3>2, <3>3, LoadsStart DEF PageInv, PageTyped
  <2>. QED
    BY <2>1, <2>2
<1>4. excused' \in [Parts -> BOOLEAN] /\ \A p \in Parts : excused[p] => excused'[p]
  BY <1>3 DEF PageInv, PageTyped, Excuse
<1>5. PageTyped'
  <2>1. \A x \in requests' : PageRequest(x)'
    BY <1>1 DEF PageRequest, PageInv, PageTyped
  <2>2. \A l \in BagToSet(loads) : PageLoad(l)'
    BY <1>1 DEF PageLoad, PageInv, PageTyped
  <2>3. \A p \in now : PageLoad([part |-> p, read |-> NotRead])'
    BY <1>3 DEF PageLoad
  <2>4. \A l \in BagToSet(loads') : PageLoad(l)'
    BY <1>3, <2>2, <2>3
  <2>. QED
    BY <1>1, <1>3, <1>4, <2>1, <2>4 DEF PageInv, PageTyped
<1>6. ASSUME NEW p \in Parts, UpToDate(p), ~excused'[p] PROVE UpToDate(p)'
  <2>1. CASE p \in now
    <3>1. [part |-> p, read |-> NotRead] \in BagToSet(loads')
      BY <1>3, <2>1
    <3>. QED
      BY <3>1, FetchedAll
  <2>2. CASE p \notin now
    <3>1. ~r.silent
      <4>1. ASSUME r.silent PROVE FALSE
        <5>1. Excuse(Parts \ now)
          BY <1>3, <4>1
        <5>2. excused'[p] = (excused[p] \/ p \in Parts \ now)
          BY <5>1, ExcusedIs
        <5>. QED
          BY <1>6, <2>2, <5>2
      <4>. QED
        BY <4>1
    <3>2. \A k : Fetched(p, k) => Fetched(p, k)'
      BY <1>1, <1>3 DEF Fetched
    <3>3. \A k : Awaited(k) => Awaited(k)'
      BY <1>1, <3>1 DEF Awaited
    <3>. QED
      BY <1>1, <1>6, <3>2, <3>3, PartStays DEF PageInv
  <2>. QED
    BY <2>1, <2>2
<1>. QED
  BY <1>1, <1>4, <1>5, <1>6, PageMoves

LEMMA SocketMoves ==
  ASSUME PageInv, Connect \/ Joined \/ Disconnect
  PROVE  PageInv'
<1>1. /\ UNCHANGED <<db, requests, loads, mode, shown, banner, last>>
      /\ \/ UNCHANGED <<sock, excused>>
         \/ sock' = {} /\ IF sock # {} THEN Excuse(Parts) ELSE UNCHANGED excused
  BY DEF Connect, Joined, Disconnect
<1>2. excused' \in [Parts -> BOOLEAN] /\ \A p \in Parts : excused[p] => excused'[p]
  BY <1>1 DEF PageInv, PageTyped, Excuse
<1>3. PageTyped'
  <2>1. \A x \in requests : PageRequest(x)'
    BY <1>1 DEF PageRequest, PageInv, PageTyped
  <2>2. \A l \in BagToSet(loads) : PageLoad(l)'
    BY <1>1 DEF PageLoad, PageInv, PageTyped
  <2>. QED
    BY <1>1, <1>2, <2>1, <2>2 DEF PageInv, PageTyped
<1>4. ASSUME NEW p \in Parts, UpToDate(p), ~excused'[p] PROVE UpToDate(p)'
  <2>1. sock' = sock
    BY <1>1, <1>4, ExcusedIs
  <2>. QED
    BY <1>1, <1>4, <2>1, PartStays DEF PageInv, Fetched, Awaited
<1>. QED
  BY <1>1, <1>2, <1>3, <1>4, PageMoves

\* A broadcast is dropped for its stamp.
LEMMA NoteDropped ==
  ASSUME PageInv, NEW n \in sock, OnEntityEvent(n), n.stamp # 0 /\ n.stamp <= last.stamp
  PROVE  PageInv'
<1>1. /\ sock' = sock \ {n} /\ UNCHANGED <<db, requests, loads, mode, shown, banner, last>>
      /\ IF n.change > last.change THEN Excuse(Parts) ELSE UNCHANGED excused
  BY DEF OnEntityEvent
<1>2. excused' \in [Parts -> BOOLEAN] /\ \A p \in Parts : excused[p] => excused'[p]
  BY <1>1 DEF PageInv, PageTyped, Excuse
<1>3. PageTyped'
  <2>1. \A x \in requests : PageRequest(x)'
    BY <1>1 DEF PageRequest, PageInv, PageTyped
  <2>2. \A l \in BagToSet(loads) : PageLoad(l)'
    BY <1>1 DEF PageLoad, PageInv, PageTyped
  <2>. QED
    BY <1>1, <1>2, <2>1, <2>2 DEF PageInv, PageTyped
<1>4. ASSUME NEW p \in Parts, UpToDate(p), ~excused'[p] PROVE UpToDate(p)'
  <2>1. ~(n.change > last.change)
    BY <1>1, <1>4, ExcusedIs
  <2>2. n.change \in 1..last.change
    BY <2>1 DEF PageInv, PageTyped
  <2>3. Fetched(p, n.change)
    BY <2>2, <1>4 DEF UpToDate
  <2>4. \A k : Fetched(p, k) => Fetched(p, k)'
    BY <1>1 DEF Fetched
  <2>5. \A k : Awaited(k) => Awaited(k)' \/ Fetched(p, k)'
    BY <1>1, <2>3, <2>4 DEF Awaited
  <2>. QED
    BY <1>1, <1>4, <2>4, <2>5, PartStays DEF PageInv
<1>. QED
  BY <1>1, <1>2, <1>3, <1>4, PageMoves

\* A broadcast makes the board load itself, or puts up the banner.
LEMMA NoteTaken ==
  ASSUME PageInv, NEW n \in sock, OnEntityEvent(n), ~(n.stamp # 0 /\ n.stamp <= last.stamp)
  PROVE  PageInv'
<1>1. /\ sock' = sock \ {n} /\ UNCHANGED <<db, requests, conn, drops, mode, shown>>
      /\ last' = n \/ last' = last
      /\ IF mode = "board"
         THEN StartLoads(loads, {"board"}) /\ UNCHANGED <<banner, excused>>
         ELSE banner' = TRUE /\ Excuse({"board"}) /\ UNCHANGED loads
  BY DEF OnEntityEvent
<1>2. excused' \in [Parts -> BOOLEAN] /\ \A p \in Parts : excused[p] => excused'[p]
  BY <1>1 DEF PageInv, PageTyped, Excuse
<1>3. /\ Counted(loads')
      /\ BagToSet(loads') \subseteq BagToSet(loads) \cup {[part |-> "board", read |-> NotRead]}
      /\ mode = "board" => [part |-> "board", read |-> NotRead] \in BagToSet(loads')
  BY <1>1, LoadsStart DEF PageInv, PageTyped
<1>4. PageTyped'
  <2>1. \A x \in requests : PageRequest(x)'
    BY <1>1 DEF PageRequest, PageInv, PageTyped
  <2>2. \A l \in BagToSet(loads) \cup {[part |-> "board", read |-> NotRead]} : PageLoad(l)'
    BY <1>1 DEF PageLoad, PageInv, PageTyped, Parts
  <2>3. banner' \in BOOLEAN
    BY <1>1 DEF PageInv, PageTyped
  <2>4. last'.change \in 0..db
    BY <1>1 DEF PageInv, PageTyped
  <2>. QED
    BY <1>1, <1>2, <1>3, <2>1, <2>2, <2>3, <2>4 DEF PageInv, PageTyped
<1>5. BoardUpToDate'
  <2>1. CASE mode = "board"
    BY <1>3, <2>1, FetchedAll DEF BoardUpToDate
  <2>2. CASE mode # "board"
    BY <1>1, <2>2, ExcusedIs DEF BoardUpToDate, Parts
  <2>. QED
    BY <2>1, <2>2
<1>6. ViewUpToDate'
  BY <1>1 DEF ViewUpToDate
<1>. QED
  BY <1>4, <1>5, <1>6, PageInvPrime

LEMMA LoadIsRead ==
  ASSUME PageInv, NEW l \in BagToSet(loads), LoadRead(l)
  PROVE  PageInv'
<1>1. UNCHANGED <<db, requests, conn, sock, drops, mode, shown, banner, last, excused>>
  BY DEF LoadRead
<1>2. PageLoad(l) /\ db \in Nat /\ Counted(loads)
  BY DEF PageInv, PageTyped
<1>3. PICK m : m = [part |-> l.part, read |-> db]
  OBVIOUS
<1>4. /\ BagToSet(loads') \subseteq BagToSet(loads) \cup {m}
      /\ BagToSet(loads) \ {l} \subseteq BagToSet(loads') /\ m \in BagToSet(loads')
      /\ Counted(loads')
  <2>. DEFINE B == loads (-) SetToBag({l})
  <2>1. [l EXCEPT !.read = db] = m
    BY <1>2, <1>3 DEF PageLoad
  <2>2. loads' = B (+) SetToBag({m})
    BY <2>1 DEF LoadRead
  <2>3. BagToSet(B) \subseteq BagToSet(loads) /\ Counted(B) /\ BagToSet(loads) \ {l} \subseteq BagToSet(B)
    BY <1>2, BagParts
  <2>. HIDE DEF B
  <2>4. BagToSet(loads') = BagToSet(B) \cup {m} /\ Counted(loads')
    BY <2>2, <2>3, BagParts
  <2>. QED
    BY <2>3, <2>4
<1>5. PageTyped'
  <2>1. \A x \in requests : PageRequest(x)'
    BY <1>1 DEF PageRequest, PageInv, PageTyped
  <2>2. \A x \in BagToSet(loads) : PageLoad(x)'
    BY <1>1 DEF PageLoad, PageInv, PageTyped
  <2>3. PageLoad(m)'
    BY <1>1, <1>2, <1>3 DEF PageLoad
  <2>. QED
    BY <1>1, <1>4, <2>1, <2>2, <2>3 DEF PageInv, PageTyped
<1>6. ASSUME NEW p \in Parts, UpToDate(p) PROVE UpToDate(p)'
  <2>1. ASSUME NEW k \in 1..db, Fetched(p, k) PROVE Fetched(p, k)'
    <3>1. k <= db
      BY <1>2
    <3>2. CASE \E x \in BagToSet(loads) \ {l} : x.part = p /\ (x.read = NotRead \/ k <= x.read)
      BY <1>4, <3>2 DEF Fetched
    <3>3. CASE l.part = p
      BY <1>3, <1>4, <3>1, <3>3 DEF Fetched
    <3>4. CASE k <= shown[p]
      BY <1>1, <3>4 DEF Fetched
    <3>. QED
      BY <2>1, <3>2, <3>3, <3>4 DEF Fetched
  <2>2. \A k : Awaited(k) => Awaited(k)'
    BY <1>1 DEF Awaited
  <2>. QED
    BY <1>1, <1>6, <2>1, <2>2, PartStays DEF PageInv
<1>. QED
  BY <1>1, <1>5, <1>6, PageMoves

\* What has been loaded is shown, or the load failed.
LEMMA LoadEnds ==
  ASSUME PageInv, NEW l \in BagToSet(loads), LoadDone(l) \/ LoadFailed(l)
  PROVE  PageInv'
<1>1. /\ UNCHANGED <<db, requests, conn, sock, mode, banner, last>>
      /\ loads' = loads (-) SetToBag({l})
  BY DEF LoadDone, LoadFailed
<1>2. PageLoad(l) /\ db \in Nat /\ Counted(loads) /\ shown \in [Parts -> 0..db]
      /\ excused \in [Parts -> BOOLEAN] /\ last.change \in 0..db
  BY DEF PageInv, PageTyped
<1>3. /\ BagToSet(loads') \subseteq BagToSet(loads) /\ Counted(loads')
      /\ BagToSet(loads) \ {l} \subseteq BagToSet(loads')
  BY <1>1, <1>2, BagParts
<1>4. \A x \in requests : PageRequest(x)'
  BY <1>1 DEF PageRequest, PageInv, PageTyped
<1>5. \A x \in BagToSet(loads) : PageLoad(x)'
  BY <1>1 DEF PageLoad, PageInv, PageTyped
<1>6. \A k : Awaited(k) => Awaited(k)'
  BY <1>1 DEF Awaited
<1>7. CASE LoadFailed(l)
  <2>1. shown' = shown /\ Excuse({l.part})
    BY <1>7 DEF LoadFailed
  <2>2. excused' \in [Parts -> BOOLEAN] /\ \A p \in Parts : excused[p] => excused'[p]
    BY <1>2, <2>1 DEF Excuse
  <2>3. PageTyped'
    BY <1>1, <1>3, <1>4, <1>5, <2>1, <2>2 DEF PageInv, PageTyped
  <2>4. ASSUME NEW p \in Parts, UpToDate(p), ~excused'[p] PROVE UpToDate(p)'
    <3>1. p # l.part
      BY <2>1, <2>4, ExcusedIs
    <3>2. \A k : Fetched(p, k) => Fetched(p, k)'
      BY <1>3, <2>1, <3>1 DEF Fetched
    <3>. QED
      BY <1>1, <1>6, <2>4, <3>2, PartStays DEF PageInv
  <2>. QED
    BY <1>1, <2>2, <2>3, <2>4, PageMoves
<1>8. CASE LoadDone(l)
  <2>1. /\ l.read # NotRead
        /\ shown' = [shown EXCEPT ![l.part] = l.read]
        /\ excused' = [excused EXCEPT ![l.part] = l.read # db /\ (@ \/ l.read < shown[l.part])]
    BY <1>8 DEF LoadDone
  <2>2. l.read \in 0..db /\ l.part \in Parts
    BY <1>2, <2>1 DEF PageLoad
  <2>3. /\ shown' \in [Parts -> 0..db] /\ shown'[l.part] = l.read
        /\ \A p \in Parts \ {l.part} : shown'[p] = shown[p]
    BY <1>2, <2>1, <2>2
  <2>4. /\ excused' \in [Parts -> BOOLEAN]
        /\ excused'[l.part] = (l.read # db /\ (excused[l.part] \/ l.read < shown[l.part]))
        /\ \A p \in Parts \ {l.part} : excused'[p] = excused[p]
    BY <1>2, <2>1, <2>2
  <2>5. PageTyped'
    BY <1>1, <1>3, <1>4, <1>5, <2>3, <2>4 DEF PageInv, PageTyped
  <2>6. ASSUME NEW p \in Parts, p # l.part, UpToDate(p) PROVE UpToDate(p)'
    <3>1. \A k : Fetched(p, k) => Fetched(p, k)'
      BY <1>3, <2>3, <2>6 DEF Fetched
    <3>. QED
      BY <1>1, <1>6, <2>6, <3>1, PartStays DEF PageInv
  <2>7. ASSUME l.read = db PROVE UpToDate(l.part)'
    <3>1. \A k \in 1..db : k <= shown'[l.part]
      BY <1>2, <2>3, <2>7
    <3>2. 1..last.change \subseteq 1..db
      BY <1>2
    <3>. QED
      BY <1>1, <3>1, <3>2 DEF UpToDate, Fetched
  <2>8. ASSUME l.read # db, UpToDate(l.part), ~excused'[l.part] PROVE UpToDate(l.part)'
    <3>1. shown[l.part] <= l.read /\ shown[l.part] \in Int /\ l.read \in Int
      BY <1>2, <2>2, <2>4, <2>8
    <3>2. ASSUME NEW k \in 1..db, Fetched(l.part, k) PROVE Fetched(l.part, k)'
      <4>1. CASE k <= shown[l.part] \/ k <= l.read
        BY <2>3, <3>1, <4>1 DEF Fetched
      <4>2. CASE \E x \in BagToSet(loads) \ {l} : x.part = l.part /\ (x.read = NotRead \/ k <= x.read)
        BY <1>3, <4>2 DEF Fetched
      <4>. QED
        BY <2>1, <3>2, <4>1, <4>2 DEF Fetched
    <3>. QED
      BY <1>1, <1>6, <2>2, <2>8, <3>2, PartStays DEF PageInv
  <2>9. ASSUME NEW p \in Parts, excused[p] \/ UpToDate(p) PROVE excused'[p] \/ UpToDate(p)'
    <3>1. CASE p # l.part
      BY <2>4, <2>6, <2>9, <3>1
    <3>2. CASE p = l.part
      BY <2>4, <2>7, <2>8, <2>9, <3>2
    <3>. QED
      BY <3>1, <3>2
  <2>. QED
    BY <1>1, <2>5, <2>9, PageMoves
<1>. QED
  BY <1>7, <1>8

LEMMA LoadsOfBoard ==
  ASSUME PageInv
  PROVE  /\ BagToSet(BoardLoads) = {l \in BagToSet(loads) : l.part = "board"}
         /\ Counted(BoardLoads)
  BY DEF BoardLoads, BagToSet, Counted, PageInv, PageTyped

\* The loads of the board go on when views are opened, closed and refreshed.
LEMMA BoardGoesOn ==
  ASSUME PageInv, Counted(loads'), shown' \in [Parts -> 0..db], shown'["board"] = shown["board"],
         excused' \in [Parts -> BOOLEAN], excused'["board"] = excused["board"],
         mode' \in {"board", "table"}, banner' \in BOOLEAN,
         UNCHANGED <<db, requests, sock, last>>,
         \A l \in BagToSet(loads) : l.part = "board" => l \in BagToSet(loads'),
         \A l \in BagToSet(loads') : l \in BagToSet(loads) \/ \E p \in Parts : l = [part |-> p, read |-> NotRead],
         ViewUpToDate'
  PROVE  PageInv'
<1>1. \A x \in requests : PageRequest(x)'
  BY DEF PageRequest, PageInv, PageTyped
<1>2. \A l \in BagToSet(loads') : PageLoad(l)'
  <2>1. \A l \in BagToSet(loads) : PageLoad(l)'
    BY DEF PageLoad, PageInv, PageTyped
  <2>2. \A p \in Parts : PageLoad([part |-> p, read |-> NotRead])'
    BY DEF PageLoad
  <2>. QED
    BY <2>1, <2>2
<1>3. PageTyped'
  BY <1>1, <1>2 DEF PageInv, PageTyped
<1>4. ASSUME UpToDate("board") PROVE UpToDate("board")'
  <2>1. \A k : Fetched("board", k) => Fetched("board", k)'
    BY DEF Fetched
  <2>2. \A k : Awaited(k) => Awaited(k)'
    BY DEF Awaited
  <2>3. "board" \in Parts
    BY DEF Parts
  <2>. QED
    BY <1>4, <2>1, <2>2, <2>3, PartStays DEF PageInv
<1>. QED
  BY <1>3, <1>4 DEF PageInv, BoardUpToDate

LEMMA ViewChanges ==
  ASSUME PageInv, NEW m \in {"board", "table"}, HandleViewChange(m)
  PROVE  PageInv'
<1>1. /\ mode' = m /\ banner' = FALSE /\ UNCHANGED <<db, requests, conn, sock, drops, last>>
      /\ shown' = IF m = "board" THEN [shown EXCEPT !["view"] = 0] ELSE shown
  BY DEF HandleViewChange
<1>2. /\ db \in Nat /\ mode \in {"board", "table"} /\ banner \in BOOLEAN /\ Counted(loads)
      /\ shown \in [Parts -> 0..db] /\ excused \in [Parts -> BOOLEAN]
      /\ "board" \in Parts /\ "view" \in Parts
  BY DEF PageInv, PageTyped, Parts
<1>3. shown' \in [Parts -> 0..db] /\ shown'["board"] = shown["board"]
  BY <1>1, <1>2
<1>4. CASE m = "table" /\ mode = "board"
  <2>1. StartLoads(loads, {"view"}) /\ excused' = [excused EXCEPT !["view"] = FALSE]
    BY <1>4 DEF HandleViewChange
  <2>2. /\ BagToSet(loads') = BagToSet(loads) \cup {[part |-> "view", read |-> NotRead]}
        /\ Counted(loads')
    BY <1>2, <2>1, LoadsStart
  <2>3. excused' \in [Parts -> BOOLEAN] /\ excused'["board"] = excused["board"]
    BY <1>2, <2>1
  <2>4. ViewUpToDate'
    BY <2>2, FetchedAll DEF ViewUpToDate
  <2>. QED
    BY <1>1, <1>2, <1>3, <2>2, <2>3, <2>4, BoardGoesOn
<1>5. CASE ~(m = "table" /\ mode = "board")
  <2>1. /\ loads' = IF m = "board" THEN BoardLoads ELSE loads
        /\ IF m = mode /\ banner THEN Excuse({"view"}) ELSE UNCHANGED excused
    BY <1>5 DEF HandleViewChange
  <2>2. /\ excused' \in [Parts -> BOOLEAN] /\ excused'["board"] = excused["board"]
        /\ excused["view"] => excused'["view"]
        /\ m = mode /\ banner => excused'["view"]
    <3>1. CASE m = mode /\ banner
      BY <1>2, <2>1, <3>1 DEF Excuse
    <3>2. CASE ~(m = mode /\ banner)
      BY <1>2, <2>1, <3>2
    <3>. QED
      BY <3>1, <3>2
  <2>3. /\ \A l \in BagToSet(loads) : l.part = "board" => l \in BagToSet(loads')
        /\ BagToSet(loads') \subseteq BagToSet(loads) /\ Counted(loads')
    BY <1>2, <2>1, LoadsOfBoard
  <2>4. ViewUpToDate'
    <3>1. CASE m = "board"
      BY <1>1, <3>1 DEF ViewUpToDate
    <3>2. CASE m = "table" /\ mode = "table"
      <4>1. loads' = loads /\ shown' = shown
        BY <1>1, <2>1, <3>2
      <4>2. ASSUME UpToDate("view") PROVE UpToDate("view")'
        BY <1>1, <4>1, <4>2 DEF UpToDate, Fetched, Awaited
      <4>. QED
        BY <2>2, <3>2, <4>2 DEF ViewUpToDate, PageInv
    <3>. QED
      BY <1>2, <1>5, <3>1, <3>2
  <2>. QED
    BY <1>1, <1>2, <1>3, <2>2, <2>3, <2>4, BoardGoesOn
<1>. QED
  BY <1>4, <1>5

LEMMA ViewRefreshes ==
  ASSUME PageInv, HandleRefreshView
  PROVE  PageInv'
<1>1. /\ mode = "table" /\ banner' = FALSE /\ StartLoads(BoardLoads, Parts)
      /\ UNCHANGED <<db, requests, conn, sock, drops, mode, shown, last, excused>>
  BY DEF HandleRefreshView
<1>2. /\ shown \in [Parts -> 0..db] /\ excused \in [Parts -> BOOLEAN] /\ "view" \in Parts
      /\ mode \in {"board", "table"}
  BY DEF PageInv, PageTyped, Parts
<1>3. /\ BagToSet(loads') = {l \in BagToSet(loads) : l.part = "board"}
                              \cup {[part |-> p, read |-> NotRead] : p \in Parts}
      /\ Counted(loads')
  BY <1>1, LoadsOfBoard, LoadsStart
<1>4. ViewUpToDate'
  <2>1. [part |-> "view", read |-> NotRead] \in BagToSet(loads')
    BY <1>2, <1>3
  <2>. QED
    BY <2>1, FetchedAll DEF ViewUpToDate
<1>. QED
  BY <1>1, <1>2, <1>3, <1>4, BoardGoesOn

LEMMA ReloadsParts ==
  ASSUME NEW op, NEW m, NEW parts \in Reloads(op, m)
  PROVE  parts \subseteq Parts
  BY DEF Reloads, Parts

LEMMA PageStep == PageInv /\ [ClientNext]_clientVars => PageInv'
<1>. SUFFICES ASSUME PageInv, [ClientNext]_clientVars PROVE PageInv'
  OBVIOUS
<1>1. CASE UNCHANGED clientVars
  <2>1. PageTyped'
    BY <1>1 DEF clientVars, PageInv, PageTyped, PageRequest, PageLoad
  <2>2. ASSUME NEW p \in Parts, UpToDate(p) PROVE UpToDate(p)'
    BY <1>1, <2>2 DEF clientVars, UpToDate, Fetched, Awaited
  <2>. QED
    BY <1>1, <2>1, <2>2, PageMoves DEF clientVars
<1>2. ASSUME NEW op \in Changes, NEW st, ByOther(op, st) \/ ByPage(op, st) PROVE PageInv'
  <2>1. CASE ByOther(op, st)
    BY <2>1, Changed DEF ByOther
  <2>2. CASE ByPage(op, st)
    <3>1. PICK parts \in Reloads(op, mode) : Change(op, {parts}, st)
      BY <2>2 DEF ByPage
    <3>2. \A ps \in {parts} : ps \subseteq Parts
      BY ReloadsParts
    <3>. QED
      BY <3>1, <3>2, Changed
  <2>. QED
    BY <1>2, <2>1, <2>2
<1>. QED
  BY <1>1, <1>2, RequestRelayed, RequestEnds, SocketMoves, NoteDropped, NoteTaken, LoadIsRead,
     LoadEnds, ViewChanges, ViewRefreshes DEF ClientNext

LEMMA PageStart == Init => PageInv
<1>. SUFFICES ASSUME ClientInit PROVE PageInv
  BY DEF Init
<1>1. BagToSet(loads) = {[part |-> "board", read |-> NotRead]} /\ Counted(loads)
  BY DEF ClientInit, NewLoads, BagToSet, SetToBag, Counted
<1>2. PageTyped
  <2>1. shown \in [Parts -> 0..db] /\ excused \in [Parts -> BOOLEAN] /\ last.change \in 0..db
    BY DEF ClientInit
  <2>2. PageLoad([part |-> "board", read |-> NotRead])
    BY DEF PageLoad, Parts
  <2>. QED
    BY <1>1, <2>1, <2>2 DEF ClientInit, PageTyped
<1>3. UpToDate("board")
  BY <1>1 DEF UpToDate, Fetched
<1>. QED
  BY <1>2, <1>3 DEF ClientInit, PageInv, BoardUpToDate, ViewUpToDate

LEMMA PageRight == PageInv => ScreenFresh
<1>. SUFFICES ASSUME PageInv, conn = "in", requests = {}, sock = {}, loads = EmptyBag
              PROVE  IF mode = "board" THEN shown["board"] = db \/ excused["board"]
                     ELSE shown["view"] = db \/ banner \/ excused["view"]
  BY DEF ScreenFresh
<1>1. BagToSet(loads) = {}
  BY DEF BagToSet, EmptyBag, SetToBag
<1>2. db \in Nat /\ shown \in [Parts -> 0..db] /\ mode \in {"board", "table"}
  BY DEF PageInv, PageTyped
<1>3. ASSUME NEW p \in Parts, UpToDate(p) PROVE shown[p] = db
  <2>1. \A k \in 1..db : k <= shown[p]
    BY <1>1, <1>3 DEF UpToDate, Fetched, Awaited
  <2>. QED
    BY <1>2, <2>1
<1>. QED
  BY <1>2, <1>3 DEF PageInv, BoardUpToDate, ViewUpToDate, Parts

-----------------------------------------------------------------------------
(* The subcards of a card: shown in advance, stored, and reloaded. *)

CardStates == {"unborn", "free", "open", "done"}

\* No request on its way is about the card.
Untouched(x) == \A c \in calls : x # c.id /\ x # c.card

\* What the section shows: what is stored and untouched, and what the
\* requests on their way have shown in advance.
Advance(c) == [id |-> c.id, done |-> c.done]
Expected ==
    {s \in Stored : Untouched(s.id)} \cup {Advance(c) : c \in {x \in calls : x.op # "detach"}}

\* What a request has found and done.
CallOk(c) ==
    /\ c.op \in {"create", "attach", "detach", "toggle"} /\ c.done \in BOOLEAN
    /\ c.op \in {"create", "attach"} => ~c.done
    /\ c.op = "create" => c.id \in Int /\ c.id < 0 /\ c.id >= -clicks
    /\ c.op # "create" => c.id \in CardIds /\ c.card = c.id
    /\ c.step \in {"sent", "stored"}
    /\ c.step = "sent" =>
          /\ c = [op |-> c.op, id |-> c.id, done |-> c.done, nr |-> c.nr,
                  step |-> c.step, card |-> c.card]
          /\ c.card = c.id
          /\ c.op = "attach" => cards[c.id] = "free"
          /\ c.op \in {"detach", "toggle"} => cards[c.id] \in {"open", "done"}
    /\ c.step = "stored" =>
          /\ c.card \in CardIds
          /\ cards[c.card] = IF c.op = "detach" THEN "free" ELSE IF c.done THEN "done" ELSE "open"

Consistent ==
    /\ reads = EmptyBag /\ data = Expected
    /\ \A c \in calls : CallOk(c)
    /\ \A c, e \in calls : c # e => c.id # e.id /\ c.card # e.card

\* The one load on its way sets everything right.
Reloading == calls = {} /\ reads \in {SetToBag({{}}), SetToBag({{Stored}})}

SectionTyped ==
    /\ clicks \in Nat /\ cards \in [CardIds -> CardStates] /\ mixed \in BOOLEAN

SectionInv == SectionTyped /\ (mixed \/ Reloading \/ Consistent)

LEMMA StoredIs ==
  ASSUME NEW s
  PROVE  s \in Stored <=> \E x \in CardIds : /\ cards[x] \in {"open", "done"}
                                             /\ s = [id |-> x, done |-> cards[x] = "done"]
  BY DEF Stored

LEMMA NotEmpty == ASSUME NEW x PROVE SetToBag({x}) # EmptyBag
<1>1. DOMAIN SetToBag({x}) # DOMAIN EmptyBag
  BY DEF SetToBag, EmptyBag
<1>. QED
  BY <1>1

LEMMA SectionTypes ==
  ASSUME SectionTyped, [SubcardsNext]_subcardVars
  PROVE  SectionTyped'
<1>1. CASE UNCHANGED subcardVars
  BY <1>1 DEF SectionTyped, subcardVars
<1>2. ASSUME NEW op, NEW id, NEW done, Send(op, id, done) PROVE SectionTyped'
  BY <1>2 DEF Send, SectionTyped
<1>3. ASSUME NEW id \in CardIds, ChangedByOther(id) PROVE SectionTyped'
  BY <1>3 DEF ChangedByOther, SectionTyped, CardStates
<1>4. ASSUME NEW c \in calls, CallDone(c) \/ CallFailed(c) \/ \E id \in CardIds : StoreCall(c, id)
      PROVE  SectionTyped'
  BY <1>4 DEF CallDone, CallFailed, StoreCall, SectionTyped, CardStates
<1>5. ASSUME NEW r \in BagToSet(reads), SubcardsRead(r) \/ SubcardsLoaded(r) \/ LoadSubcardsFailed(r)
      PROVE  SectionTyped'
  <2>1. cards' = cards /\ (clicks' = clicks \/ clicks' = clicks + 1)
    BY <1>5 DEF SubcardsRead, SubcardsLoaded, LoadSubcardsFailed
  <2>2. mixed' \in BOOLEAN
    <3>1. CASE SubcardsLoaded(r)
      <4>1. PICK list \in r : mixed' = (mixed /\ ~(list = Stored /\ calls = {} /\ reads' = EmptyBag))
        BY <3>1 DEF SubcardsLoaded
      <4>. QED
        BY <4>1, Zenon
    <3>2. CASE SubcardsRead(r) \/ LoadSubcardsFailed(r)
      BY <3>2 DEF SubcardsRead, LoadSubcardsFailed, SectionTyped
    <3>. QED
      BY <1>5, <3>1, <3>2
  <2>. QED
    BY <2>1, <2>2 DEF SectionTyped
<1>. QED
  BY <1>1, <1>2, <1>3, <1>4, <1>5 DEF SubcardsNext, HandleCreateSubcard, HandleAttachSubcard,
     HandleDetachSubcard, HandleToggleSubcardComplete

\* A request that is sent while nothing else is on its way for its card.
LEMMA SendsAlone ==
  ASSUME SectionInv, NEW op, NEW id, NEW done, Send(op, id, done), ~mixed'
  PROVE  /\ Consistent /\ ~mixed /\ \A c \in calls : c.id # id
         /\ reads' = EmptyBag /\ cards' = cards /\ clicks' = clicks + 1
<1>1. mixed' = (mixed \/ reads # EmptyBag \/ \E c \in calls : c.id = id)
  BY DEF Send
<1>2. ~mixed /\ reads = EmptyBag /\ \A c \in calls : c.id # id
  BY <1>1
<1>3. ~Reloading
  BY <1>2, NotEmpty DEF Reloading
<1>. QED
  BY <1>2, <1>3 DEF SectionInv, Send

\* The requests on their way keep what they have found.
LEMMA SentJoins ==
  ASSUME SectionInv, NEW op \in {"create", "attach", "detach", "toggle"}, NEW id,
         NEW done \in BOOLEAN, Send(op, id, done), ~mixed',
         op \in {"create", "attach"} => ~done,
         op = "create" => id = TempId,
         op # "create" => id \in CardIds,
         op = "attach" => cards[id] = "free",
         op \in {"detach", "toggle"} => cards[id] \in {"open", "done"},
         \A c \in calls : c.card # id,
         data' = {s \in Stored : Untouched(s.id) /\ s.id # id}
                    \cup {Advance(c) : c \in {x \in calls : x.op # "detach"}}
                    \cup {s \in {[id |-> id, done |-> done]} : op # "detach"}
  PROVE  Consistent'
<1>1. /\ Consistent /\ \A c \in calls : c.id # id
      /\ reads' = EmptyBag /\ cards' = cards /\ clicks' = clicks + 1
  BY SendsAlone
<1>2. PICK e : /\ e = [op |-> op, id |-> id, done |-> done, nr |-> clicks, step |-> "sent", card |-> id]
               /\ calls' = calls \cup {e}
  BY DEF Send
<1>3. /\ e.op = op /\ e.id = id /\ e.done = done /\ e.step = "sent" /\ e.card = id
      /\ e = [op |-> e.op, id |-> e.id, done |-> e.done, nr |-> e.nr, step |-> e.step, card |-> e.card]
      /\ Advance(e) = [id |-> id, done |-> done]
  BY <1>2 DEF Advance
<1>4. clicks \in Nat
  BY DEF SectionInv, SectionTyped
<1>5. \A c \in calls : CallOk(c)'
  BY <1>1, <1>4 DEF Consistent, CallOk
<1>6. CallOk(e)'
  BY <1>1, <1>3, <1>4 DEF CallOk, TempId
<1>7. Stored' = Stored
  BY <1>1 DEF Stored
<1>8. \A x : Untouched(x)' <=> Untouched(x) /\ x # id
  BY <1>2, <1>3 DEF Untouched
<1>9. {Advance(c) : c \in {x \in calls' : x.op # "detach"}}
        = {Advance(c) : c \in {x \in calls : x.op # "detach"}}
             \cup {s \in {[id |-> id, done |-> done]} : op # "detach"}
  BY <1>2, <1>3
<1>10. data' = Expected'
  <2>1. Expected' = {s \in Stored' : Untouched(s.id)'} \cup {Advance(c) : c \in {x \in calls' : x.op # "detach"}}
    BY DEF Expected, Advance
  <2>. QED
    BY <1>7, <1>8, <1>9, <2>1
<1>. QED
  BY <1>1, <1>2, <1>3, <1>5, <1>6, <1>10 DEF Consistent

\* Where a card that no request has in mind is shown, it is stored.
LEMMA ShownIsStored ==
  ASSUME Consistent, NEW s \in data, \A c \in calls : c.id # s.id
  PROVE  s \in Stored /\ Untouched(s.id)
  BY DEF Consistent, Expected, Advance

LEMMA SubcardSent ==
  ASSUME SectionInv, ~mixed',
         \/ HandleCreateSubcard
         \/ \E id \in CardIds : HandleAttachSubcard(id)
         \/ \E s \in data : HandleDetachSubcard(s) \/ HandleToggleSubcardComplete(s)
  PROVE  Consistent'
<1>0. SectionTyped /\ CardIds \subseteq Nat
  BY SubcardBounds DEF SectionInv
<1>. DEFINE Ahead == {Advance(c) : c \in {x \in calls : x.op # "detach"}}
<1>1. CASE HandleCreateSubcard
  <2>1. PICK t : t = TempId
    OBVIOUS
  <2>2. Send("create", t, FALSE) /\ data' = data \cup {[id |-> t, done |-> FALSE]}
    BY <1>1, <2>1 DEF HandleCreateSubcard
  <2>3. Consistent /\ \A c \in calls : c.id # t
    BY <2>2, SendsAlone
  <2>4. t \in Int /\ t < 0 /\ t \notin CardIds
    BY <1>0, <2>1 DEF TempId, SectionTyped
  <2>5. \A c \in calls : c.card # t
    BY <2>3, <2>4 DEF Consistent, CallOk
  <2>6. \A s \in Stored : s.id # t
    BY <2>4 DEF Stored
  <2>7. data' = {s \in Stored : Untouched(s.id) /\ s.id # t} \cup Ahead
                  \cup {s \in {[id |-> t, done |-> FALSE]} : "create" # "detach"}
    BY <2>2, <2>3, <2>6 DEF Consistent, Expected
  <2>. QED
    BY <2>1, <2>2, <2>5, <2>7, SentJoins
<1>2. ASSUME NEW id \in CardIds, HandleAttachSubcard(id) PROVE Consistent'
  <2>1. /\ Send("attach", id, FALSE) /\ data' = data \cup {[id |-> id, done |-> FALSE]}
        /\ cards[id] = "free"
    BY <1>2 DEF HandleAttachSubcard
  <2>2. Consistent /\ \A c \in calls : c.id # id
    BY <2>1, SendsAlone
  <2>3. \A c \in calls : c.card # id
    BY <2>1, <2>2 DEF Consistent, CallOk
  <2>4. \A s \in Stored : s.id # id
    BY <2>1 DEF Stored
  <2>5. data' = {s \in Stored : Untouched(s.id) /\ s.id # id} \cup Ahead
                  \cup {s \in {[id |-> id, done |-> FALSE]} : "attach" # "detach"}
    BY <2>1, <2>2, <2>4 DEF Consistent, Expected
  <2>. QED
    BY <2>1, <2>3, <2>5, SentJoins
<1>3. ASSUME NEW s \in data, NEW op \in {"detach", "toggle"}, NEW done \in BOOLEAN, Send(op, s.id, done),
             data' = (data \ {s}) \cup {x \in {[id |-> s.id, done |-> done]} : op # "detach"}
      PROVE  Consistent'
  <2>1. Consistent /\ \A c \in calls : c.id # s.id
    BY <1>3, SendsAlone
  <2>2. s \in Stored /\ Untouched(s.id)
    BY <2>1, ShownIsStored
  <2>3. s.id \in CardIds /\ cards[s.id] \in {"open", "done"}
    BY <2>2 DEF Stored
  <2>4. \A c \in calls : c.card # s.id
    BY <2>2 DEF Untouched
  <2>5. \A x \in Stored : x.id = s.id <=> x = s
    BY <2>2 DEF Stored
  <2>6. \A x \in Ahead : x.id # s.id
    BY <2>1 DEF Advance
  <2>7. data \ {s} = {x \in Stored : Untouched(x.id) /\ x.id # s.id} \cup Ahead
    BY <2>1, <2>5, <2>6 DEF Consistent, Expected
  <2>. HIDE DEF Ahead
  <2>8. data' = {x \in Stored : Untouched(x.id) /\ x.id # s.id} \cup Ahead
                  \cup {x \in {[id |-> s.id, done |-> done]} : op # "detach"}
    BY <1>3, <2>7
  <2>. QED
    BY <1>3, <2>3, <2>4, <2>8, SentJoins DEF Ahead
<1>4. ASSUME NEW s \in data, HandleDetachSubcard(s) PROVE Consistent'
  <2>1. Send("detach", s.id, FALSE) /\ data' = data \ {s}
    BY <1>4 DEF HandleDetachSubcard
  <2>2. data' = (data \ {s}) \cup {x \in {[id |-> s.id, done |-> FALSE]} : "detach" # "detach"}
    BY <2>1
  <2>. QED
    BY <1>3, <2>1, <2>2
<1>5. ASSUME NEW s \in data, HandleToggleSubcardComplete(s) PROVE Consistent'
  <2>1. Send("toggle", s.id, ~s.done) /\ data' = (data \ {s}) \cup {[s EXCEPT !.done = ~@]}
    BY <1>5 DEF HandleToggleSubcardComplete
  <2>2. Consistent /\ \A c \in calls : c.id # s.id
    BY <2>1, SendsAlone
  <2>3. PICK x \in CardIds : s = [id |-> x, done |-> cards[x] = "done"]
    BY <2>2, ShownIsStored DEF Stored
  <2>4. PICK d \in BOOLEAN : d = ~s.done
    OBVIOUS
  <2>5. [s EXCEPT !.done = ~@] = [id |-> s.id, done |-> d]
    BY <2>3, <2>4
  <2>6. data' = (data \ {s}) \cup {y \in {[id |-> s.id, done |-> d]} : "toggle" # "detach"}
    BY <2>1, <2>5
  <2>7. Send("toggle", s.id, d)
    BY <2>1, <2>4
  <2>. QED
    BY <1>3, <2>6, <2>7
<1>. QED
  BY <1>1, <1>2, <1>4, <1>5

\* A card that another request is about.
LEMMA CallsApart ==
  ASSUME Consistent, NEW c \in calls, NEW e \in calls, c # e
  PROVE  /\ c.id # e.id /\ c.card # e.card
         /\ c.step = "stored" => c.card # e.id
<1>1. c.id # e.id /\ c.card # e.card /\ CallOk(c) /\ CallOk(e)
  BY DEF Consistent
<1>2. CardIds \subseteq Nat
  BY SubcardBounds
<1>. QED
  BY <1>1, <1>2 DEF CallOk

LEMMA CallStored ==
  ASSUME SectionTyped, Consistent, NEW c \in calls, NEW id \in CardIds, StoreCall(c, id)
  PROVE  Consistent'
<1>0. CardIds \subseteq Nat /\ cards \in [CardIds -> CardStates]
  BY SubcardBounds DEF SectionTyped
<1>1. /\ c.step = "sent" /\ CallOk(c)
      /\ IF c.op = "create" THEN cards[id] = "unborn" ELSE c.id = id
      /\ UNCHANGED <<data, reads, mixed, clicks>>
  BY DEF StoreCall, Consistent
<1>2. PICK e : e = [c EXCEPT !.step = "stored", !.card = id] /\ calls' = (calls \ {c}) \cup {e}
  BY DEF StoreCall
<1>3. e.op = c.op /\ e.id = c.id /\ e.done = c.done /\ e.step = "stored" /\ e.card = id
  BY <1>1, <1>2 DEF CallOk
<1>4. /\ cards' \in [CardIds -> CardStates] /\ \A x \in CardIds \ {id} : cards'[x] = cards[x]
      /\ cards'[id] = IF c.op = "detach" THEN "free" ELSE IF c.done THEN "done" ELSE "open"
  <2>1. cards' = [cards EXCEPT ![id] =
         CASE c.op \in {"create", "attach"} -> "open"
           [] c.op = "detach" -> "free"
           [] OTHER -> IF @ = "free" THEN @ ELSE IF c.done THEN "done" ELSE "open"]
    BY DEF StoreCall
  <2>2. c.op = "toggle" => cards[id] # "free"
    BY <1>1 DEF CallOk
  <2>. QED
    BY <1>0, <1>1, <2>1, <2>2 DEF CallOk, CardStates
<1>5. ASSUME NEW d \in calls, d # c PROVE d.id # id /\ d.card # id /\ d.id # c.id
  <2>1. CallOk(d) /\ d.id # c.id /\ d.card # c.card
    BY <1>5 DEF Consistent
  <2>2. CASE c.op = "create"
    BY <1>0, <1>1, <2>1, <2>2 DEF CallOk
  <2>3. CASE c.op # "create"
    BY <1>0, <1>1, <2>1, <2>3 DEF CallOk
  <2>. QED
    BY <2>1, <2>2, <2>3
<1>6. ASSUME NEW d \in calls, d # c PROVE CallOk(d)'
  BY <1>1, <1>4, <1>5, <1>6 DEF Consistent, CallOk
<1>7. CallOk(e)'
  BY <1>1, <1>3, <1>4 DEF CallOk
<1>8. {Advance(d) : d \in {x \in calls' : x.op # "detach"}}
        = {Advance(d) : d \in {x \in calls : x.op # "detach"}}
  <2>1. Advance(e) = Advance(c)
    BY <1>3 DEF Advance
  <2>. QED
    BY <1>2, <1>3, <2>1
<1>9. \A x : x # id => (Untouched(x)' <=> Untouched(x))
  <2>1. c.card = c.id
    BY <1>1 DEF CallOk
  <2>2. \A x : Untouched(x) <=> /\ \A d \in calls \ {c} : x # d.id /\ x # d.card
                               /\ x # c.id
    BY <2>1 DEF Untouched
  <2>3. \A x : Untouched(x)' <=> /\ \A d \in calls \ {c} : x # d.id /\ x # d.card
                                /\ x # c.id /\ x # id
    BY <1>2, <1>3 DEF Untouched
  <2>. QED
    BY <2>2, <2>3
<1>10. ~Untouched(id)'
  BY <1>2, <1>3 DEF Untouched
<1>11. id \in CardIds /\ cards[id] \in {"open", "done"} => ~Untouched(id)
  BY <1>1 DEF Untouched
<1>12. \A s : s \in Stored' /\ Untouched(s.id)' <=> s \in Stored /\ Untouched(s.id)
  <2>1. ASSUME NEW s, s \in Stored', Untouched(s.id)' PROVE s \in Stored /\ Untouched(s.id)
    <3>1. PICK x \in CardIds : cards'[x] \in {"open", "done"} /\ s = [id |-> x, done |-> cards'[x] = "done"]
      BY <2>1 DEF Stored
    <3>2. x # id
      BY <1>10, <2>1, <3>1
    <3>3. cards'[x] = cards[x]
      BY <1>4, <3>2
    <3>. QED
      BY <1>9, <2>1, <3>1, <3>2, <3>3 DEF Stored
  <2>2. ASSUME NEW s, s \in Stored, Untouched(s.id) PROVE s \in Stored' /\ Untouched(s.id)'
    <3>1. PICK x \in CardIds : cards[x] \in {"open", "done"} /\ s = [id |-> x, done |-> cards[x] = "done"]
      BY <2>2 DEF Stored
    <3>2. x # id
      BY <1>11, <2>2, <3>1
    <3>3. cards'[x] = cards[x]
      BY <1>4, <3>2
    <3>. QED
      BY <1>9, <2>2, <3>1, <3>2, <3>3 DEF Stored
  <2>. QED
    BY <2>1, <2>2
<1>13. Expected' = Expected
  <2>1. Expected' = {s \in Stored' : Untouched(s.id)'} \cup {Advance(d) : d \in {x \in calls' : x.op # "detach"}}
    BY DEF Expected, Advance
  <2>2. {s \in Stored' : Untouched(s.id)'} = {s \in Stored : Untouched(s.id)}
    BY <1>12
  <2>. QED
    BY <1>8, <2>1, <2>2 DEF Expected
<1>14. \A d, f \in calls' : d # f => d.id # f.id /\ d.card # f.card
  <2>1. ASSUME NEW d \in calls, d # c PROVE d.id # e.id /\ d.card # e.card
    BY <1>3, <1>5, <2>1 DEF Consistent
  <2>2. ASSUME NEW d \in calls, NEW f \in calls, d # f PROVE d.id # f.id /\ d.card # f.card
    BY <2>2 DEF Consistent
  <2>3. \A d \in calls' : (d \in calls /\ d # c) \/ d = e
    BY <1>2
  <2>. QED
    BY <2>1, <2>2, <2>3
<1>. QED
  BY <1>1, <1>2, <1>6, <1>7, <1>13, <1>14 DEF Consistent

\* The requests that are left when one is over.
LEMMA CallsRemain ==
  ASSUME Consistent, calls' \subseteq calls, UNCHANGED <<cards, clicks>>
  PROVE  /\ \A d \in calls' : CallOk(d)'
         /\ \A d, f \in calls' : d # f => d.id # f.id /\ d.card # f.card
         /\ Stored' = Stored
         /\ Expected' = {s \in Stored : Untouched(s.id)'}
                          \cup {Advance(d) : d \in {x \in calls' : x.op # "detach"}}
<1>1. \A d \in calls' : CallOk(d)'
  BY DEF Consistent, CallOk
<1>2. Stored' = Stored
  BY DEF Stored
<1>. QED
  BY <1>1, <1>2 DEF Consistent, Expected, Advance

LEMMA CallIsDone ==
  ASSUME SectionTyped, Consistent, NEW c \in calls, CallDone(c)
  PROVE  Consistent'
<1>0. CardIds \subseteq Nat
  BY SubcardBounds
<1>1. /\ c.step = "stored" /\ calls' = calls \ {c} /\ CallOk(c)
      /\ data' = {IF s.id = c.id THEN [s EXCEPT !.id = c.card] ELSE s : s \in data}
      /\ UNCHANGED <<cards, reads, mixed, clicks>>
  BY DEF CallDone, Consistent
<1>. DEFINE Ahead == {Advance(d) : d \in {x \in calls' : x.op # "detach"}}
            Rest == {s \in Stored : Untouched(s.id)}
            Mine == {Advance(d) : d \in {x \in {c} : x.op # "detach"}}
            Now == {s \in {[id |-> c.card, done |-> c.done]} : c.op # "detach"}
<1>2. data = Rest \cup Ahead \cup Mine
  BY <1>1 DEF Consistent, Expected
<1>3. \A s \in Rest \cup Ahead : s.id # c.id
  BY <1>1, CallsApart DEF Untouched, Advance
<1>4. \A s \in Mine : s.id = c.id /\ [s EXCEPT !.id = c.card] = [id |-> c.card, done |-> c.done]
  BY DEF Advance
<1>5. data' = Rest \cup Ahead \cup Now
  <2>1. (c.op # "detach" => Mine # {}) /\ (c.op = "detach" => Mine = {})
    <3>1. c.op # "detach" => Advance(c) \in Mine
      OBVIOUS
    <3>. QED
      BY <3>1
  <2>2. (c.op # "detach" => Now = {[id |-> c.card, done |-> c.done]}) /\ (c.op = "detach" => Now = {})
    OBVIOUS
  <2>. HIDE DEF Rest, Ahead, Mine, Now
  <2>3. \A s \in data' : s \in Rest \cup Ahead \cup Now
    BY <1>1, <1>2, <1>3, <1>4, <2>1, <2>2
  <2>4. \A s \in Rest \cup Ahead : s \in data'
    BY <1>1, <1>2, <1>3
  <2>5. \A s \in Now : s \in data'
    BY <1>1, <1>2, <1>4, <2>1, <2>2
  <2>. QED
    BY <2>3, <2>4, <2>5
<1>6. {s \in Stored : Untouched(s.id)'} = Rest \cup Now
  <2>1. \A x : Untouched(x)' <=> (Untouched(x) \/ ((x = c.id \/ x = c.card) /\ \A d \in calls \ {c} : x # d.id /\ x # d.card))
    BY <1>1 DEF Untouched
  <2>2. c.card \in CardIds /\ \A d \in calls \ {c} : c.card # d.id /\ c.card # d.card
    BY <1>1, CallsApart DEF CallOk
  <2>3. \A x \in CardIds : Untouched(x)' <=> Untouched(x) \/ x = c.card
    BY <1>0, <1>1, <2>1, <2>2 DEF CallOk
  <2>4. ASSUME NEW s \in Stored PROVE s.id = c.card <=> s \in Now
    <3>1. PICK x \in CardIds : cards[x] \in {"open", "done"} /\ s = [id |-> x, done |-> cards[x] = "done"]
      BY DEF Stored
    <3>2. CASE x # c.card
      BY <3>1, <3>2
    <3>3. CASE x = c.card
      <4>1. c.op # "detach" /\ (cards[x] = "done") = c.done
        BY <1>1, <3>1, <3>3 DEF CallOk
      <4>. QED
        BY <3>1, <3>3, <4>1
    <3>. QED
      BY <3>2, <3>3
  <2>5. ASSUME NEW s \in Now PROVE s \in Stored
    <3>1. cards[c.card] \in {"open", "done"} /\ (cards[c.card] = "done") = c.done
      BY <1>1 DEF CallOk
    <3>2. s = [id |-> c.card, done |-> cards[c.card] = "done"]
      BY <3>1
    <3>. QED
      BY <2>2, <3>1, <3>2 DEF Stored
  <2>6. \A s \in Stored : s.id \in CardIds
    BY DEF Stored
  <2>. HIDE DEF Now
  <2>. QED
    BY <2>3, <2>4, <2>5, <2>6
<1>7. /\ \A d \in calls' : CallOk(d)'
      /\ \A d, f \in calls' : d # f => d.id # f.id /\ d.card # f.card
      /\ Expected' = {s \in Stored : Untouched(s.id)'} \cup Ahead
  BY <1>1, CallsRemain
<1>8. data' = Expected'
  BY <1>5, <1>6, <1>7
<1>. QED
  BY <1>1, <1>7, <1>8 DEF Consistent

LEMMA CallFails ==
  ASSUME SectionTyped, Consistent, NEW c \in calls, CallFailed(c), ~mixed'
  PROVE  Reloading' \/ Consistent'
<1>0. CardIds \subseteq Nat
  BY SubcardBounds
<1>1. CallOk(c) /\ reads = EmptyBag /\ calls' = calls \ {c} /\ UNCHANGED <<cards, clicks>>
  BY DEF CallFailed, Consistent
<1>2. CASE c.op # "create"
  <2>1. calls' = {} /\ reads' = reads (+) SetToBag({{}})
    BY <1>2 DEF CallFailed, LoadSubcards
  <2>2. EmptyBag (+) SetToBag({{}}) = SetToBag({{}})
    BY DEF EmptyBag, SetToBag, (+)
  <2>. QED
    BY <1>1, <2>1, <2>2 DEF Reloading
<1>3. CASE c.op = "create"
  <2>1. data' = {s \in data : s.id # c.id} /\ reads' = reads /\ c.step # "stored"
    BY <1>3 DEF CallFailed
  <2>. DEFINE Ahead == {Advance(d) : d \in {x \in calls' : x.op # "detach"}}
              Rest == {s \in Stored : Untouched(s.id)}
  <2>2. c.card = c.id /\ c.id \notin CardIds
    BY <1>0, <1>1, <1>3, <2>1 DEF CallOk
  <2>3. data = Rest \cup Ahead \cup {Advance(c)}
    BY <1>1, <1>3 DEF Consistent, Expected
  <2>4. \A s \in Rest \cup Ahead : s.id # c.id
    BY <1>1, CallsApart DEF Untouched, Advance
  <2>5. Advance(c).id = c.id
    BY DEF Advance
  <2>6. data' = Rest \cup Ahead
    <3>. HIDE DEF Rest, Ahead
    <3>. QED
      BY <2>1, <2>3, <2>4, <2>5
  <2>7. {s \in Stored : Untouched(s.id)'} = Rest
    <3>1. \A s \in Stored : s.id # c.id
      BY <2>2 DEF Stored
    <3>2. \A x : x # c.id => (Untouched(x)' <=> Untouched(x))
      BY <1>1, <2>2 DEF Untouched
    <3>. QED
      BY <3>1, <3>2
  <2>8. /\ \A d \in calls' : CallOk(d)'
        /\ \A d, f \in calls' : d # f => d.id # f.id /\ d.card # f.card
        /\ Expected' = {s \in Stored : Untouched(s.id)'} \cup Ahead
    BY <1>1, CallsRemain
  <2>9. data' = Expected'
    BY <2>6, <2>7, <2>8
  <2>. QED
    BY <1>1, <2>1, <2>8, <2>9 DEF Consistent
<1>. QED
  BY <1>2, <1>3

\* A section with nothing on its way but what is stored.
LEMMA Rested ==
  ASSUME calls' = {}, reads' = EmptyBag, data' = Stored'
  PROVE  Consistent'
<1>1. \A x : Untouched(x)'
  BY DEF Untouched
<1>2. Expected' = Stored'
  BY <1>1 DEF Expected
<1>. QED
  BY <1>2 DEF Consistent

LEMMA ReadsMove ==
  ASSUME SectionInv, NEW r \in BagToSet(reads),
         SubcardsRead(r) \/ SubcardsLoaded(r) \/ LoadSubcardsFailed(r), ~mixed'
  PROVE  Reloading' \/ Consistent'
<1>1. UNCHANGED <<cards, calls>> /\ Stored' = Stored
  BY DEF SubcardsRead, SubcardsLoaded, LoadSubcardsFailed, Stored
<1>2. ~LoadSubcardsFailed(r)
  BY DEF LoadSubcardsFailed
<1>3. BagToSet(EmptyBag) = {} /\ \A x : BagToSet(SetToBag({x})) = {x}
  BY DEF BagToSet, EmptyBag, SetToBag
<1>4. \A x : /\ SetToBag({x}) (-) SetToBag({x}) = EmptyBag
             /\ EmptyBag (+) SetToBag({x}) = SetToBag({x})
  <2>. TAKE x
  <2>1. SetToBag({x}) (-) SetToBag({x}) = EmptyBag
    BY DEF EmptyBag, SetToBag, (-)
  <2>2. EmptyBag (+) SetToBag({x}) = SetToBag({x})
    BY DEF EmptyBag, SetToBag, (+)
  <2>. QED
    BY <2>1, <2>2
<1>5. CASE SubcardsRead(r)
  <2>1. r = {} /\ mixed' = mixed /\ reads' = (reads (-) SetToBag({r})) (+) SetToBag({{Stored}})
    BY <1>5 DEF SubcardsRead
  <2>2. Reloading
    BY <1>3, <2>1 DEF SectionInv, Consistent
  <2>3. reads = SetToBag({{}})
    BY <1>3, <2>1, <2>2 DEF Reloading
  <2>4. reads' = SetToBag({{Stored}})
    BY <1>4, <2>1, <2>3
  <2>. QED
    BY <1>1, <2>2, <2>4 DEF Reloading
<1>6. CASE SubcardsLoaded(r)
  <2>1. PICK list \in r :
          /\ data' = list /\ reads' = reads (-) SetToBag({r})
          /\ mixed' = (mixed /\ ~(list = Stored /\ calls = {} /\ reads' = EmptyBag))
    BY <1>6 DEF SubcardsLoaded
  <2>2. CASE mixed
    BY <1>1, <2>1, <2>2, Rested
  <2>3. CASE ~mixed
    <3>1. Reloading
      BY <1>3, <2>3 DEF SectionInv, Consistent
    <3>2. r = {Stored} /\ reads = SetToBag({r})
      <4>1. list \in r
        BY <2>1
      <4>2. CASE reads = SetToBag({{}})
        BY <1>3, <4>1, <4>2
      <4>3. CASE reads = SetToBag({{Stored}})
        BY <1>3, <4>3
      <4>. QED
        BY <3>1, <4>2, <4>3 DEF Reloading
    <3>3. reads' = EmptyBag /\ data' = Stored
      BY <1>4, <2>1, <3>2
    <3>. QED
      BY <1>1, <3>1, <3>3, Rested DEF Reloading
  <2>. QED
    BY <2>2, <2>3
<1>. QED
  BY <1>2, <1>5, <1>6

LEMMA SectionStep == SectionInv /\ [SubcardsNext]_subcardVars => SectionInv'
<1>. SUFFICES ASSUME SectionInv, [SubcardsNext]_subcardVars, ~mixed'
              PROVE  Reloading' \/ Consistent'
  BY SectionTypes DEF SectionInv
<1>0. SectionTyped
  BY DEF SectionInv
<1>1. CASE UNCHANGED subcardVars
  BY <1>1 DEF subcardVars, SectionInv, Reloading, Consistent, Expected, CallOk, Stored,
              Untouched, Advance
<1>2. ASSUME NEW id \in CardIds, ChangedByOther(id) PROVE FALSE
  BY <1>2 DEF ChangedByOther
<1>3. ASSUME NEW c \in calls, CallDone(c) \/ CallFailed(c) \/ \E id \in CardIds : StoreCall(c, id)
      PROVE  Reloading' \/ Consistent'
  <2>1. ~mixed
    BY <1>3 DEF CallDone, CallFailed, StoreCall
  <2>2. Consistent
    BY <1>3, <2>1 DEF SectionInv, Reloading
  <2>. QED
    BY <1>0, <1>3, <2>2, CallStored, CallIsDone, CallFails
<1>. QED
  BY <1>1, <1>2, <1>3, SubcardSent, ReadsMove DEF SubcardsNext

LEMMA SectionStart == Init => SectionInv
<1>. SUFFICES ASSUME SubcardsInit PROVE SectionInv
  BY DEF Init
<1>1. SectionTyped
  BY DEF SubcardsInit, SectionTyped, CardStates
<1>. QED
  BY <1>1 DEF SubcardsInit, SectionInv, Reloading

LEMMA SectionRight == SectionInv => SubcardsShown
<1>. SUFFICES ASSUME SectionInv, calls = {}, reads = EmptyBag, ~mixed PROVE data = Stored
  BY DEF SubcardsShown
<1>1. Consistent
  BY NotEmpty DEF SectionInv, Reloading
<1>2. \A x : Untouched(x)
  BY DEF Untouched
<1>. QED
  BY <1>1, <1>2 DEF Consistent, Expected

-----------------------------------------------------------------------------
(* The canvas: a dropped card ends up between the cards it was dropped between. *)

\* The ranks on the canvas, in the rows and in the loads are numbers.
Ranked(places) == \A i \in Dragged : places[i].rank \in Int

DragTyped ==
    /\ DOMAIN placed = Dragged
    /\ Ranked(placed) /\ Ranked(boardLists) /\ Ranked(known)
    /\ \A f \in BagToSet(fetches) : \A places \in f : Ranked(places)
    /\ \A d \in moving : /\ d = [nr |-> d.nr, id |-> d.id, to |-> d.to, prev |-> d.prev,
                                 next |-> d.next, back |-> d.back, step |-> d.step]
                         /\ d.prev \subseteq Int /\ d.next \subseteq Int /\ Ranked(d.back)

\* A rank that puts an item where the claim wants it.
Fits(r, c) ==
    /\ \A x \in c.above : placed[x].rank < r
    /\ \A x \in c.below : r < placed[x].rank

\* Nobody moves the items around the claimed one.  At most one request moves
\* the item itself, and puts it where it was dropped; it is there afterwards.
ClaimOk(c) ==
    /\ c.id \in Dragged /\ c.above \subseteq Dragged /\ c.below \subseteq Dragged
    /\ c.id \notin c.above \cup c.below
    /\ \A d \in moving : d.id \notin c.above \cup c.below
    /\ \A d, e \in moving : d.id = c.id /\ e.id = c.id => d = e
    /\ \A d \in moving : d.id = c.id /\ d.step = "sent" =>
           /\ d.to = c.to
           /\ HasRoom(d.prev, d.next) =>
                  /\ GetRankBetween(d.prev, d.next) # {}
                  /\ \A r \in GetRankBetween(d.prev, d.next) : Fits(r, c)
    /\ (\A d \in moving : d.id = c.id => d.step # "sent")
           => placed[c.id].in = c.to /\ Fits(placed[c.id].rank, c)

CanvasInv == DragTyped /\ \A c \in claims : ClaimOk(c)


LEMMA RankIsInt ==
  ASSUME NEW prev \in SUBSET Int, NEW next \in SUBSET Int, NEW r \in GetRankBetween(prev, next)
  PROVE  r \in Int
<1>1. \A a \in Int : GenNext(a) \in Int /\ GenPrev(a) \in Int
  BY DEF GenNext, GenPrev, Gap, Unit
<1>2. \A a, b \in Int : (a + b) \div 2 \in Int
  OBVIOUS
<1>. QED
  BY <1>1, <1>2 DEF GetRankBetween, InitialRank

\* The canvas, the rows and the requests of another drag.
LEMMA DragTypes ==
  ASSUME DragTyped, [DragNext]_dragVars
  PROVE  DragTyped'
<1>1. CASE UNCHANGED dragVars
  BY <1>1 DEF DragTyped, Ranked, dragVars
<1>2. ASSUME NEW i \in Dragged, NEW from, NEW k, NEW to, NEW n, HandleDragEnd(i, from, k, to, n)
      PROVE  DragTyped'
  <2>. DEFINE canvas == Splice(from, k, to, n)
              ids == Neighbours(canvas[to], n)
              d0 == [nr |-> moves, id |-> localLists[from][k], to |-> to, prev |-> RanksOf(ids.prev),
                     next |-> RanksOf(ids.next), back |-> boardLists, step |-> "sent"]
  <2>1. moving' = moving \cup {d0} /\ UNCHANGED <<placed, boardLists, known, fetches>>
    BY <1>2 DEF HandleDragEnd
  <2>2. RanksOf(ids.prev) \subseteq Int /\ RanksOf(ids.next) \subseteq Int
    BY DEF RanksOf, Neighbours, At, DragTyped, Ranked
  <2>. HIDE DEF canvas, ids
  <2>. QED
    BY <2>1, <2>2 DEF DragTyped, Ranked
<1>3. ASSUME NEW i \in Dragged, NEW to, MovedByOther(i, to)
      PROVE  DragTyped'
  <2>. DEFINE ranks == {placed[j].rank : j \in {x \in Dragged \ {i} : placed[x].in = to}}
              last1  == {r \in ranks : \A s \in ranks : s <= r}
  <2>1. PICK rank \in GetRankBetween(last1, {}) :
            placed' = [placed EXCEPT ![i] = [in |-> to, rank |-> rank]]
    BY <1>3 DEF MovedByOther
  <2>2. last1 \in SUBSET Int
    BY DEF DragTyped, Ranked
  <2>3. rank \in Int
    BY <2>2, RankIsInt
  <2>4. BagToSet(fetches') = BagToSet(fetches) \cup {{}}
    BY <1>3, BagParts DEF MovedByOther, StartFetch
  <2>5. UNCHANGED <<boardLists, known, moving>>
    BY <1>3 DEF MovedByOther
  <2>. HIDE DEF ranks, last1
  <2>. QED
    BY <2>1, <2>3, <2>4, <2>5 DEF DragTyped, Ranked
<1>4. ASSUME NEW d \in moving, ServeMove(d)
      PROVE  DragTyped'
  <2>1. PICK rank : /\ rank \in GetRankBetween(d.prev, d.next) \cup {InitialRank}
                    /\ placed' = [placed EXCEPT ![d.id] = [in |-> d.to, rank |-> rank]]
    BY <1>4 DEF ServeMove
  <2>2. rank \in Int
    BY <2>1, RankIsInt DEF DragTyped, InitialRank
  <2>3. moving' = (moving \ {d}) \cup {[d EXCEPT !.step = "served"]}
    BY <1>4 DEF ServeMove
  <2>4. UNCHANGED <<boardLists, known, fetches>>
    BY <1>4 DEF ServeMove
  <2>. QED
    BY <2>1, <2>2, <2>3, <2>4 DEF DragTyped, Ranked
<1>5. ASSUME NEW d \in moving, MoveAnswered(d) \/ MoveFailed(d)
      PROVE  DragTyped'
  <2>1. moving' \subseteq moving /\ UNCHANGED <<placed, boardLists>>
    BY <1>5 DEF MoveAnswered, MoveFailed
  <2>2. known' = known \/ known' = d.back
    BY <1>5 DEF MoveAnswered, MoveFailed
  <2>3. BagToSet(fetches') = BagToSet(fetches) \cup {{}}
    BY <1>5, BagParts DEF MoveAnswered, MoveFailed, StartFetch
  <2>. QED
    BY <2>1, <2>2, <2>3 DEF DragTyped, Ranked
<1>6. ASSUME NEW f \in BagToSet(fetches), FetchRead(f) \/ FetchDone(f)
      PROVE  DragTyped'
  <2>1. BagToSet(fetches') \subseteq BagToSet(fetches) \cup {{placed}}
    <3>1. CASE FetchDone(f)
      BY <3>1, BagParts DEF FetchDone
    <3>2. CASE FetchRead(f)
      <4>. DEFINE B == fetches (-) SetToBag({f})
      <4>1. fetches' = B (+) SetToBag({{placed}})
        BY <3>2 DEF FetchRead
      <4>2. BagToSet(B) \subseteq BagToSet(fetches)
        BY BagParts
      <4>. HIDE DEF B
      <4>3. BagToSet(fetches') = BagToSet(B) \cup {{placed}}
        BY <4>1, BagParts
      <4>. QED
        BY <4>2, <4>3
    <3>. QED
      BY <1>6, <3>1, <3>2
  <2>2. UNCHANGED <<placed, moving>>
    BY <1>6 DEF FetchRead, FetchDone
  <2>3. \/ known' = known /\ boardLists' = boardLists
        \/ known' \in f /\ boardLists' \in f
    BY <1>6 DEF FetchRead, FetchDone
  <2>. QED
    BY <2>1, <2>2, <2>3 DEF DragTyped, Ranked
<1>. QED
  BY <1>1, <1>2, <1>3, <1>4, <1>5, <1>6 DEF DragNext

\* A claim about items that are not moved by this step stays what it is.
LEMMA ClaimStays ==
  ASSUME NEW c, ClaimOk(c), moving' \subseteq moving,
         \A d \in moving \ moving' : d.id = c.id => d.step # "sent",
         \A x \in {c.id} \cup c.above \cup c.below : placed'[x] = placed[x]
  PROVE  ClaimOk(c)'
<1>1. \A r : Fits(r, c) => Fits(r, c)'
  BY DEF Fits
<1>. QED
  BY <1>1 DEF ClaimOk

LEMMA DragEnds ==
  ASSUME CanvasInv, NEW i \in Dragged, NEW from, NEW k, NEW to, NEW n,
         HandleDragEnd(i, from, k, to, n)
  PROVE  \A c \in claims' : ClaimOk(c)'
<1>. DEFINE s == Splice(from, k, to, n)[to]
            id == localLists[from][k]
            ids == Neighbours(s, n)
            c0 == ClaimOf(i, to, s, n)
            nx == At(s, n + 1)
            d0 == [nr |-> moves, id |-> id, to |-> to, prev |-> RanksOf(ids.prev),
                   next |-> RanksOf(ids.next), back |-> boardLists, step |-> "sent"]
<1>1. moving' = moving \cup {d0} /\ UNCHANGED placed
  BY DEF HandleDragEnd
<1>2. claims' = (Without(i) \cap Without(id)) \cup
             {c \in {c0} :
                /\ Clear(i, id, s, n)
                /\ \A d \in moving : d.id # i
                /\ \A x \in c0.above \cup nx \cup c0.below : x # i /\ Settled(x, to)
                /\ InOrder(c0.above, nx, c0.below)}
  BY DEF HandleDragEnd
<1>3. ASSUME NEW c \in claims, c \in Without(id)
      PROVE  ClaimOk(c)'
  <2>1. ClaimOk(c) /\ id \notin {c.id} \cup c.above \cup c.below
    BY <1>3 DEF CanvasInv, Without
  <2>2. \A r : Fits(r, c)' <=> Fits(r, c)
    BY <1>1 DEF Fits
  <2>3. d0.id = id
    OBVIOUS
  <2>. HIDE DEF d0, id
  <2>. QED
    BY <1>1, <2>1, <2>2, <2>3 DEF ClaimOk
<1>4. ASSUME NEW c, c = c0, i = id, \A d \in moving : d.id # i,
             \A x \in c0.above \cup nx \cup c0.below : x # i /\ Settled(x, to),
             InOrder(c0.above, nx, c0.below)
      PROVE  ClaimOk(c)'
  <2>1. /\ c.id = i /\ c.to = to /\ c.above = At(s, n - 1)
        /\ c.above \subseteq Dragged /\ c.below \subseteq Dragged /\ nx \subseteq Dragged
    BY <1>4 DEF ClaimOf, At, ShownBelow
  <2>2. (\A x, y \in c.above : x = y) /\ (\A x, y \in nx : x = y)
    BY <2>1 DEF At
  <2>3. ids.prev = c.above /\ ids.next = nx
    BY <2>1 DEF Neighbours
  <2>4. d0.id = i /\ d0.to = to /\ d0.prev = RanksOf(c.above) /\ d0.next = RanksOf(nx)
    BY <2>3, <1>4
  <2>5. \A x \in c.above \cup nx \cup c.below :
            /\ x \in Dragged /\ x # i /\ placed[x] = known[x] /\ placed[x].rank \in Int
            /\ \A d \in moving : d.id # x
    BY <2>1, <1>4 DEF Settled, CanvasInv, DragTyped, Ranked
  <2>6. /\ \A x \in c.above, y \in nx : placed[x].rank < placed[y].rank
        /\ \A y \in c.below : \E x \in nx : placed[x].rank <= placed[y].rank
    BY <1>4 DEF InOrder
  <2>. HIDE DEF c0, nx, ids, id, s, d0
  <2>7. /\ d0.prev \in SUBSET Int /\ d0.next \in SUBSET Int
        /\ \A a, b \in d0.prev : a = b
        /\ \A a, b \in d0.next : a = b
        /\ \A a \in d0.prev, b \in d0.next : a < b
    BY <2>2, <2>4, <2>5, <2>6 DEF RanksOf
  <2>8. /\ \A x \in c.above : placed[x].rank \in d0.prev
        /\ \A x \in nx : placed[x].rank \in d0.next
    BY <2>4, <2>5 DEF RanksOf
  <2>9. ASSUME HasRoom(d0.prev, d0.next)
        PROVE  /\ GetRankBetween(d0.prev, d0.next) # {}
               /\ \A r \in GetRankBetween(d0.prev, d0.next) : Fits(r, c)
    <3>0. \A a \in d0.prev, b \in d0.next : a <= b
      BY <2>7
    <3>1. /\ \A r \in GetRankBetween(d0.prev, d0.next) :
               /\ r \in Int
               /\ \A a \in d0.prev : a < r
               /\ \A b \in d0.next : r < b
          /\ GetRankBetween(d0.prev, d0.next) = {} => d0.prev # {} /\ d0.prev = d0.next
      BY <2>7, <2>9, <3>0, NewRank
    <3>2. ~(d0.prev # {} /\ d0.prev = d0.next)
      BY <2>7
    <3>3. ASSUME NEW r \in GetRankBetween(d0.prev, d0.next)
          PROVE  Fits(r, c)
      <4>1. \A x \in c.above : placed[x].rank < r
        BY <2>8, <3>1
      <4>2. ASSUME NEW y \in c.below PROVE r < placed[y].rank
        <5>1. PICK x \in nx : placed[x].rank <= placed[y].rank
          BY <2>6
        <5>2. r < placed[x].rank
          BY <2>8, <3>1
        <5>. QED
          BY <5>1, <5>2, <2>5, <3>1
      <4>. QED
        BY <4>1, <4>2 DEF Fits
    <3>. QED
      BY <3>1, <3>2, <3>3
  <2>10. \A r : Fits(r, c)' <=> Fits(r, c)
    BY <1>1 DEF Fits
  <2>11. d0.step = "sent"
    BY DEF d0
  <2>. QED
    BY <1>1, <1>4, <2>1, <2>4, <2>5, <2>9, <2>10, <2>11 DEF ClaimOk
<1>. HIDE DEF c0, d0, s, id, ids, nx
<1>. QED
  BY <1>2, <1>3, <1>4 DEF Without, Clear

LEMMA MoveServed ==
  ASSUME CanvasInv, NEW d \in moving, ServeMove(d), NEW c \in claims
  PROVE  ClaimOk(c)'
<1>. DEFINE e == [d EXCEPT !.step = "served"]
            ranks == GetRankBetween(d.prev, d.next)
<1>1. PICK rank \in IF ranks = {} /\ d.to # Root THEN {InitialRank} ELSE ranks :
          placed' = [placed EXCEPT ![d.id] = [in |-> d.to, rank |-> rank]]
  BY DEF ServeMove
<1>2. moving' = (moving \ {d}) \cup {e} /\ d.step = "sent" /\ HasRoom(d.prev, d.next)
  BY DEF ServeMove
<1>3. ClaimOk(c)
  BY DEF CanvasInv
<1>4. e.id = d.id /\ e.step = "served"
  BY DEF CanvasInv, DragTyped
<1>5. DOMAIN placed = Dragged
  BY DEF CanvasInv, DragTyped
<1>. HIDE DEF e, ranks
<1>6. CASE d.id # c.id
  <2>1. \A x \in {c.id} \cup c.above \cup c.below : placed'[x] = placed[x]
    BY <1>1, <1>3, <1>6 DEF ClaimOk
  <2>2. \A r : Fits(r, c)' <=> Fits(r, c)
    BY <2>1 DEF Fits
  <2>. QED
    BY <1>2, <1>3, <1>4, <1>6, <2>1, <2>2 DEF ClaimOk
<1>7. CASE d.id = c.id
  <2>1. d.to = c.to /\ ranks # {} /\ \A r \in ranks : Fits(r, c)
    BY <1>2, <1>3, <1>7 DEF ClaimOk, ranks
  <2>2. placed'[c.id] = [in |-> c.to, rank |-> rank] /\ rank \in ranks
    BY <1>1, <1>3, <1>5, <1>7, <2>1 DEF ClaimOk
  <2>3. \A x \in c.above \cup c.below : placed'[x] = placed[x]
    BY <1>1, <1>3, <1>7 DEF ClaimOk
  <2>4. \A r : Fits(r, c)' <=> Fits(r, c)
    BY <2>3 DEF Fits
  <2>5. \A f \in moving' : f.id = c.id => f = e
    BY <1>2, <1>3, <1>7 DEF ClaimOk
  <2>6. Fits(rank, c)'
    BY <2>1, <2>2, <2>4
  <2>. QED
    BY <1>2, <1>3, <1>4, <1>7, <2>2, <2>5, <2>6 DEF ClaimOk
<1>. QED
  BY <1>6, <1>7

LEMMA CanvasStep == CanvasInv /\ [DragNext]_dragVars => CanvasInv'
<1>. SUFFICES ASSUME CanvasInv, [DragNext]_dragVars PROVE \A c \in claims' : ClaimOk(c)'
  BY DragTypes DEF CanvasInv
<1>1. CASE UNCHANGED dragVars
  BY <1>1, ClaimStays DEF CanvasInv, dragVars
<1>2. ASSUME NEW i \in Dragged, NEW from, NEW k, NEW to, NEW n, HandleDragEnd(i, from, k, to, n)
      PROVE  \A c \in claims' : ClaimOk(c)'
  BY <1>2, DragEnds
<1>3. ASSUME NEW i \in Dragged, NEW to, MovedByOther(i, to), NEW c \in claims'
      PROVE  ClaimOk(c)'
  <2>1. c \in claims /\ i \notin {c.id} \cup c.above \cup c.below /\ UNCHANGED moving
    BY <1>3 DEF MovedByOther, Without
  <2>2. ClaimOk(c)
    BY <2>1 DEF CanvasInv
  <2>3. \A x : x # i => placed'[x] = placed[x]
    BY <1>3 DEF MovedByOther
  <2>. QED
    BY <2>1, <2>2, <2>3, ClaimStays
<1>4. ASSUME NEW d \in moving, ServeMove(d)
      PROVE  \A c \in claims' : ClaimOk(c)'
  BY <1>4, MoveServed DEF ServeMove
<1>5. ASSUME NEW d \in moving, MoveAnswered(d) \/ MoveFailed(d), NEW c \in claims'
      PROVE  ClaimOk(c)'
  <2>1. c \in claims /\ moving' = moving \ {d} /\ UNCHANGED placed
    BY <1>5 DEF MoveAnswered, MoveFailed, Without
  <2>2. d.id = c.id => d.step # "sent"
    BY <1>5 DEF MoveAnswered, MoveFailed, Without
  <2>3. ClaimOk(c)
    BY <2>1 DEF CanvasInv
  <2>. QED
    BY <2>1, <2>2, <2>3, ClaimStays
<1>6. ASSUME NEW f \in BagToSet(fetches), FetchRead(f) \/ FetchDone(f), NEW c \in claims'
      PROVE  ClaimOk(c)'
  <2>1. c \in claims /\ UNCHANGED <<moving, placed>>
    BY <1>6 DEF FetchRead, FetchDone
  <2>. QED
    BY <2>1, ClaimStays DEF CanvasInv
<1>. QED
  BY <1>1, <1>2, <1>3, <1>4, <1>5, <1>6 DEF DragNext

LEMMA CanvasStart == Init => CanvasInv
<1>. SUFFICES ASSUME DragInit PROVE CanvasInv
  BY DEF Init
<1>1. Ranked(FirstPlaces) /\ DOMAIN FirstPlaces = Dragged
  BY DragBounds DEF Ranked, Dragged
<1>2. BagToSet(fetches) = {}
  BY DEF DragInit, EmptyBag, SetToBag, BagToSet
<1>. QED
  BY <1>1, <1>2 DEF DragInit, CanvasInv, DragTyped

LEMMA CanvasRight == CanvasInv => DropsAsSeen
  BY DEF CanvasInv, ClaimOk, DropsAsSeen, Fits

-----------------------------------------------------------------------------
\* The screen at rest shows what is stored, but for the reasons the history
\* variables name: the board page has fetched every change (BoardPage's
\* handlers, broadcasts and loads), the subcards of an open card are the stored
\* ones (SubcardSection's optimistic changes and rollbacks), and an item dropped
\* on the canvas is between the items it was put between (handleDragEnd).
THEOREM BoardScreensRight == Spec => []ScreensRight
<1>. DEFINE Inv == PageInv /\ SectionInv /\ CanvasInv
<1>1. Init => Inv
  BY PageStart, SectionStart, CanvasStart
<1>2. Inv /\ [Next]_vars => Inv'
  <2>1. [Next]_vars => /\ [ClientNext]_clientVars
                       /\ [SubcardsNext]_subcardVars
                       /\ [DragNext]_dragVars
    BY DEF Next, vars
  <2>. QED
    BY <2>1, PageStep, SectionStep, CanvasStep
<1>3. Inv => ScreensRight
  BY PageRight, SectionRight, CanvasRight DEF ScreensRight
<1>. HIDE DEF Inv
<1>. QED
  BY <1>1, <1>2, <1>3, PTL DEF Spec

=============================================================================
