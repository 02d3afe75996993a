--------------------------- MODULE CardTree_proofs ---------------------------
(***************************************************************************)
(* Proofs about CardTree: completion always agrees with the status, and    *)
(* subcards form no cycle as long as no requests have overlapped, and no   *)
(* third level as long as nothing was restored either.                     *)
(***************************************************************************)
EXTENDS CardTree, TLAPS

\* What a request has established by its reads and no other request can undo:
\* rows are never removed from the table, a create works on a fresh id, and
\* the status and the completion it is about to write agree.
Checked(q) ==
    /\ q.step # "create" => q.step = "readChild" \/ q.card \in created
    /\ q.step \in {"create", "write"} => q.complete = IsCompleteFromStatus(q.status)

CompletionInv ==
    /\ TypeOK
    /\ CompleteMatchesStatus
    /\ \A r \in Requests : request[r] # None => Checked(request[r])

\* At most one request is in progress.
Exclusive ==
    \A q, r \in Requests : request[q] # None /\ request[r] # None => q = r

-----------------------------------------------------------------------------
\* A fresh request has the type of one, whatever operation it belongs to.
LEMMA BeginTyped ==
    ASSUME NEW step \in Steps, NEW c \in Cards, NEW p \in Cards \cup {NoCard},
           NEW s \in Statuses, NEW done \in BOOLEAN
    PROVE  [step |-> step, card |-> c, parent |-> p, status |-> s, complete |-> done]
               \in Request
BY DEF Request

\* isCompleteFromStatus is a Boolean, and update's derived status is a status
\* that agrees with the completion flag it was derived from.
LEMMA DerivedStatus ==
    ASSUME NEW s \in Statuses, NEW done \in BOOLEAN
    PROVE  /\ IsCompleteFromStatus(s) \in BOOLEAN
           /\ StatusFor(done, s) \in Statuses
           /\ done = IsCompleteFromStatus(StatusFor(done, s))
<1>1. IsCompleteFromStatus(s) \in BOOLEAN
  BY DEF IsCompleteFromStatus
<1>2. CASE done = TRUE
  <2>1. StatusFor(done, s) \in {"done", "closed"}
    BY <1>2 DEF StatusFor
  <2>2. IsCompleteFromStatus(StatusFor(done, s)) = TRUE
    BY <2>1 DEF IsCompleteFromStatus
  <2> QED BY <1>1, <1>2, <2>1, <2>2 DEF Statuses
<1>3. CASE done = FALSE
  <2>1. StatusFor(done, s) \in {"not_started", "active"}
    BY <1>3 DEF StatusFor
  <2>2. IsCompleteFromStatus(StatusFor(done, s)) = FALSE
    BY <2>1 DEF IsCompleteFromStatus
  <2> QED BY <1>1, <1>3, <2>1, <2>2 DEF Statuses
<1> QED BY <1>2, <1>3

\* The history variable notes an overlap when a request begins.
Noted ==
    /\ history' \in SUBSET {"overlap", "unarchive"}
    /\ "overlap" \notin history' =>
          "overlap" \notin history /\ \A q \in Requests : request[q] = None

\* Every read step stores a well-typed, checked request and changes no row.
LEMMA ReadStep ==
    ASSUME CompletionInv, NEW r \in Requests, Reads(r)
    PROVE  /\ UNCHANGED rows /\ Noted
           /\ \E q \in Request : Checked(q) /\ request' = [request EXCEPT ![r] = q]
<1>1. PICK c \in Cards :
        \/ \E p \in Cards \cup {NoCard}, s \in Statuses : ReadForCreate(r, c, p, s)
        \/ \E p \in Cards : AttachReadParent(r, p, c)
        \/ ReadForDetach(r, c)
        \/ ReadForArchive(r, c)
        \/ ReadForUnarchive(r, c)
        \/ ReadForDelete(r, c)
        \/ \E s \in Statuses : ReadForStatus(r, c, s)
        \/ \E done \in BOOLEAN : ReadForComplete(r, c, done)
  BY DEF Reads
<1>2. ASSUME NEW step \in Steps, NEW p \in Cards \cup {NoCard},
             NEW s \in Statuses, NEW done \in BOOLEAN,
             Begin(r, step, c, p, s, done),
             step \notin {"create", "readChild"} => c \in created,
             step \in {"create", "write"} => done = IsCompleteFromStatus(s)
      PROVE  /\ UNCHANGED rows /\ Noted
             /\ \E q \in Request : Checked(q) /\ request' = [request EXCEPT ![r] = q]
  <2> DEFINE q == [step |-> step, card |-> c, parent |-> p, status |-> s, complete |-> done]
  <2>1. q \in Request
    BY BeginTyped
  <2>2. q.step = step /\ q.card = c /\ q.status = s /\ q.complete = done
    OBVIOUS
  <2>3. Checked(q)
    BY <1>2, <2>2 DEF Checked
  <2>4. UNCHANGED rows /\ request' = [request EXCEPT ![r] = q]
    BY <1>2 DEF Begin
  <2>5. Noted
    BY <1>2 DEF Begin, Noted, CompletionInv, TypeOK
  <2> QED BY <2>1, <2>3, <2>4, <2>5
<1>3. Active \subseteq created
  BY DEF Active
<1>4. CASE \E p \in Cards \cup {NoCard}, s \in Statuses : ReadForCreate(r, c, p, s)
  <2>1. PICK p \in Cards \cup {NoCard}, s \in Statuses : ReadForCreate(r, c, p, s)
    BY <1>4
  <2>3. IsCompleteFromStatus(s) \in BOOLEAN
    BY DEF IsCompleteFromStatus
  <2>4. "create" \in Steps
    BY DEF Steps
  <2> QED BY <2>1, <2>3, <2>4, <1>2 DEF ReadForCreate
<1>5. CASE \E p \in Cards : AttachReadParent(r, p, c)
  BY <1>5, <1>2 DEF AttachReadParent, Steps, Statuses
<1>6. CASE \/ ReadForDetach(r, c) \/ ReadForArchive(r, c)
           \/ ReadForUnarchive(r, c) \/ ReadForDelete(r, c)
  BY <1>6, <1>2, <1>3 DEF ReadForDetach, ReadForArchive, ReadForUnarchive, ReadForDelete,
     Steps, Statuses
<1>7. CASE \E s \in Statuses : ReadForStatus(r, c, s)
  <2>1. PICK s \in Statuses : ReadForStatus(r, c, s)
    BY <1>7
  <2>2. IsCompleteFromStatus(s) \in BOOLEAN
    BY DEF IsCompleteFromStatus
  <2>3. "write" \in Steps
    BY DEF Steps
  <2> QED BY <2>1, <2>2, <2>3, <1>2, <1>3 DEF ReadForStatus
<1>8. CASE \E done \in BOOLEAN : ReadForComplete(r, c, done)
  <2>1. PICK done \in BOOLEAN : ReadForComplete(r, c, done)
    BY <1>8
  <2>2. /\ StatusFor(done, status[c]) \in Statuses
        /\ done = IsCompleteFromStatus(StatusFor(done, status[c]))
    BY DerivedStatus DEF CompletionInv, TypeOK
  <2>3. "write" \in Steps
    BY DEF Steps
  <2> QED BY <2>1, <2>2, <2>3, <1>2, <1>3 DEF ReadForComplete
<1> QED BY <1>1, <1>4, <1>5, <1>6, <1>7, <1>8

\* A step that only moves a request on keeps its checks and its type.
LEMMA GotoKeeps ==
    ASSUME CompletionInv, NEW r \in Requests, NEW step \in Steps,
           request[r] # None, Goto(r, step),
           step \notin {"create", "write"},
           request[r].card \in created
    PROVE  \E q \in Request : Checked(q) /\ request' = [request EXCEPT ![r] = q]
<1> DEFINE q == [step |-> step, card |-> request[r].card, parent |-> request[r].parent,
                 status |-> request[r].status, complete |-> request[r].complete]
<1>1. /\ request[r].card \in Cards /\ request[r].parent \in Cards \cup {NoCard}
      /\ request[r].status \in Statuses /\ request[r].complete \in BOOLEAN
  BY DEF CompletionInv, TypeOK, Request
<1>2. q \in Request
  BY <1>1, BeginTyped
<1>3. q.step = step /\ q.card = request[r].card
  OBVIOUS
<1>4. Checked(q)
  BY <1>3 DEF Checked
<1> QED BY <1>2, <1>4 DEF Goto

\* Every step of every request preserves the invariant.
LEMMA CompletionStep == CompletionInv /\ [Next]_vars => CompletionInv'
<1> SUFFICES ASSUME CompletionInv, [Next]_vars PROVE CompletionInv'
    OBVIOUS
<1> USE NoneIsNoRequest
<1>a. ASSUME NEW r \in Requests, UNCHANGED rows, history' \in SUBSET {"overlap", "unarchive"},
             \E q \in Request : Checked(q) /\ request' = [request EXCEPT ![r] = q]
      PROVE  CompletionInv'
  <2>1. TypeOK'
    BY <1>a DEF CompletionInv, TypeOK, rows
  <2>2. CompleteMatchesStatus'
    BY <1>a DEF CompletionInv, CompleteMatchesStatus, rows
  <2>3. ASSUME NEW t \in Requests, request'[t] # None PROVE Checked(request[t])'
    BY <1>a, <2>3 DEF CompletionInv, TypeOK, Checked, rows
  <2> QED BY <2>1, <2>2, <2>3 DEF CompletionInv
<1>b. ASSUME NEW r \in Requests, Release(r), created \subseteq created'
      PROVE  \A t \in Requests : request'[t] # None => Checked(request[t])'
  BY <1>b DEF CompletionInv, End, TypeOK, Checked, Release
<1>1. ASSUME NEW r \in Requests, Reads(r) PROVE CompletionInv'
  BY <1>1, <1>a, ReadStep DEF Noted
<1>2. ASSUME NEW r \in Requests, Writes(r) PROVE CompletionInv'
  <2>0. ASSUME request[r] # None
        PROVE  /\ request[r].card \in Cards
               /\ request[r].parent \in Cards \cup {NoCard}
               /\ request[r].status \in Statuses
               /\ request[r].complete \in BOOLEAN
               /\ Checked(request[r])
    BY <2>0 DEF CompletionInv, TypeOK, Request
  <2>1. CASE Create(r)
    <3>1. request[r] # None /\ request[r].step = "create" /\ End(r)
      BY <2>1 DEF Create, At
    <3>2. TypeOK'
      BY <2>1, <3>1, <2>0 DEF Create, CompletionInv, TypeOK, End, Release
    <3>3. CompleteMatchesStatus'
      BY <2>1, <3>1, <2>0 DEF Create, CompletionInv, CompleteMatchesStatus, TypeOK, Checked
    <3>4. created \subseteq created'
      BY <2>1 DEF Create
    <3> QED BY <3>1, <3>2, <3>3, <3>4, <1>b DEF CompletionInv, End
  <2>2. CASE AttachReadChild(r)
    <3>1. request[r] # None /\ Goto(r, "count") /\ UNCHANGED rows
      BY <2>2 DEF AttachReadChild, At
    <3>2. request[r].card \in created
      BY <2>2 DEF AttachReadChild, Active
    <3>3. "count" \in Steps
      BY DEF Steps
    <3> QED BY <3>1, <3>2, <3>3, <1>a, GotoKeeps DEF Goto, CompletionInv, TypeOK
  <2>3. CASE AttachCount(r)
    <3>1. request[r] # None /\ request[r].step = "count" /\ Goto(r, "attach") /\ UNCHANGED rows
      BY <2>3 DEF AttachCount, At
    <3>2. request[r].card \in created
      BY <3>1, <2>0 DEF Checked
    <3>3. "attach" \in Steps
      BY DEF Steps
    <3> QED BY <3>1, <3>2, <3>3, <1>a, GotoKeeps DEF Goto, CompletionInv, TypeOK
  <2>4. CASE AttachRefused(r)
    <3>1. End(r) /\ UNCHANGED rows
      BY <2>4 DEF AttachRefused
    <3>2. TypeOK' /\ CompleteMatchesStatus' /\ created \subseteq created'
      BY <3>1 DEF CompletionInv, TypeOK, CompleteMatchesStatus, rows, End, Release
    <3> QED BY <3>1, <3>2, <1>b DEF CompletionInv, End
  <2>5. CASE Attach(r) \/ Detach(r)
    <3>1. /\ request[r] # None /\ End(r)
          /\ UNCHANGED <<created, archived, deleted, status, complete>>
      BY <2>5 DEF Attach, Detach, At
    <3>2. parent' \in [Cards -> Cards \cup {NoCard}]
      BY <2>5, <3>1, <2>0 DEF Attach, Detach, CompletionInv, TypeOK
    <3>3. TypeOK' /\ CompleteMatchesStatus' /\ created \subseteq created'
      BY <3>1, <3>2 DEF CompletionInv, TypeOK, CompleteMatchesStatus, End, Release
    <3> QED BY <3>1, <3>3, <1>b DEF CompletionInv, End
  <2>6. CASE Archive(r) \/ Unarchive(r) \/ DeletePermanently(r)
    <3>1. /\ request[r] # None /\ Release(r)
          /\ history' \in {history, history \cup {"unarchive"}}
          /\ request[r].step \in {"archive", "unarchive", "delete"}
          /\ UNCHANGED <<created, parent, status, complete>>
      BY <2>6 DEF Archive, Unarchive, DeletePermanently, At, End
    <3>2. request[r].card \in created
      BY <3>1, <2>0 DEF Checked
    <3>3. archived' \subseteq created /\ deleted' \subseteq created
      BY <2>6, <3>2 DEF Archive, Unarchive, DeletePermanently, CompletionInv, TypeOK
    <3>4. TypeOK' /\ CompleteMatchesStatus' /\ created \subseteq created'
      BY <3>1, <3>3 DEF CompletionInv, TypeOK, CompleteMatchesStatus, End, Release
    <3> QED BY <3>1, <3>4, <1>b DEF CompletionInv, End
  <2>7. CASE WriteStatus(r)
    <3>1. request[r] # None /\ request[r].step = "write" /\ End(r)
      BY <2>7 DEF WriteStatus, At
    <3>2. TypeOK' /\ created \subseteq created'
      BY <2>7, <3>1, <2>0 DEF WriteStatus, CompletionInv, TypeOK, End, Release
    <3>3. CompleteMatchesStatus'
      BY <2>7, <3>1, <2>0 DEF WriteStatus, CompletionInv, CompleteMatchesStatus, TypeOK, Checked
    <3> QED BY <3>1, <3>2, <3>3, <1>b DEF CompletionInv, End
  <2> QED BY <1>2, <2>1, <2>2, <2>3, <2>4, <2>5, <2>6, <2>7 DEF Writes
<1>3. CASE UNCHANGED vars
  BY <1>3 DEF vars, rows, CompletionInv, TypeOK, CompleteMatchesStatus, Checked
<1> QED BY <1>1, <1>2, <1>3 DEF Next

\* isComplete agrees with the status in every reachable state, for any number of
\* cards and of overlapping update, updateStatus and create requests.
THEOREM CompletionConsistent == Spec => []CompleteMatchesStatus
<1>1. Init => CompletionInv
  BY NoneIsNoRequest DEF Init, CompletionInv, TypeOK, CompleteMatchesStatus, Statuses
<1>2. CompletionInv => CompleteMatchesStatus
  BY DEF CompletionInv
<1> QED BY <1>1, <1>2, CompletionStep, PTL DEF Spec

-----------------------------------------------------------------------------
\* What the reads of create and attachSubcard have established about the tree.
\* It survives until the write only because no other request runs in between.
Rooted(q) ==
    /\ q.step \in {"create", "readChild", "count", "attach"} /\ q.parent # NoCard
           => parent[q.parent] = NoCard
    /\ q.step \in {"create", "count", "attach"} => q.card # q.parent

\* The tree and the one request in progress, as long as there was only one.
Orderly ==
    /\ NoCycle
    /\ Exclusive
    /\ \A r \in Requests : request[r] # None => Rooted(request[r])

AcyclicInv == CompletionInv /\ ("overlap" \notin history => Orderly)

\* An edge to a root that is another card closes no cycle, and removing an edge
\* closes none either.
LEMMA EdgeToRoot ==
    ASSUME TypeOK, NoCycle, NEW c \in Cards, NEW p \in Cards \cup {NoCard},
           p # NoCard => p # c /\ parent[p] = NoCard,
           parent' = [parent EXCEPT ![c] = p]
    PROVE  NoCycle'
<1> SUFFICES ASSUME NEW S \in SUBSET Cards, S # {}, \A k \in S : parent'[k] \in S
             PROVE  FALSE
  BY DEF NoCycle
<1>1. CASE c \notin S
  <2>1. \A k \in S : parent[k] \in S
    BY <1>1 DEF TypeOK
  <2> QED BY <2>1 DEF NoCycle
<1>2. CASE c \in S
  <2>1. p \in S
    BY <1>2 DEF TypeOK
  <2>2. p \in Cards /\ p # NoCard
    BY <2>1, NoCardIsNoCard
  <2>3. parent'[p] = NoCard
    BY <2>2 DEF TypeOK
  <2> QED BY <2>1, <2>3, NoCardIsNoCard
<1> QED BY <1>1, <1>2

\* A read step stores a request that is rooted.
LEMMA ReadRooted ==
    ASSUME CompletionInv, NEW r \in Requests, Reads(r)
    PROVE  Rooted(request'[r])
<1>1. PICK c \in Cards :
        \/ \E p \in Cards \cup {NoCard}, s \in Statuses : ReadForCreate(r, c, p, s)
        \/ \E p \in Cards : AttachReadParent(r, p, c)
        \/ ReadForDetach(r, c)
        \/ ReadForArchive(r, c)
        \/ ReadForUnarchive(r, c)
        \/ ReadForDelete(r, c)
        \/ \E s \in Statuses : ReadForStatus(r, c, s)
        \/ \E done \in BOOLEAN : ReadForComplete(r, c, done)
  BY DEF Reads
<1>3. ASSUME NEW step, NEW p, NEW s, NEW done, Begin(r, step, c, p, s, done)
      PROVE  /\ request'[r].step = step /\ request'[r].card = c /\ request'[r].parent = p
  BY <1>3 DEF Begin, CompletionInv, TypeOK
<1>4. CASE \E p \in Cards \cup {NoCard}, s \in Statuses : ReadForCreate(r, c, p, s)
  <2>1. PICK p \in Cards \cup {NoCard}, s \in Statuses : ReadForCreate(r, c, p, s)
    BY <1>4
  <2>2. request'[r].step = "create" /\ request'[r].card = c /\ request'[r].parent = p
    BY <2>1, <1>3 DEF ReadForCreate
  <2>3. c # p /\ (p # NoCard => parent[p] = NoCard)
    BY <2>1, NoCardIsNoCard DEF ReadForCreate, MayBeParent, Active
  <2> QED BY <2>2, <2>3 DEF Rooted
<1>5. CASE \E p \in Cards : AttachReadParent(r, p, c)
  <2>1. PICK p \in Cards : AttachReadParent(r, p, c)
    BY <1>5
  <2>2. request'[r].step = "readChild" /\ request'[r].parent = p
    BY <2>1, <1>3 DEF AttachReadParent
  <2>3. parent[p] = NoCard
    BY <2>1 DEF AttachReadParent, MayBeParent
  <2> QED BY <2>2, <2>3 DEF Rooted
<1>6. CASE \/ ReadForDetach(r, c) \/ ReadForArchive(r, c)
           \/ ReadForUnarchive(r, c) \/ ReadForDelete(r, c)
           \/ \E s \in Statuses : ReadForStatus(r, c, s)
           \/ \E done \in BOOLEAN : ReadForComplete(r, c, done)
  <2>1. request'[r].step \in {"detach", "archive", "unarchive", "delete", "write"}
    BY <1>6, <1>3 DEF ReadForDetach, ReadForArchive, ReadForUnarchive, ReadForDelete,
       ReadForStatus, ReadForComplete
  <2> QED BY <2>1 DEF Rooted
<1> QED BY <1>1, <1>4, <1>5, <1>6

\* As long as requests have not overlapped, every step preserves acyclicity.
LEMMA AcyclicStep == AcyclicInv /\ [Next]_vars => AcyclicInv'
<1> SUFFICES ASSUME AcyclicInv, [Next]_vars, "overlap" \notin history' PROVE Orderly'
  BY CompletionStep DEF AcyclicInv
<1>0. "overlap" \notin history
  <2>1. ASSUME NEW r \in Requests, Reads(r) PROVE "overlap" \notin history
    BY <2>1, ReadStep DEF AcyclicInv, Noted
  <2>2. ASSUME NEW r \in Requests, Writes(r) PROVE history \subseteq history'
    BY <2>2 DEF Writes, Create, AttachReadChild, AttachCount, AttachRefused, Attach, Detach,
       Archive, Unarchive, DeletePermanently, WriteStatus, Goto, End
  <2> QED BY <2>1, <2>2 DEF Next, vars
<1>i. CompletionInv /\ Orderly
  BY <1>0 DEF AcyclicInv
<1>a. ASSUME NEW r \in Requests, Release(r), NoCycle', request[r] # None
      PROVE  Orderly'
  <2>1. \A t \in Requests : request'[t] = None
    BY <1>i, <1>a DEF Release, Orderly, Exclusive, CompletionInv, TypeOK
  <2> QED BY <1>a, <2>1 DEF Orderly, Exclusive
<1>1. ASSUME NEW r \in Requests, Reads(r) PROVE Orderly'
  <2>1. UNCHANGED rows /\ \A t \in Requests : t # r => request'[t] = request[t]
    BY <1>i, <1>1, ReadStep DEF CompletionInv, TypeOK
  <2>3. \A t \in Requests : t # r => request'[t] = None
    BY <1>i, <1>1, <2>1, ReadStep DEF Noted
  <2>4. Rooted(request[r])'
    BY <1>i, <1>1, <2>1, ReadRooted DEF Rooted, rows
  <2>5. NoCycle'
    BY <1>i, <2>1 DEF Orderly, NoCycle, rows
  <2> QED BY <2>3, <2>4, <2>5 DEF Orderly, Exclusive
<1>2. ASSUME NEW r \in Requests, Writes(r) PROVE Orderly'
  <2>0. ASSUME request[r] # None
        PROVE  /\ request[r].card \in Cards
               /\ request[r].parent \in Cards \cup {NoCard}
               /\ Rooted(request[r])
    BY <1>i, <2>0 DEF Orderly, CompletionInv, TypeOK, Request
  <2>1. CASE Create(r) \/ Attach(r)
    <3>1. /\ request[r] # None /\ End(r)
          /\ request[r].step \in {"create", "attach"}
          /\ parent' = [parent EXCEPT ![request[r].card] = request[r].parent]
      BY <2>1 DEF Create, Attach, At
    <3>2. NoCycle'
      BY <1>i, <3>1, <2>0, EdgeToRoot DEF Rooted, Orderly, CompletionInv
    <3> QED BY <3>1, <3>2, <1>a DEF End
  <2>2. CASE Detach(r)
    <3>1. /\ request[r] # None /\ End(r)
          /\ parent' = [parent EXCEPT ![request[r].card] = NoCard]
      BY <2>2 DEF Detach, At
    <3>2. NoCycle'
      BY <1>i, <3>1, <2>0, EdgeToRoot DEF Orderly, CompletionInv
    <3> QED BY <3>1, <3>2, <1>a DEF End
  <2>3. CASE AttachReadChild(r) \/ AttachCount(r)
    <3>1. /\ UNCHANGED rows /\ request[r] # None
          /\ request[r].step \in {"readChild", "count"}
          /\ request'[r].card = request[r].card /\ request'[r].parent = request[r].parent
          /\ \A t \in Requests : t # r => request'[t] = request[t]
      BY <1>i, <2>3 DEF AttachReadChild, AttachCount, At, Goto, CompletionInv, TypeOK
    <3>2. request[r].card # request[r].parent
      BY <2>3, <3>1, <2>0 DEF AttachReadChild, AttachCount, At, Rooted
    <3>3. Rooted(request[r])'
      BY <3>1, <3>2, <2>0 DEF Rooted, rows
    <3>4. NoCycle'
      BY <1>i, <3>1 DEF Orderly, NoCycle, rows
    <3> QED BY <1>i, <3>1, <3>3, <3>4 DEF Orderly, Exclusive
  <2>4. CASE \/ AttachRefused(r) \/ Archive(r) \/ Unarchive(r)
             \/ DeletePermanently(r) \/ WriteStatus(r)
    <3>1. Release(r) /\ UNCHANGED parent /\ request[r] # None
      BY <2>4 DEF AttachRefused, Archive, Unarchive, DeletePermanently, WriteStatus, At, rows, End
    <3>2. NoCycle'
      BY <1>i, <3>1 DEF Orderly, NoCycle
    <3> QED BY <3>1, <3>2, <1>a DEF End
  <2> QED BY <1>2, <2>1, <2>2, <2>3, <2>4 DEF Writes
<1>3. CASE UNCHANGED vars
  BY <1>i, <1>3 DEF vars, rows, Orderly, Exclusive, NoCycle, Rooted
<1> QED BY <1>1, <1>2, <1>3 DEF Next

\* Until two requests have overlapped, parentCardId closes no cycle, for any
\* number of cards and across archiving, deletion and restoration.
THEOREM UnracedAcyclic == Spec => []NoCycleUnraced
<1>1. Init => AcyclicInv
  BY NoCardIsNoCard, NoneIsNoRequest
     DEF Init, AcyclicInv, Orderly, Exclusive, CompletionInv, TypeOK, CompleteMatchesStatus,
         NoCycle, Statuses
<1>2. AcyclicInv => NoCycleUnraced
  BY DEF AcyclicInv, Orderly, NoCycleUnraced
<1> QED BY <1>1, <1>2, AcyclicStep, PTL DEF Spec

-----------------------------------------------------------------------------
\* What the reads of create and attachSubcard have established about levels:
\* the new card is not there yet, the parent is, and the card to attach has
\* no active subcards.
Placed(q) ==
    /\ q.step = "create" => q.card \notin created
    /\ q.parent # NoCard => q.parent \in created
    /\ q.step = "attach" => Subcards(q.card) = {}

\* Two levels, as long as nothing was restored and there was one request at a
\* time: a parent is always a row, so a fresh card is nobody's parent.
Level ==
    /\ DepthTwo
    /\ \A k \in created : parent[k] \in created \cup {NoCard}
    /\ \A r \in Requests : request[r] # None => Placed(request[r])

DepthInv == AcyclicInv /\ (history = {} => Level)

\* A read step stores a request that is placed.
LEMMA ReadPlaced ==
    ASSUME CompletionInv, NEW r \in Requests, Reads(r)
    PROVE  Placed(request'[r])
<1>1. PICK c \in Cards :
        \/ \E p \in Cards \cup {NoCard}, s \in Statuses : ReadForCreate(r, c, p, s)
        \/ \E p \in Cards : AttachReadParent(r, p, c)
        \/ ReadForDetach(r, c)
        \/ ReadForArchive(r, c)
        \/ ReadForUnarchive(r, c)
        \/ ReadForDelete(r, c)
        \/ \E s \in Statuses : ReadForStatus(r, c, s)
        \/ \E done \in BOOLEAN : ReadForComplete(r, c, done)
  BY DEF Reads
<1>2. ASSUME NEW step, NEW p, NEW s, NEW done, Begin(r, step, c, p, s, done)
      PROVE  request'[r].step = step /\ request'[r].card = c /\ request'[r].parent = p
  BY <1>2 DEF Begin, CompletionInv, TypeOK
<1>3. CASE \E p \in Cards \cup {NoCard}, s \in Statuses : ReadForCreate(r, c, p, s)
  <2>1. PICK p \in Cards \cup {NoCard}, s \in Statuses : ReadForCreate(r, c, p, s)
    BY <1>3
  <2>2. request'[r].step = "create" /\ request'[r].card = c /\ request'[r].parent = p
    BY <2>1, <1>2 DEF ReadForCreate
  <2> QED BY <2>1, <2>2 DEF Placed, ReadForCreate, MayBeParent, Active
<1>4. CASE \E p \in Cards : AttachReadParent(r, p, c)
  <2>1. PICK p \in Cards : AttachReadParent(r, p, c)
    BY <1>4
  <2>2. request'[r].step = "readChild" /\ request'[r].parent = p
    BY <2>1, <1>2 DEF AttachReadParent
  <2> QED BY <2>1, <2>2 DEF Placed, AttachReadParent, MayBeParent, Active
<1>5. CASE \/ ReadForDetach(r, c) \/ ReadForArchive(r, c)
           \/ ReadForUnarchive(r, c) \/ ReadForDelete(r, c)
           \/ \E s \in Statuses : ReadForStatus(r, c, s)
           \/ \E done \in BOOLEAN : ReadForComplete(r, c, done)
  <2>1. /\ request'[r].step \in {"detach", "archive", "unarchive", "delete", "write"}
        /\ request'[r].parent = NoCard
    BY <1>5, <1>2 DEF ReadForDetach, ReadForArchive, ReadForUnarchive, ReadForDelete,
       ReadForStatus, ReadForComplete
  <2> QED BY <2>1 DEF Placed
<1> QED BY <1>1, <1>3, <1>4, <1>5

\* As long as nothing was restored and requests have not overlapped, every
\* step keeps the tree at two levels.
LEMMA DepthStep == DepthInv /\ [Next]_vars => DepthInv'
<1> SUFFICES ASSUME DepthInv, [Next]_vars, history' = {} PROVE Level'
  BY AcyclicStep DEF DepthInv
<1>0. history = {}
  <2>1. ASSUME NEW r \in Requests, Reads(r) PROVE history \subseteq history'
    BY <2>1 DEF Reads, ReadForCreate, AttachReadParent, ReadForDetach, ReadForArchive,
       ReadForUnarchive, ReadForDelete, ReadForStatus, ReadForComplete, Begin
  <2>2. ASSUME NEW r \in Requests, Writes(r) PROVE history \subseteq history'
    BY <2>2 DEF Writes, Create, AttachReadChild, AttachCount, AttachRefused, Attach, Detach,
       Archive, Unarchive, DeletePermanently, WriteStatus, Goto, End
  <2> QED BY <2>1, <2>2 DEF Next, vars
<1>i. CompletionInv /\ Orderly /\ Level
  BY <1>0 DEF DepthInv, AcyclicInv
<1>a. ASSUME NEW r \in Requests, Release(r), request[r] # None
      PROVE  \A t \in Requests : request'[t] = None
  BY <1>i, <1>a DEF Release, Orderly, Exclusive, CompletionInv, TypeOK
<1>1. ASSUME NEW r \in Requests, Reads(r) PROVE Level'
  <2>1. UNCHANGED rows /\ \A t \in Requests : t # r => request'[t] = request[t]
    BY <1>i, <1>1, ReadStep DEF CompletionInv, TypeOK
  <2>2. \A t \in Requests : t # r => request'[t] = None
    BY <1>i, <1>1, <2>1, ReadStep DEF Noted
  <2>3. Placed(request[r])'
    BY <1>i, <1>1, <2>1, ReadPlaced DEF Placed, Subcards, Active, rows
  <2>4. DepthTwo' /\ \A k \in created' : parent'[k] \in created' \cup {NoCard}
    BY <1>i, <2>1 DEF Level, DepthTwo, Active, rows
  <2> QED BY <2>2, <2>3, <2>4 DEF Level
<1>2. ASSUME NEW r \in Requests, Writes(r) PROVE Level'
  <2>0. ASSUME request[r] # None
        PROVE  /\ request[r].card \in Cards
               /\ request[r].parent \in Cards \cup {NoCard}
               /\ Checked(request[r])
               /\ Rooted(request[r])
               /\ Placed(request[r])
    BY <1>i, <2>0 DEF Level, Orderly, CompletionInv, TypeOK, Request
  <2>t. /\ parent \in [Cards -> Cards \cup {NoCard}] /\ created \subseteq Cards
        /\ archived \subseteq created /\ deleted \subseteq created
    BY <1>i DEF CompletionInv, TypeOK
  <2>1. CASE Create(r)
    <3>1. /\ request[r] # None /\ request[r].step = "create" /\ Release(r)
          /\ created' = created \cup {request[r].card}
          /\ parent' = [parent EXCEPT ![request[r].card] = request[r].parent]
          /\ archived' = archived /\ deleted' = deleted
      BY <2>1 DEF Create, At, End
    <3>2. /\ request[r].card \notin created
          /\ request[r].card # request[r].parent
          /\ request[r].parent # NoCard =>
                request[r].parent \in created /\ parent[request[r].parent] = NoCard
      BY <3>1, <2>0 DEF Placed, Rooted
    <3>3. \A k \in created' : parent'[k] \in created' \cup {NoCard}
      BY <1>i, <2>t, <2>0, <3>1, <3>2 DEF Level
    <3>4. ASSUME NEW c \in Active', parent'[c] \in Active'
          PROVE  parent'[parent'[c]] = NoCard
      <4>1. CASE c = request[r].card
        BY <2>0, <2>t, <3>1, <3>2, <3>4, <4>1, NoCardIsNoCard DEF Active
      <4>2. CASE c # request[r].card
        <5>1. c \in Active /\ parent'[c] = parent[c] /\ parent[c] \in created \cup {NoCard}
          BY <1>i, <2>t, <3>1, <3>4, <4>2 DEF Active, Level
        <5>2. parent[c] \in Active
          BY <2>0, <2>t, <3>1, <3>2, <3>4, <5>1, NoCardIsNoCard DEF Active
        <5>3. parent[c] # request[r].card /\ parent[c] \in Cards
          BY <2>t, <3>2, <5>2 DEF Active
        <5> QED BY <1>i, <2>t, <2>0, <3>1, <5>1, <5>2, <5>3 DEF Level, DepthTwo
      <4> QED BY <4>1, <4>2
    <3> QED BY <1>a, <3>1, <3>3, <3>4 DEF Level, DepthTwo
  <2>2. CASE Attach(r)
    <3>1. /\ request[r] # None /\ request[r].step = "attach" /\ Release(r)
          /\ parent' = [parent EXCEPT ![request[r].card] = request[r].parent]
          /\ created' = created /\ archived' = archived /\ deleted' = deleted
      BY <2>2 DEF Attach, At, End
    <3>2. /\ Subcards(request[r].card) = {}
          /\ request[r].card # request[r].parent
          /\ request[r].parent # NoCard =>
                request[r].parent \in created /\ parent[request[r].parent] = NoCard
      BY <3>1, <2>0 DEF Placed, Rooted
    <3>3. \A k \in created' : parent'[k] \in created' \cup {NoCard}
      BY <1>i, <2>t, <2>0, <3>1, <3>2 DEF Level
    <3>4. ASSUME NEW c \in Active', parent'[c] \in Active'
          PROVE  parent'[parent'[c]] = NoCard
      <4>0. Active' = Active /\ Active \subseteq Cards
        BY <2>t, <3>1 DEF Active
      <4>1. CASE c = request[r].card
        BY <2>0, <2>t, <3>1, <3>2, <3>4, <4>0, <4>1, NoCardIsNoCard
      <4>2. CASE c # request[r].card
        <5>1. parent'[c] = parent[c] /\ parent[c] # request[r].card
          BY <2>t, <3>1, <3>2, <3>4, <4>0, <4>2 DEF Subcards
        <5> QED BY <1>i, <2>t, <3>1, <3>4, <4>0, <5>1 DEF Level, DepthTwo
      <4> QED BY <4>1, <4>2
    <3> QED BY <1>a, <3>1, <3>3, <3>4 DEF Level, DepthTwo
  <2>3. CASE Detach(r)
    <3>1. /\ request[r] # None /\ Release(r)
          /\ parent' = [parent EXCEPT ![request[r].card] = NoCard]
          /\ created' = created /\ archived' = archived /\ deleted' = deleted
      BY <2>3 DEF Detach, At, End
    <3>2. Active' = Active /\ Active \subseteq Cards
      BY <2>t, <3>1 DEF Active
    <3>3. DepthTwo' /\ \A k \in created' : parent'[k] \in created' \cup {NoCard}
      BY <1>i, <2>t, <2>0, <3>1, <3>2, NoCardIsNoCard DEF Level, DepthTwo
    <3> QED BY <1>a, <3>1, <3>3 DEF Level
  <2>4. CASE AttachReadChild(r) \/ AttachCount(r)
    <3>1. /\ UNCHANGED rows /\ request[r] # None
          /\ request'[r].step \in {"count", "attach"}
          /\ request'[r].card = request[r].card /\ request'[r].parent = request[r].parent
          /\ \A t \in Requests : t # r => request'[t] = request[t]
      BY <1>i, <2>4 DEF AttachReadChild, AttachCount, At, Goto, CompletionInv, TypeOK
    <3>2. request'[r].step = "attach" => Subcards(request[r].card) = {}
      BY <1>i, <2>4 DEF AttachReadChild, AttachCount, At, Goto, CompletionInv, TypeOK
    <3>3. Placed(request[r])'
      BY <2>0, <3>1, <3>2 DEF Placed, Subcards, Active, rows
    <3>4. DepthTwo' /\ \A k \in created' : parent'[k] \in created' \cup {NoCard}
      BY <1>i, <3>1 DEF Level, DepthTwo, Active, rows
    <3>5. \A t \in Requests : t # r => request'[t] = None
      BY <1>i, <3>1 DEF Orderly, Exclusive
    <3> QED BY <3>3, <3>4, <3>5 DEF Level
  <2>5. CASE AttachRefused(r) \/ Archive(r) \/ DeletePermanently(r) \/ WriteStatus(r)
    <3>1. /\ request[r] # None /\ Release(r)
          /\ parent' = parent /\ created' = created /\ Active' \subseteq Active
      BY <2>5 DEF AttachRefused, Archive, DeletePermanently, WriteStatus, At, End, Active, rows
    <3>2. DepthTwo' /\ \A k \in created' : parent'[k] \in created' \cup {NoCard}
      BY <1>i, <3>1 DEF Level, DepthTwo
    <3> QED BY <1>a, <3>1, <3>2 DEF Level
  <2>6. CASE Unarchive(r)
    BY <2>6 DEF Unarchive
  <2> QED BY <1>2, <2>1, <2>2, <2>3, <2>4, <2>5, <2>6 DEF Writes
<1>3. CASE UNCHANGED vars
  BY <1>i, <1>3 DEF vars, rows, Level, DepthTwo, Active, Placed, Subcards
<1> QED BY <1>1, <1>2, <1>3 DEF Next

\* Until two requests have overlapped or a card was restored, an active subcard
\* of an active card has no subcards of its own, for any number of cards and
\* across create, attach, detach, archive and delete.
THEOREM UnrestoredDepthTwo == Spec => []DepthTwoUnrestored
<1>1. Init => DepthInv
  BY NoCardIsNoCard, NoneIsNoRequest
     DEF Init, DepthInv, Level, DepthTwo, Active, AcyclicInv, Orderly, Exclusive,
         CompletionInv, TypeOK, CompleteMatchesStatus, NoCycle, Statuses
<1>2. DepthInv => DepthTwoUnrestored
  BY DEF DepthInv, Level, DepthTwoUnrestored
<1> QED BY <1>1, <1>2, DepthStep, PTL DEF Spec
=============================================================================
