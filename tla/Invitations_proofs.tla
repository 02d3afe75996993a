------------------------- MODULE Invitations_proofs -------------------------
(***************************************************************************)
(* Proofs about Invitations: joining by invitation is a step of            *)
(* WorkspaceMembership, so that what is proved there carries over; one     *)
(* open invitation per address; single use; and who may invite whom.       *)
(***************************************************************************)
EXTENDS Invitations, TLAPS, FiniteSetTheorems

-----------------------------------------------------------------------------
(* Membership: until two requests have overlapped, ownerId names an owner, and
   only owners make or unmake owners, for any number of users and of
   invitations accepted at any moment. *)

\* After the gate on the actor's role.
Late == {"count", "workspace", "other", "assign", "write"}

\* What the guards and the gate have established about who asked.
Entitled(q) ==
    /\ (q.op = "transfer") <=> (q.step \in {"current", "target", "commit"})
    /\ q.op \in {"update", "remove"} => role[q.actor] \in {"owner", "admin"}
    /\ q.op \in {"update", "remove"} /\ q.step \in Late /\ Gated(q) => role[q.actor] = "owner"
    /\ q.op = "leave" => q.actor = q.user
    /\ q.op = "transfer" => role[q.actor] = "owner"

\* What the reads have established about the user, the owners and ownerId.
Known(q) ==
    /\ q.step \in Late \cup {"actor"} => q.was = role[q.user] /\ q.was # None
    /\ q.step \in {"workspace", "other"} => \E o \in Owners : o # q.user
    /\ q.step = "assign" => q.next \in Owners /\ q.next # q.user
    /\ (q.step = "write" /\ EndsOwnership(q.op, role[q.user], q.to)) => ownerId # q.user

\* At most one request is in progress.
Exclusive ==
    \A r, s \in Requests : request[r] # None /\ request[s] # None => r = s

\* The invariant of the states before any overlap.
SerialInv ==
    /\ TypeOK
    /\ OwnerIdIsOwner
    /\ Exclusive
    /\ \A r \in Requests : request[r] # None => Entitled(request[r]) /\ Known(request[r])

-----------------------------------------------------------------------------
\* countOwners > 1 means that whoever is excluded, findOtherOwner finds one.
LEMMA AnotherOwner ==
    ASSUME NEW u, OwnerCount > 1
    PROVE  \E o \in Owners : o # u
<1> SUFFICES ASSUME \A o \in Owners : o = u
             PROVE  FALSE
  OBVIOUS
<1>1. Owners \subseteq {u}
  OBVIOUS
<1>2. IsFiniteSet({u}) /\ Cardinality({u}) = 1
  BY FS_Singleton
<1>3. Cardinality(Owners) \in Nat /\ Cardinality(Owners) <= 1
  BY <1>1, <1>2, FS_Subset, FS_CardinalityType
<1> QED BY <1>3 DEF OwnerCount

\* The read steps of updateMemberRole, removeMember and leaveWorkspace.
ManageStep(r) ==
    ReadMember(r) \/ ReadActor(r) \/ CountOwners(r) \/ ReadWorkspace(r) \/ FindOtherOwner(r)

\* A request that moves on without writing, with what it now knows.
MovesOn(r) ==
    /\ UNCHANGED rows
    /\ \E q \in Request :
          Entitled(q) /\ Known(q) /\ request' = [request EXCEPT ![r] = q]

\* What holds of every reachable state: nothing is claimed after an overlap.
MembershipInv == ~raced => SerialInv

\* The guards let a request in with what they checked.
LEMMA StartStep ==
    ASSUME SerialInv, NEW r \in Requests, NEW op \in Ops, NEW a \in Users,
           NEW u \in Users, NEW to \in Roles, Start(r, op, a, u, to)
    PROVE  MovesOn(r)
<1> DEFINE q == [op |-> op, step |-> IF op = "transfer" THEN "current" ELSE "member",
                 actor |-> a, user |-> u, to |-> to, id |-> 0, was |-> None,
                 actorId |-> 0, next |-> None]
<1>1. q \in Request
  BY DEF Request, Steps
<1>2. /\ q.op = op /\ q.actor = a /\ q.user = u
      /\ q.step = IF op = "transfer" THEN "current" ELSE "member"
  OBVIOUS
<1>3. Entitled(q)
  BY <1>2, OpsAreKnown DEF Start, Permitted, Entitled, Late
<1>4. Known(q)
  BY <1>2 DEF Known, Late
<1>5. request' = [request EXCEPT ![r] = q] /\ UNCHANGED rows
  BY DEF Start
<1> HIDE DEF q
<1> QED BY <1>1, <1>3, <1>4, <1>5 DEF MovesOn

\* The steps that leave everything but the step of the request alone.
LEMMA GotoStep ==
    ASSUME SerialInv, NEW r \in Requests, request[r] # None, NEW step \in Steps,
           Goto(r, step), UNCHANGED rows,
           step \in Late, request[r].step \in Late \cup {"actor"},
           /\ request[r].op \in {"update", "remove"} /\ Gated(request[r])
              => role[request[r].actor] = "owner",
           step \in {"workspace", "other"} => \E o \in Owners : o # request[r].user,
           step # "assign",
           step = "write" => (EndsOwnership(request[r].op, role[request[r].user], request[r].to)
                              => ownerId # request[r].user)
    PROVE  MovesOn(r)
<1> DEFINE p == request[r]
           q == [op |-> p.op, step |-> step, actor |-> p.actor, user |-> p.user, to |-> p.to,
                 id |-> p.id, was |-> p.was, actorId |-> p.actorId, next |-> p.next]
<1>1. p \in Request /\ Entitled(p) /\ Known(p)
  BY DEF SerialInv, TypeOK
<1>2. q \in Request
  BY <1>1 DEF Request
<1>3. /\ q.op = p.op /\ q.step = step /\ q.actor = p.actor /\ q.user = p.user
      /\ q.to = p.to /\ q.was = p.was /\ q.next = p.next
  OBVIOUS
<1>4. request' = [request EXCEPT ![r] = q]
  BY DEF Goto, SerialInv, TypeOK
<1>5. p.op # "transfer"
  BY <1>1 DEF Entitled, Late
<1>6. Gated(q) <=> Gated(p)
  BY <1>3 DEF Gated
<1> HIDE DEF q
<1>7. Entitled(q)
  BY <1>1, <1>3, <1>5, <1>6 DEF Entitled, Late
<1>8. Known(q)
  BY <1>1, <1>3 DEF Known, Late
<1> QED BY <1>2, <1>4, <1>7, <1>8 DEF MovesOn

\* The reads of updateMemberRole, removeMember and leaveWorkspace.
LEMMA ManageReads ==
    ASSUME SerialInv, NEW r \in Requests, ManageStep(r)
    PROVE  MovesOn(r) /\ request[r] # None
<1> DEFINE p == request[r]
<1>0. request[r] # None
  BY DEF ManageStep, ReadMember, ReadActor, CountOwners, ReadWorkspace, FindOtherOwner, At
<1>1. p \in Request /\ Entitled(p) /\ Known(p)
  BY <1>0 DEF SerialInv, TypeOK
<1>2. CASE ReadMember(r)
  <2> DEFINE was == role[p.user]
             q == [op |-> p.op, actor |-> p.actor, user |-> p.user, to |-> p.to,
                   step |-> IF p.op # "leave" THEN "actor"
                            ELSE IF was = "owner" THEN "count" ELSE "write",
                   id |-> rowId[p.user], was |-> was, actorId |-> 0, next |-> None]
  <2>1. /\ p.step = "member" /\ was # None
        /\ request' = [request EXCEPT ![r] = q] /\ UNCHANGED rows
    BY <1>2 DEF ReadMember, At
  <2>2. p.user \in Users /\ was \in Roles /\ rowId[p.user] \in Nat
    BY <1>1, <2>1 DEF SerialInv, TypeOK, Request
  <2>3. q \in Request
    BY <1>1, <2>2 DEF Request, Steps
  <2>4. /\ q.op = p.op /\ q.actor = p.actor /\ q.user = p.user /\ q.to = p.to
        /\ q.was = was
        /\ q.step = IF p.op # "leave" THEN "actor"
                    ELSE IF was = "owner" THEN "count" ELSE "write"
    OBVIOUS
  <2> HIDE DEF q
  <2>5. Entitled(q)
    BY <1>1, <2>1, <2>4 DEF Entitled, Late
  <2>6. Known(q)
    BY <1>1, <2>1, <2>4 DEF Known, Late, EndsOwnership
  <2> QED BY <1>0, <2>1, <2>3, <2>5, <2>6 DEF MovesOn
<1>3. CASE ReadActor(r)
  <2>1. /\ p.step = "actor" /\ ~(role[p.actor] = "admin" /\ Gated(p)) /\ UNCHANGED rows
        /\ Goto(r, IF EndsOwnership(p.op, p.was, p.to) THEN "count" ELSE "write")
    BY <1>3 DEF ReadActor, At
  <2>2. p.was = role[p.user]
    BY <1>1, <2>1 DEF Known
  <2>3. p.op \in {"update", "remove"} /\ Gated(p) => role[p.actor] = "owner"
    BY <1>1, <2>1 DEF Entitled
  <2>4. CASE EndsOwnership(p.op, p.was, p.to)
    <3>1. Goto(r, "count")
      BY <2>1, <2>4
    <3> QED BY <1>0, <2>1, <2>3, <3>1, GotoStep DEF Steps, Late
  <2>5. CASE ~EndsOwnership(p.op, p.was, p.to)
    <3>1. Goto(r, "write")
      BY <2>1, <2>5
    <3> QED BY <1>0, <2>1, <2>2, <2>3, <2>5, <3>1, GotoStep DEF Steps, Late
  <2> QED BY <1>0, <2>4, <2>5
<1>4. ASSUME p.step \in Late
      PROVE  p.op \in {"update", "remove"} /\ Gated(p) => role[p.actor] = "owner"
  BY <1>1, <1>4 DEF Entitled
<1>5. CASE CountOwners(r)
  <2>1. p.step = "count" /\ OwnerCount > 1 /\ UNCHANGED rows /\ Goto(r, "workspace")
    BY <1>5 DEF CountOwners, At
  <2>2. \E o \in Owners : o # p.user
    BY <2>1, AnotherOwner
  <2> QED BY <1>0, <1>4, <2>1, <2>2, GotoStep DEF Steps, Late
<1>6. CASE ReadWorkspace(r)
  <2>1. /\ p.step = "workspace" /\ UNCHANGED rows
        /\ Goto(r, IF ownerId = p.user THEN "other" ELSE "write")
    BY <1>6 DEF ReadWorkspace, At
  <2>2. \E o \in Owners : o # p.user
    BY <1>1, <2>1 DEF Known
  <2>3. CASE ownerId = p.user
    <3>1. Goto(r, "other")
      BY <2>1, <2>3
    <3> QED BY <1>0, <1>4, <2>1, <2>2, <3>1, GotoStep DEF Steps, Late
  <2>4. CASE ownerId # p.user
    <3>1. Goto(r, "write")
      BY <2>1, <2>4
    <3> QED BY <1>0, <1>4, <2>1, <2>4, <3>1, GotoStep DEF Steps, Late
  <2> QED BY <1>0, <2>3, <2>4
<1>7. CASE FindOtherOwner(r)
  <2>1. p.step = "other" /\ UNCHANGED rows
    BY <1>7 DEF FindOtherOwner, At
  <2>2. \E o \in Owners : o # p.user
    BY <1>1, <2>1 DEF Known
  <2>3. PICK o \in Owners \ {p.user} :
          request' = [request EXCEPT ![r] =
              [op |-> p.op, step |-> "assign", actor |-> p.actor, user |-> p.user,
               to |-> p.to, id |-> p.id, was |-> p.was, actorId |-> p.actorId,
               next |-> o]]
    BY <1>7, <2>2 DEF FindOtherOwner
  <2> DEFINE q == [op |-> p.op, step |-> "assign", actor |-> p.actor, user |-> p.user,
                   to |-> p.to, id |-> p.id, was |-> p.was, actorId |-> p.actorId,
                   next |-> o]
  <2>4. q \in Request
    BY <1>1 DEF Request, Steps, Owners
  <2>5. /\ q.op = p.op /\ q.step = "assign" /\ q.actor = p.actor /\ q.user = p.user
        /\ q.to = p.to /\ q.was = p.was /\ q.next = o
    OBVIOUS
  <2>6. request' = [request EXCEPT ![r] = q]
    BY <2>3
  <2>7. Gated(q) <=> Gated(p)
    BY <2>5 DEF Gated
  <2> HIDE DEF q
  <2>8. Entitled(q)
    BY <1>1, <2>1, <2>5, <2>7 DEF Entitled, Late
  <2>9. Known(q)
    BY <1>1, <2>1, <2>5 DEF Known, Late
  <2> QED BY <1>0, <2>1, <2>4, <2>6, <2>8, <2>9 DEF MovesOn
<1> QED BY <1>2, <1>3, <1>5, <1>6, <1>7 DEF ManageStep

\* The reads of transferOwnership.
LEMMA TransferReads ==
    ASSUME SerialInv, NEW r \in Requests, ReadCurrent(r) \/ ReadTarget(r)
    PROVE  MovesOn(r) /\ request[r] # None
<1> DEFINE p == request[r]
<1>0. request[r] # None
  BY DEF ReadCurrent, ReadTarget, At
<1>1. p \in Request /\ Entitled(p)
  BY <1>0 DEF SerialInv, TypeOK
<1>2. /\ p.user \in Users /\ role[p.user] \in Roles \cup {None}
      /\ rowId[p.user] \in Nat /\ rowId[p.actor] \in Nat
  BY <1>1 DEF SerialInv, TypeOK, Request
<1>3. CASE ReadCurrent(r)
  <2> DEFINE q == [op |-> p.op, step |-> "target", actor |-> p.actor, user |-> p.user,
                   to |-> p.to, id |-> 0, was |-> None, actorId |-> rowId[p.actor],
                   next |-> None]
  <2>1. /\ p.step = "current" /\ role[p.actor] = "owner"
        /\ request' = [request EXCEPT ![r] = q] /\ UNCHANGED rows
    BY <1>3 DEF ReadCurrent, At
  <2>2. q \in Request
    BY <1>1, <1>2 DEF Request, Steps
  <2>3. q.op = p.op /\ q.step = "target" /\ q.actor = p.actor
    OBVIOUS
  <2> HIDE DEF q
  <2>4. Entitled(q) /\ Known(q)
    BY <1>1, <2>1, <2>3 DEF Entitled, Known, Late
  <2> QED BY <1>0, <2>1, <2>2, <2>4 DEF MovesOn
<1>4. CASE ReadTarget(r)
  <2> DEFINE q == [op |-> p.op, step |-> "commit", actor |-> p.actor, user |-> p.user,
                   to |-> p.to, id |-> rowId[p.user], was |-> role[p.user],
                   actorId |-> p.actorId, next |-> None]
  <2>1. /\ p.step = "target" /\ request' = [request EXCEPT ![r] = q] /\ UNCHANGED rows
    BY <1>4 DEF ReadTarget, At
  <2>2. q \in Request
    BY <1>1, <1>2 DEF Request, Steps
  <2>3. q.op = p.op /\ q.step = "commit" /\ q.actor = p.actor
    OBVIOUS
  <2> HIDE DEF q
  <2>4. Entitled(q) /\ Known(q)
    BY <1>1, <2>1, <2>3 DEF Entitled, Known, Late
  <2> QED BY <1>0, <2>1, <2>2, <2>4 DEF MovesOn
<1> QED BY <1>3, <1>4

-----------------------------------------------------------------------------
\* A request that moves on keeps the invariant, if it is the only one.
LEMMA MovingOnKeeps ==
    ASSUME SerialInv, NEW r \in Requests, MovesOn(r), request[r] # None \/ Idle,
           raced' \in BOOLEAN
    PROVE  SerialInv'
<1>1. PICK q \in Request :
        Entitled(q) /\ Known(q) /\ request' = [request EXCEPT ![r] = q]
  BY DEF MovesOn
<1>2. UNCHANGED <<role, rowId, ownerId>>
  BY DEF MovesOn, rows
<1>3. TypeOK'
  BY <1>1, <1>2 DEF SerialInv, TypeOK
<1>4. OwnerIdIsOwner'
  BY <1>2 DEF SerialInv, OwnerIdIsOwner
<1>5. \A s \in Requests : s # r => request[s] = None /\ request'[s] = None
  BY <1>1 DEF SerialInv, Exclusive, Idle, TypeOK
<1>6. Exclusive'
  BY <1>5 DEF Exclusive
<1>7. Entitled(q)' /\ Known(q)'
  BY <1>1, <1>2 DEF Entitled, Known, Owners, Gated
<1>8. request'[r] = q
  BY <1>1 DEF SerialInv, TypeOK
<1>9. \A s \in Requests : request'[s] # None => s = r
  BY <1>5
<1>10. Entitled(request[r])' /\ Known(request[r])'
  BY <1>7, <1>8
<1> QED BY <1>3, <1>4, <1>6, <1>9, <1>10 DEF SerialInv

\* A request that ends keeps the invariant if the rows it leaves are in order.
LEMMA EndingKeeps ==
    ASSUME SerialInv, NEW r \in Requests, request[r] # None, End(r),
           role' \in [Users -> Roles \cup {None}], UNCHANGED rowId, ownerId' \in Users,
           OwnerIdIsOwner'
    PROVE  SerialInv'
<1>1. \A s \in Requests : request'[s] = None
  BY DEF SerialInv, Exclusive, TypeOK, End
<1>2. TypeOK'
  BY DEF SerialInv, TypeOK, End
<1> QED BY <1>1, <1>2 DEF SerialInv, Exclusive

\* updateRole and removeMember's delete: an owner who loses the role is not
\* the one ownerId names.
LEMMA WriteKeeps ==
    ASSUME SerialInv, NEW r \in Requests, Write(r)
    PROVE  SerialInv'
<1> DEFINE p == request[r]
<1>1. /\ request[r] # None /\ p.step = "write" /\ End(r) /\ UNCHANGED <<rowId, ownerId>>
      /\ role' = [role EXCEPT ![p.user] = IF p.op = "update" THEN p.to ELSE None]
  BY DEF Write, At
<1>2. p \in Request /\ Known(p)
  BY <1>1 DEF SerialInv, TypeOK
<1>3. p.user \in Users /\ p.to \in Roles
  BY <1>2 DEF Request
<1>4. role' \in [Users -> Roles \cup {None}] /\ ownerId' \in Users
  BY <1>1, <1>3 DEF SerialInv, TypeOK
<1>5. CASE ownerId # p.user
  <2>1. OwnerIdIsOwner'
    BY <1>1, <1>3, <1>5 DEF SerialInv, TypeOK, OwnerIdIsOwner
  <2> QED BY <1>1, <1>4, <2>1, EndingKeeps
<1>6. CASE ownerId = p.user
  <2>1. role[p.user] = "owner"
    BY <1>6 DEF SerialInv, OwnerIdIsOwner
  <2>2. p.op = "update" /\ p.to = "owner"
    BY <1>1, <1>2, <1>6, <2>1 DEF Known, EndsOwnership
  <2>3. OwnerIdIsOwner'
    BY <1>1, <1>3, <1>6, <2>2 DEF SerialInv, TypeOK, OwnerIdIsOwner
  <2> QED BY <1>1, <1>4, <2>3, EndingKeeps
<1> QED BY <1>5, <1>6

\* The reassignment: the owner found is an owner, and another one.
LEMMA AssignKeeps ==
    ASSUME SerialInv, NEW r \in Requests, AssignOwner(r)
    PROVE  SerialInv'
<1> DEFINE p == request[r]
           q == [op |-> p.op, step |-> "write", actor |-> p.actor, user |-> p.user,
                 to |-> p.to, id |-> p.id, was |-> p.was, actorId |-> p.actorId,
                 next |-> p.next]
<1>1. /\ request[r] # None /\ p.step = "assign" /\ ownerId' = p.next
      /\ UNCHANGED <<role, rowId, raced>> /\ request' = [request EXCEPT ![r] = q]
  BY DEF AssignOwner, At, Goto, SerialInv, TypeOK
<1>2. p \in Request /\ Entitled(p) /\ Known(p)
  BY <1>1 DEF SerialInv, TypeOK
<1>3. p.next \in Owners /\ p.next # p.user
  BY <1>1, <1>2 DEF Known
<1>4. q \in Request
  BY <1>2 DEF Request, Steps
<1>5. TypeOK'
  BY <1>1, <1>3, <1>4 DEF SerialInv, TypeOK, Owners
<1>6. OwnerIdIsOwner'
  BY <1>1, <1>3 DEF OwnerIdIsOwner, Owners
<1>7. \A s \in Requests : s # r => request'[s] = None
  BY <1>1 DEF SerialInv, Exclusive, TypeOK
<1>8. request'[r] = q
  BY <1>1 DEF SerialInv, TypeOK
<1>9. /\ q.op = p.op /\ q.step = "write" /\ q.actor = p.actor /\ q.user = p.user
      /\ q.to = p.to /\ q.was = p.was
  OBVIOUS
<1>10. Entitled(request[r])' /\ Known(request[r])'
  BY <1>1, <1>2, <1>3, <1>8, <1>9 DEF Entitled, Known, Late, Gated
<1>11. Exclusive'
  BY <1>7 DEF Exclusive
<1> QED BY <1>5, <1>6, <1>7, <1>10, <1>11 DEF SerialInv

\* transferOwnership's transaction, also when both rows are the same.
LEMMA CommitKeeps ==
    ASSUME SerialInv, NEW r \in Requests, TransferCommit(r)
    PROVE  SerialInv'
<1> DEFINE p == request[r]
<1>1. /\ request[r] # None /\ End(r) /\ UNCHANGED rowId /\ ownerId' = p.user
      /\ role' = [role EXCEPT ![p.actor] = "admin", ![p.user] = "owner"]
  BY DEF TransferCommit, At
<1>2. p.user \in Users /\ p.actor \in Users
  BY <1>1 DEF SerialInv, TypeOK, Request
<1>3. role' \in [Users -> Roles \cup {None}] /\ role'[p.user] = "owner"
  BY <1>1, <1>2 DEF SerialInv, TypeOK, Roles
<1>4. OwnerIdIsOwner'
  BY <1>1, <1>3 DEF OwnerIdIsOwner
<1> QED BY <1>1, <1>2, <1>3, <1>4, EndingKeeps

\* acceptInvitation adds a row for someone who had none, which no request in
\* progress has read.
LEMMA JoinKeeps ==
    ASSUME SerialInv, NEW u \in Users, NEW as \in Roles, Join(u, as)
    PROVE  SerialInv'
<1>1. /\ role[u] = None /\ rowId[u] < MaxRows
      /\ role' = [role EXCEPT ![u] = as] /\ rowId' = [rowId EXCEPT ![u] = @ + 1]
      /\ UNCHANGED <<ownerId, request, raced>>
  BY DEF Join
<1>2. rowId' \in [Users -> 0 .. MaxRows]
  BY <1>1, MaxRowsIsPositive DEF SerialInv, TypeOK
<1>3. TypeOK'
  BY <1>1, <1>2 DEF SerialInv, TypeOK
<1>4. \A v \in Users : role[v] # None => role'[v] = role[v]
  BY <1>1 DEF SerialInv, TypeOK
<1>5. None \notin Roles
  BY NoneIsNothing
<1>6. OwnerIdIsOwner'
  BY <1>1, <1>4, <1>5 DEF SerialInv, TypeOK, OwnerIdIsOwner, Roles
<1>7. Owners \subseteq Owners'
  BY <1>4, <1>5 DEF Owners, Roles
<1>8. ASSUME NEW r \in Requests, request[r] # None
      PROVE  Entitled(request[r])' /\ Known(request[r])'
  <2> DEFINE p == request[r]
  <2>1. p \in Request /\ Entitled(p) /\ Known(p) /\ p' = p
    BY <1>1, <1>8 DEF SerialInv, TypeOK
  <2>2. p.user \in Users /\ p.actor \in Users
    BY <2>1 DEF Request
  <2>3. Entitled(request[r])'
    BY <1>4, <1>5, <2>1, <2>2 DEF Entitled, Gated, Roles
  <2>4. p.step \in Late \cup {"actor"} => role'[p.user] = role[p.user] /\ p.was = role[p.user]
    BY <1>4, <2>1, <2>2 DEF Known
  <2>5. Known(request[r])'
    BY <1>1, <1>7, <2>1, <2>2, <2>4 DEF Known, Late
  <2> QED BY <2>3, <2>5
<1> QED BY <1>1, <1>3, <1>6, <1>8 DEF SerialInv, Exclusive

\* A refused request changes nothing.
LEMMA RefusalKeeps ==
    ASSUME SerialInv, NEW r \in Requests, Refused(r) \/ TransferRefused(r)
    PROVE  SerialInv'
<1>1. request[r] # None /\ End(r) /\ UNCHANGED <<role, rowId, ownerId>>
  BY DEF Refused, TransferRefused, At, rows
<1>2. OwnerIdIsOwner'
  BY <1>1 DEF SerialInv, OwnerIdIsOwner
<1>3. role' \in [Users -> Roles \cup {None}] /\ ownerId' \in Users
  BY <1>1 DEF SerialInv, TypeOK
<1> QED BY <1>1, <1>2, <1>3, EndingKeeps

\* createWorkspaceWithOwner establishes the invariant.
LEMMA InitSerial == Init => SerialInv
<1> SUFFICES ASSUME Init PROVE SerialInv
  OBVIOUS
<1>a. raced \in BOOLEAN
  BY DEF Init
<1>b. /\ role \in [Users -> Roles \cup {None}] /\ rowId \in [Users -> 0 .. MaxRows]
      /\ ownerId \in Users /\ request \in [Requests -> Request \cup {None}]
  BY CreatorIsUser, MaxRowsIsPositive DEF Init, Roles
<1>1. TypeOK
  BY <1>a, <1>b DEF TypeOK
<1>2. OwnerIdIsOwner
  BY CreatorIsUser DEF Init, OwnerIdIsOwner
<1>3. \A r \in Requests : request[r] = None
  BY DEF Init
<1> QED BY <1>1, <1>2, <1>3 DEF SerialInv, Exclusive

\* Every step keeps it, or is the one that lets requests overlap.
LEMMA NextSerial == MembershipInv /\ [Next]_vars => MembershipInv'
<1> SUFFICES ASSUME MembershipInv, [Next]_vars, ~raced' PROVE SerialInv'
  BY DEF MembershipInv
<1>0. ASSUME ~raced PROVE SerialInv
  BY <1>0 DEF MembershipInv
<1>1. CASE UNCHANGED vars
  <2>1. SerialInv
    BY <1>0, <1>1 DEF vars
  <2> QED BY <1>1, <2>1 DEF SerialInv, TypeOK, OwnerIdIsOwner, Exclusive, Entitled, Known,
          Owners, Gated, vars, rows
<1>2. ASSUME NEW r \in Requests, NEW op \in Ops, NEW a \in Users, NEW u \in Users,
             NEW to \in Roles, Start(r, op, a, u, to)
      PROVE  SerialInv'
  <2>1. raced' = (raced \/ ~Idle)
    BY <1>2 DEF Start
  <2>2. Idle /\ ~raced /\ raced' \in BOOLEAN
    BY <2>1
  <2> QED BY <1>0, <1>2, <2>2, StartStep, MovingOnKeeps
<1>3. ASSUME NEW r \in Requests, ManageStep(r) \/ ReadCurrent(r) \/ ReadTarget(r)
      PROVE  SerialInv'
  <2>1. raced' = raced
    BY <1>3 DEF ManageStep, ReadMember, ReadActor, CountOwners, ReadWorkspace,
       FindOtherOwner, ReadCurrent, ReadTarget, Goto
  <2>2. SerialInv
    BY <1>0, <2>1
  <2>3. raced' \in BOOLEAN
    BY <2>1, <2>2 DEF SerialInv, TypeOK
  <2> QED BY <1>3, <2>2, <2>3, ManageReads, TransferReads, MovingOnKeeps
<1>4. ASSUME NEW r \in Requests,
             AssignOwner(r) \/ Write(r) \/ TransferCommit(r) \/ Refused(r) \/ TransferRefused(r)
      PROVE  SerialInv'
  <2>1. raced' = raced
    BY <1>4 DEF AssignOwner, Write, TransferCommit, Refused, TransferRefused, Goto, End
  <2> QED BY <1>0, <1>4, <2>1, AssignKeeps, WriteKeeps, CommitKeeps, RefusalKeeps
<1>5. ASSUME NEW u \in Users, NEW as \in Roles, Join(u, as)
      PROVE  SerialInv'
  BY <1>0, <1>5, JoinKeeps DEF Join
<1> QED BY <1>1, <1>2, <1>3, <1>4, <1>5 DEF Next, ManageStep

-----------------------------------------------------------------------------
\* Until two requests have overlapped, workspace.ownerId names a member who is
\* an owner, so that the workspace has one: the sole-owner checks and the
\* reassignment of updateMemberRole, removeMember and leaveWorkspace, and the
\* transaction of transferOwnership, are enough for any number of users.
THEOREM UnracedOwnership == Spec => []OwnerIdUnraced
<1>1. MembershipInv => OwnerIdUnraced
  BY DEF MembershipInv, SerialInv, OwnerIdUnraced
<1>2. Init => MembershipInv
  BY InitSerial DEF MembershipInv
<1> QED BY <1>1, <1>2, NextSerial, PTL DEF Spec

\* Until two requests have overlapped, a step that makes a member an owner, or
\* an owner something else, ends a request whose actor is an owner: the gate of
\* updateMemberRole and removeMember and the owner check of transferOwnership.
THEOREM UnracedOwnersMakeOwners == Spec => OwnersMakeOwners
<1> DEFINE A == \A u \in Users :
                  /\ ~raced /\ role[u] # None
                  /\ (role[u] = "owner") # (role'[u] = "owner")
                  => \E r \in Requests :
                        /\ request[r] # None /\ request'[r] = None
                        /\ role[request[r].actor] = "owner"
<1>1. ASSUME SerialInv, Next PROVE A
  <2>1. ASSUME NEW r \in Requests, Write(r) PROVE A
    <3> DEFINE p == request[r]
    <3>1. /\ request[r] # None /\ p.step = "write" /\ request'[r] = None
          /\ role' = [role EXCEPT ![p.user] = IF p.op = "update" THEN p.to ELSE None]
      BY <1>1, <2>1 DEF Write, At, End, SerialInv, TypeOK
    <3>2. p \in Request /\ Entitled(p) /\ Known(p)
      BY <1>1, <3>1 DEF SerialInv, TypeOK
    <3>3. p.op \in Ops /\ p.user \in Users /\ p.to \in Roles
      BY <3>2 DEF Request
    <3> SUFFICES ASSUME NEW u \in Users, role[u] # None,
                        (role[u] = "owner") # (role'[u] = "owner")
                 PROVE  role[p.actor] = "owner"
      BY <3>1
    <3>4. u = p.user
      BY <1>1, <3>1, <3>3 DEF SerialInv, TypeOK
    <3>5. role'[u] = IF p.op = "update" THEN p.to ELSE None
      BY <1>1, <3>1, <3>3, <3>4 DEF SerialInv, TypeOK
    <3>6. p.was = role[u]
      BY <3>1, <3>2, <3>4 DEF Known, Late
    <3>7. CASE p.op = "leave"
      BY <3>2, <3>4, <3>5, <3>7, NoneIsNothing DEF Entitled, Roles
    <3>8. CASE p.op \in {"update", "remove"}
      <4>1. Gated(p)
        BY <3>5, <3>6, <3>8, NoneIsNothing DEF Gated, Roles
      <4> QED BY <3>1, <3>2, <3>8, <4>1 DEF Entitled, Late
    <3>9. p.op # "transfer"
      BY <3>1, <3>2 DEF Entitled
    <3> QED BY <3>3, <3>7, <3>8, <3>9, OpsAreKnown
  <2>2. ASSUME NEW r \in Requests, TransferCommit(r) PROVE A
    <3>1. request[r] # None /\ request[r].step = "commit" /\ request'[r] = None
      BY <1>1, <2>2 DEF TransferCommit, At, End, SerialInv, TypeOK
    <3>2. role[request[r].actor] = "owner"
      BY <1>1, <3>1 DEF SerialInv, Entitled
    <3> QED BY <3>1, <3>2
  <2>3. ASSUME NEW u \in Users, NEW as \in Roles, Join(u, as) PROVE A
    <3>1. role[u] = None /\ role' = [role EXCEPT ![u] = as]
      BY <2>3 DEF Join
    <3>2. \A v \in Users : role[v] # None => role'[v] = role[v]
      BY <1>1, <3>1 DEF SerialInv, TypeOK
    <3> QED BY <3>2
  <2>4. ASSUME role' = role PROVE A
    BY <2>4
  <2>5. ASSUME NEW r \in Requests, NEW op \in Ops, NEW a \in Users, NEW u \in Users,
               NEW to \in Roles, Start(r, op, a, u, to)
        PROVE  role' = role
    BY <2>5 DEF Start, rows
  <2>6. ASSUME NEW r \in Requests,
               \/ ManageStep(r) \/ AssignOwner(r) \/ Refused(r)
               \/ ReadCurrent(r) \/ ReadTarget(r) \/ TransferRefused(r)
        PROVE  role' = role
    BY <2>6 DEF ManageStep, ReadMember, ReadActor, CountOwners, ReadWorkspace,
       FindOtherOwner, AssignOwner, Refused, ReadCurrent, ReadTarget, TransferRefused, rows
  <2> HIDE DEF A
  <2> QED BY <1>1, <2>1, <2>2, <2>3, <2>4, <2>5, <2>6 DEF Next, ManageStep
<1>2. MembershipInv /\ [Next]_vars => [A]_vars
  <2>1. raced => A
    OBVIOUS
  <2> HIDE DEF A
  <2> QED BY <1>1, <2>1 DEF MembershipInv
<1>3. Spec => []MembershipInv
  <2>1. Init => MembershipInv
    BY InitSerial DEF MembershipInv
  <2> QED BY <2>1, NextSerial, PTL DEF Spec
<1>4. [][A]_vars <=> OwnersMakeOwners
  BY DEF OwnersMakeOwners
<1> HIDE DEF A
<1> QED BY <1>2, <1>3, <1>4, PTL DEF Spec

-----------------------------------------------------------------------------
\* Type correctness, overlap or not; a request about to reassign ownerId has
\* found somebody to assign.
MembershipTyped ==
    /\ TypeOK
    /\ \A r \in Requests : At(r, "assign") => request[r].next \in Users

\* A request that is replaced by another one, without a write.
LEMMA ReplacedTyped ==
    ASSUME MembershipTyped, NEW r \in Requests, NEW q \in Request,
           request' = [request EXCEPT ![r] = q], raced' \in BOOLEAN, UNCHANGED rows,
           q.step = "assign" => q.next \in Users
    PROVE  MembershipTyped'
<1>1. TypeOK'
  BY DEF MembershipTyped, TypeOK, rows
<1>2. \A s \in Requests : request'[s] = IF s = r THEN q ELSE request[s]
  BY DEF MembershipTyped, TypeOK
<1> QED BY <1>1, <1>2 DEF MembershipTyped, At

\* Goto keeps everything but the step.
LEMMA GotoTyped ==
    ASSUME MembershipTyped, NEW r \in Requests, request[r] # None, NEW step \in Steps,
           step # "assign", Goto(r, step)
    PROVE  \E q \in Request :
               /\ request' = [request EXCEPT ![r] = q] /\ raced' \in BOOLEAN
               /\ q.step = step
<1> DEFINE p == request[r]
           q == [op |-> p.op, step |-> step, actor |-> p.actor, user |-> p.user, to |-> p.to,
                 id |-> p.id, was |-> p.was, actorId |-> p.actorId, next |-> p.next]
<1>1. p \in Request
  BY DEF MembershipTyped, TypeOK
<1>2. q \in Request /\ q.step = step
  BY <1>1 DEF Request
<1>3. request' = [request EXCEPT ![r] = q] /\ raced' \in BOOLEAN
  BY DEF Goto, MembershipTyped, TypeOK
<1> QED BY <1>2, <1>3

\* The end of a request, with or without a write.
LEMMA EndTyped ==
    ASSUME MembershipTyped, NEW r \in Requests, End(r),
           role' \in [Users -> Roles \cup {None}], rowId' = rowId, ownerId' \in Users
    PROVE  MembershipTyped'
<1>1. TypeOK'
  BY DEF MembershipTyped, TypeOK, End
<1>2. \A s \in Requests : request'[s] = IF s = r THEN None ELSE request[s]
  BY DEF MembershipTyped, TypeOK, End
<1> QED BY <1>1, <1>2 DEF MembershipTyped, At

\* Every step of a request, and every join, keeps the types.
LEMMA NextTyped == MembershipTyped /\ [Next]_vars => MembershipTyped'
<1> SUFFICES ASSUME MembershipTyped, [Next]_vars PROVE MembershipTyped'
  OBVIOUS
<1>t. /\ role \in [Users -> Roles \cup {None}] /\ rowId \in [Users -> 0 .. MaxRows]
      /\ ownerId \in Users /\ raced \in BOOLEAN /\ MaxRows \in Nat
  BY MaxRowsIsPositive DEF MembershipTyped, TypeOK
<1>n. \A u \in Users : rowId[u] \in Nat /\ role[u] \in Roles \cup {None}
  BY <1>t
<1>r. ASSUME NEW r \in Requests, request[r] # None
      PROVE  /\ request[r] \in Request
             /\ request[r].op \in Ops /\ request[r].actor \in Users /\ request[r].user \in Users
             /\ request[r].to \in Roles /\ request[r].id \in Nat
             /\ request[r].was \in Roles \cup {None} /\ request[r].actorId \in Nat
             /\ request[r].next \in Users \cup {None}
  <2>1. request[r] \in Request
    BY <1>r DEF MembershipTyped, TypeOK
  <2> QED BY <2>1 DEF Request
<1>1. CASE UNCHANGED vars
  BY <1>1 DEF vars, rows, MembershipTyped, TypeOK, At
<1>2. ASSUME NEW r \in Requests, NEW op \in Ops, NEW a \in Users, NEW u \in Users,
             NEW to \in Roles, Start(r, op, a, u, to)
      PROVE  MembershipTyped'
  <2> DEFINE q == [op |-> op, step |-> IF op = "transfer" THEN "current" ELSE "member",
                   actor |-> a, user |-> u, to |-> to, id |-> 0, was |-> None,
                   actorId |-> 0, next |-> None]
  <2>1. q \in Request /\ q.step # "assign"
    BY DEF Request, Steps
  <2>2. request' = [request EXCEPT ![r] = q] /\ UNCHANGED rows /\ raced' \in BOOLEAN
    BY <1>2, <1>t DEF Start
  <2> HIDE DEF q
  <2> QED BY <2>1, <2>2, ReplacedTyped
<1>3. ASSUME NEW r \in Requests, ReadMember(r)
      PROVE  MembershipTyped'
  <2> DEFINE p == request[r]
             q == [op |-> p.op, actor |-> p.actor, user |-> p.user, to |-> p.to,
                   step |-> IF p.op # "leave" THEN "actor"
                            ELSE IF role[p.user] = "owner" THEN "count" ELSE "write",
                   id |-> rowId[p.user], was |-> role[p.user], actorId |-> 0, next |-> None]
  <2>1. request[r] # None
    BY <1>3 DEF ReadMember, At
  <2>2. q \in Request /\ q.step # "assign"
    BY <1>n, <1>r, <2>1 DEF Request, Steps
  <2>3. request' = [request EXCEPT ![r] = q] /\ UNCHANGED rows /\ raced' \in BOOLEAN
    BY <1>3, <1>t DEF ReadMember
  <2> HIDE DEF q
  <2> QED BY <2>2, <2>3, ReplacedTyped
<1>4. ASSUME NEW r \in Requests, ReadActor(r) \/ CountOwners(r) \/ ReadWorkspace(r)
      PROVE  MembershipTyped'
  <2>1. /\ request[r] # None /\ UNCHANGED rows
        /\ \E step \in {"count", "write", "workspace", "other"} : Goto(r, step)
    BY <1>4 DEF ReadActor, CountOwners, ReadWorkspace, At
  <2> QED BY <2>1, GotoTyped, ReplacedTyped DEF Steps
<1>5. ASSUME NEW r \in Requests, FindOtherOwner(r)
      PROVE  MembershipTyped'
  <2>1. request[r] # None /\ UNCHANGED rows /\ raced' \in BOOLEAN
    BY <1>5, <1>t DEF FindOtherOwner, At
  <2>2. CASE Goto(r, "write")
    BY <2>1, <2>2, GotoTyped, ReplacedTyped DEF Steps
  <2>3. CASE ~Goto(r, "write")
    <3> DEFINE p == request[r]
               q(o) == [op |-> p.op, step |-> "assign", actor |-> p.actor, user |-> p.user,
                        to |-> p.to, id |-> p.id, was |-> p.was, actorId |-> p.actorId,
                        next |-> o]
    <3>1. PICK o \in Owners : request' = [request EXCEPT ![r] = q(o)]
      BY <1>5, <2>3 DEF FindOtherOwner
    <3>2. q(o) \in Request /\ q(o).next \in Users
      BY <1>r, <2>1 DEF Request, Steps, Owners
    <3> HIDE DEF q
    <3> QED BY <2>1, <3>1, <3>2, ReplacedTyped
  <2> QED BY <2>2, <2>3
<1>6. ASSUME NEW r \in Requests, AssignOwner(r)
      PROVE  MembershipTyped'
  <2>1. request[r] # None /\ ownerId' \in Users /\ UNCHANGED <<role, rowId>> /\ Goto(r, "write")
    BY <1>6 DEF AssignOwner, At, MembershipTyped
  <2>2. PICK q \in Request : /\ request' = [request EXCEPT ![r] = q] /\ raced' \in BOOLEAN
                             /\ q.step = "write"
    BY <2>1, GotoTyped DEF Steps
  <2>3. TypeOK'
    BY <2>1, <2>2 DEF MembershipTyped, TypeOK
  <2>4. \A s \in Requests : request'[s] = IF s = r THEN q ELSE request[s]
    BY <2>2 DEF MembershipTyped, TypeOK
  <2> QED BY <2>2, <2>3, <2>4 DEF MembershipTyped, At
<1>7. ASSUME NEW r \in Requests, Write(r)
      PROVE  MembershipTyped'
  <2>1. request[r] # None
    BY <1>7 DEF Write, At
  <2>2. role' \in [Users -> Roles \cup {None}]
    BY <1>7, <1>t, <1>r, <2>1 DEF Write
  <2> QED BY <1>7, <1>t, <2>2, EndTyped DEF Write
<1>8. ASSUME NEW r \in Requests, Refused(r) \/ TransferRefused(r)
      PROVE  MembershipTyped'
  BY <1>8, <1>t, EndTyped DEF Refused, TransferRefused, rows
<1>9. ASSUME NEW r \in Requests, ReadCurrent(r)
      PROVE  MembershipTyped'
  <2> DEFINE p == request[r]
             q == [op |-> p.op, step |-> "target", actor |-> p.actor, user |-> p.user,
                   to |-> p.to, id |-> 0, was |-> None, actorId |-> rowId[p.actor],
                   next |-> None]
  <2>1. request[r] # None
    BY <1>9 DEF ReadCurrent, At
  <2>2. q \in Request /\ q.step # "assign"
    BY <1>n, <1>r, <2>1 DEF Request, Steps
  <2>3. request' = [request EXCEPT ![r] = q] /\ UNCHANGED rows /\ raced' \in BOOLEAN
    BY <1>9, <1>t DEF ReadCurrent
  <2> HIDE DEF q
  <2> QED BY <2>2, <2>3, ReplacedTyped
<1>10. ASSUME NEW r \in Requests, ReadTarget(r)
       PROVE  MembershipTyped'
  <2> DEFINE p == request[r]
             q == [op |-> p.op, step |-> "commit", actor |-> p.actor, user |-> p.user,
                   to |-> p.to, id |-> rowId[p.user], was |-> role[p.user],
                   actorId |-> p.actorId, next |-> None]
  <2>1. request[r] # None
    BY <1>10 DEF ReadTarget, At
  <2>2. q \in Request /\ q.step # "assign"
    BY <1>n, <1>r, <2>1 DEF Request, Steps
  <2>3. request' = [request EXCEPT ![r] = q] /\ UNCHANGED rows /\ raced' \in BOOLEAN
    BY <1>10, <1>t DEF ReadTarget
  <2> HIDE DEF q
  <2> QED BY <2>2, <2>3, ReplacedTyped
<1>11. ASSUME NEW r \in Requests, TransferCommit(r)
       PROVE  MembershipTyped'
  <2>1. request[r] # None
    BY <1>11 DEF TransferCommit, At
  <2>2. role' \in [Users -> Roles \cup {None}] /\ ownerId' \in Users
    BY <1>11, <1>t, <1>r, <2>1 DEF TransferCommit, Roles
  <2> QED BY <1>11, <1>t, <2>2, EndTyped DEF TransferCommit
<1>12. ASSUME NEW u \in Users, NEW as \in Roles, Join(u, as)
       PROVE  MembershipTyped'
  <2>1. role' \in [Users -> Roles \cup {None}]
    BY <1>12, <1>t DEF Join
  <2>2. rowId' \in [Users -> 0 .. MaxRows]
    BY <1>12, <1>t, <1>n DEF Join
  <2> QED BY <1>12, <2>1, <2>2 DEF Join, MembershipTyped, TypeOK, At
<1> QED BY <1>1, <1>2, <1>3, <1>4, <1>5, <1>6, <1>7, <1>8, <1>9, <1>10, <1>11, <1>12 DEF Next

\* Type correctness of the membership requests, also when they overlap.
THEOREM MembershipTypes == Spec => []TypeOK
<1>1. Init => MembershipTyped
  BY InitSerial DEF Init, SerialInv, MembershipTyped, At
<1>2. MembershipTyped => TypeOK
  BY DEF MembershipTyped
<1> QED BY <1>1, <1>2, NextTyped, PTL DEF Spec

-----------------------------------------------------------------------------
(* Invitations *)

\* The steps of inviteMember, and those of acceptInvitation and
\* revokeInvitation.
Inviting == {"inviter", "invitee", "pending", "create"}
Using    == {"token", "member", "commit", "find", "revoke"}

\* What a call carries, and what its reads have established that overlapping
\* calls can only undo by being noted in the history.
Knows(q) ==
    /\ q.step \in Inviting => q.email \in Users /\ q.as \in Roles /\ q.invite = None
    /\ q.step \in Using => q.invite \in Stored /\ q.email = None
    /\ q.step \in {"member", "commit"} => invitation[q.invite].email = q.actor
    /\ q.step \in {"member", "commit", "revoke"} =>
          invitation[q.invite].status = "pending" \/ q.invite \in history.contested
    /\ q.step = "create" =>
          \A i \in Invites : Open(i) /\ invitation[i].email = q.email => q.email \in history.twins

\* Who invites passed the guards, and from the first read on the test of what
\* an admin may offer.
Authorised(q) ==
    q.step \in Inviting =>
        /\ role[q.actor] \in {"owner", "admin"}
        /\ q.step # "inviter" => InvitableBy(role[q.actor], q.as)

CallsKnow ==
    \A c \in Calls : call[c] # None => Knows(call[c])

CallsAuthorised ==
    \A c \in Calls : call[c] # None /\ c \notin history.changed => Authorised(call[c])

\* Two calls in progress on one address or one invitation have been noted.
RivalsNoted ==
    \A c, d \in Calls : c # d /\ call[c] # None /\ call[d] # None =>
        /\ call[c].email # None /\ call[c].email = call[d].email
              => call[c].email \in history.twins
        /\ call[c].invite # None /\ call[c].invite = call[d].invite
              => call[c].invite \in history.contested

\* An invitation that has admitted somebody is pending no more.
UsedUp == \A i \in history.used : i \in Stored /\ invitation[i].status # "pending"

InvitationsTyped ==
    /\ invitation \in [Invites -> Invitation \cup {None}]
    /\ call \in [Calls -> Call \cup {None}]
    /\ made \in 0 .. MaxCalls
    /\ history \in History

InvitationsInv ==
    /\ MembershipTyped
    /\ InvitationsTyped
    /\ CallsKnow /\ CallsAuthorised /\ RivalsNoted /\ UsedUp /\ OneOpenPerAddress

-----------------------------------------------------------------------------
(* Facts about the operators of the model *)

\* A stored invitation is a row with its columns.
LEMMA StoredParts ==
  ASSUME InvitationsTyped, NEW i \in Stored
  PROVE  /\ i \in Invites /\ invitation[i] \in Invitation
         /\ invitation[i].email \in Users /\ invitation[i].as \in Roles
         /\ invitation[i].status \in Statuses /\ invitation[i].expired \in BOOLEAN
<1>1. i \in Invites /\ invitation[i] \in Invitation
  BY DEF Stored, InvitationsTyped
<1>. QED
  BY <1>1 DEF Invitation

\* A call in progress has its fields.
LEMMA CallParts ==
  ASSUME InvitationsTyped, NEW c \in Calls, call[c] # None
  PROVE  /\ call[c] \in Call
         /\ call[c].step \in CallSteps /\ call[c].actor \in Users
         /\ call[c].email \in Users \cup {None} /\ call[c].as \in Roles \cup {None}
         /\ call[c].invite \in Invites \cup {None}
<1>1. call[c] \in Call
  BY DEF InvitationsTyped
<1>. QED
  BY <1>1 DEF Call

\* The history is a record of its four sets.
LEMMA HistoryParts ==
  ASSUME history \in History
  PROVE  /\ history.twins \subseteq Users /\ history.contested \subseteq Invites
         /\ history.used \subseteq Invites /\ history.changed \subseteq Calls
BY DEF History

\* Advance changes the step of one call and nothing else.
LEMMA AdvanceFacts ==
  ASSUME InvitationsTyped, NEW c \in Calls, call[c] # None, NEW s \in CallSteps,
         Advance(c, s)
  PROVE  /\ call' \in [Calls -> Call \cup {None}]
         /\ call'[c] # None /\ call'[c].step = s
         /\ call'[c].actor = call[c].actor /\ call'[c].email = call[c].email
         /\ call'[c].as = call[c].as /\ call'[c].invite = call[c].invite
         /\ \A d \in Calls \ {c} : call'[d] = call[d]
         /\ made' = made /\ history' = history
<1>. DEFINE q == [call[c] EXCEPT !.step = s]
<1>1. call[c] \in Call
  BY CallParts
<1>2. /\ q \in Call /\ q.step = s /\ q.actor = call[c].actor /\ q.email = call[c].email
      /\ q.as = call[c].as /\ q.invite = call[c].invite
  BY <1>1 DEF Call
<1>3. call' = [call EXCEPT ![c] = q] /\ made' = made /\ history' = history
  BY DEF Advance
<1>4. q # None
  BY <1>2, NoneIsNoRow
<1>. HIDE DEF q
<1>5. /\ call' \in [Calls -> Call \cup {None}] /\ call'[c] = q
      /\ \A d \in Calls \ {c} : call'[d] = call[d]
  BY <1>2, <1>3 DEF InvitationsTyped
<1>. QED
  BY <1>2, <1>3, <1>4, <1>5

\* Finish frees the slot and forgets that the actor's role changed.
LEMMA FinishFacts ==
  ASSUME InvitationsTyped, NEW c \in Calls, Finish(c)
  PROVE  /\ call' \in [Calls -> Call \cup {None}]
         /\ call'[c] = None
         /\ \A d \in Calls \ {c} : call'[d] = call[d]
         /\ made' = made /\ history' \in History
         /\ history'.twins = history.twins /\ history'.contested = history.contested
         /\ history'.used = history.used /\ history'.changed = history.changed \ {c}
<1>1. /\ call' \in [Calls -> Call \cup {None}] /\ call'[c] = None /\ made' = made
      /\ \A d \in Calls \ {c} : call'[d] = call[d]
  BY DEF Finish, InvitationsTyped
<1>2. history' = [history EXCEPT !.changed = @ \ {c}] /\ history \in History
  BY DEF Finish, InvitationsTyped
<1>. QED
  BY <1>1, <1>2 DEF History

\* Admits also notes that the invitation has been used.
LEMMA AdmitsFacts ==
  ASSUME InvitationsTyped, NEW c \in Calls, call[c] # None, call[c].invite \in Invites,
         Admits(c)
  PROVE  /\ call' \in [Calls -> Call \cup {None}]
         /\ call'[c] = None
         /\ \A d \in Calls \ {c} : call'[d] = call[d]
         /\ made' = made /\ history' \in History
         /\ history'.twins = history.twins /\ history'.contested = history.contested
         /\ history'.used = history.used \cup {call[c].invite}
         /\ history'.changed = history.changed \ {c}
<1>1. /\ call' \in [Calls -> Call \cup {None}] /\ call'[c] = None /\ made' = made
      /\ \A d \in Calls \ {c} : call'[d] = call[d]
  BY DEF Admits, InvitationsTyped
<1>2. /\ history' = [history EXCEPT !.used = @ \cup {call[c].invite}, !.changed = @ \ {c}]
      /\ history \in History
  BY DEF Admits, InvitationsTyped
<1>. QED
  BY <1>1, <1>2 DEF History

\* A call that begins notes the calls it overlaps with.
LEMMA BeginFacts ==
  ASSUME InvitationsTyped, NEW c \in Calls, NEW q \in Call, Begin(c, q)
  PROVE  /\ InvitationsTyped'
         /\ call[c] = None /\ call'[c] = q /\ q # None
         /\ \A d \in Calls \ {c} : call'[d] = call[d]
         /\ history.twins \subseteq history'.twins
         /\ history.contested \subseteq history'.contested
         /\ history'.used = history.used /\ history'.changed = history.changed
         /\ \A d \in Calls \ {c} : call[d] # None =>
              /\ q.email # None /\ call[d].email = q.email => q.email \in history'.twins
              /\ q.invite # None /\ call[d].invite = q.invite => q.invite \in history'.contested
         /\ UNCHANGED <<vars, invitation>>
<1>. DEFINE T == {u \in {q.email} \ {None} : Rival(c, LAMBDA d : d.email, u)}
            I == {i \in {q.invite} \ {None} : Rival(c, LAMBDA d : d.invite, i)}
<1>1. T \subseteq Users /\ I \subseteq Invites
  BY DEF Call
<1>2. /\ history' = [history EXCEPT !.twins = @ \cup T, !.contested = @ \cup I]
      /\ history \in History
  BY DEF Begin, InvitationsTyped
<1>3. \A d \in Calls \ {c} : call[d] # None =>
        /\ q.email # None /\ call[d].email = q.email => q.email \in T
        /\ q.invite # None /\ call[d].invite = q.invite => q.invite \in I
  BY DEF Rival
<1>. HIDE DEF T, I
<1>4. /\ history' \in History
      /\ history'.twins = history.twins \cup T
      /\ history'.contested = history.contested \cup I
      /\ history'.used = history.used /\ history'.changed = history.changed
  BY <1>1, <1>2 DEF History
<1>5. /\ call[c] = None /\ call'[c] = q /\ call' \in [Calls -> Call \cup {None}]
      /\ \A d \in Calls \ {c} : call'[d] = call[d]
      /\ UNCHANGED <<vars, invitation>>
  BY DEF Begin, InvitationsTyped
<1>6. made' \in 0 .. MaxCalls
  BY InviteBoundsAreNat DEF Begin, InvitationsTyped
<1>7. q # None
  BY NoneIsNoRow
<1>. QED
  BY <1>3, <1>4, <1>5, <1>6, <1>7 DEF InvitationsTyped

\* A new status changes no other column and no other row.
LEMMA SetStatusFacts ==
  ASSUME InvitationsTyped, NEW i \in Stored, NEW s \in Statuses, SetStatus(i, s)
  PROVE  /\ invitation' \in [Invites -> Invitation \cup {None}]
         /\ Stored' = Stored
         /\ invitation'[i].status = s
         /\ invitation'[i].email = invitation[i].email /\ invitation'[i].as = invitation[i].as
         /\ invitation'[i].expired = invitation[i].expired
         /\ \A j \in Invites \ {i} : invitation'[j] = invitation[j]
<1>. DEFINE q == [invitation[i] EXCEPT !.status = s]
<1>1. i \in Invites /\ invitation[i] \in Invitation /\ invitation[i] # None
  BY StoredParts DEF Stored
<1>2. /\ q \in Invitation /\ q.status = s /\ q.email = invitation[i].email
      /\ q.as = invitation[i].as /\ q.expired = invitation[i].expired
  BY <1>1 DEF Invitation
<1>3. invitation' = [invitation EXCEPT ![i] = q]
  BY DEF SetStatus
<1>4. q # None
  BY <1>2, NoneIsNoRow
<1>. HIDE DEF q
<1>5. /\ invitation' \in [Invites -> Invitation \cup {None}] /\ invitation'[i] = q
      /\ \A j \in Invites \ {i} : invitation'[j] = invitation[j]
  BY <1>1, <1>2, <1>3 DEF InvitationsTyped
<1>. QED
  BY <1>1, <1>2, <1>4, <1>5 DEF Stored

-----------------------------------------------------------------------------
(* The steps *)

\* A step that leaves the members alone keeps their types.
LEMMA MembersAlone ==
  ASSUME MembershipTyped, UNCHANGED vars
  PROVE  MembershipTyped' /\ role' = role
BY NextTyped DEF vars, rows

\* A call that moves on with what its read told it.
LEMMA AdvanceKeeps ==
  ASSUME InvitationsInv, NEW c \in Calls, call[c] # None, NEW s \in CallSteps,
         Advance(c, s), UNCHANGED <<vars, invitation>>,
         Knows(call'[c]), c \notin history.changed => Authorised(call'[c])
  PROVE  InvitationsInv'
<1>t. InvitationsTyped /\ MembershipTyped
  BY DEF InvitationsInv
<1>a. /\ call' \in [Calls -> Call \cup {None}]
      /\ call'[c] # None /\ call'[c].step = s
      /\ call'[c].actor = call[c].actor /\ call'[c].email = call[c].email
      /\ call'[c].as = call[c].as /\ call'[c].invite = call[c].invite
      /\ \A d \in Calls \ {c} : call'[d] = call[d]
      /\ made' = made /\ history' = history
  BY <1>t, AdvanceFacts
<1>b. MembershipTyped' /\ role' = role /\ invitation' = invitation
  BY <1>t, MembersAlone
<1>1. InvitationsTyped'
  BY <1>t, <1>a, <1>b DEF InvitationsTyped
<1>2. CallsKnow' /\ CallsAuthorised'
  <2>1. \A d \in Calls : call'[d] # None =>
          Knows(call'[d]) /\ (d \notin history.changed => Authorised(call'[d]))
    BY <1>a DEF InvitationsInv, CallsKnow, CallsAuthorised
  <2>2. \A d \in Calls : call'[d] # None =>
          Knows(call[d])' /\ (d \notin history.changed => Authorised(call[d])')
    BY <1>a, <1>b, <2>1 DEF Knows, Authorised, Open, Stored
  <2>. QED
    BY <1>a, <2>2 DEF CallsKnow, CallsAuthorised
<1>3. RivalsNoted'
  BY <1>a DEF InvitationsInv, RivalsNoted
<1>4. UsedUp' /\ OneOpenPerAddress'
  BY <1>a, <1>b DEF InvitationsInv, UsedUp, OneOpenPerAddress, Open, Stored
<1>. QED
  BY <1>1, <1>2, <1>3, <1>4, <1>b DEF InvitationsInv

\* The reads of the three operations.
ReadStep(c) ==
    \/ ReadInviter(c) \/ ReadInvitee(c) \/ FindPending(c)
    \/ FindByToken(c) \/ FindNoMember(c) \/ FindInvitation(c)

\* Each read establishes what the call relies on next.
LEMMA ReadKeeps ==
  ASSUME InvitationsInv, NEW c \in Calls, ReadStep(c)
  PROVE  InvitationsInv'
<1>0. call[c] # None
  BY DEF ReadStep, ReadInviter, ReadInvitee, FindPending, FindByToken, FindNoMember,
     FindInvitation, Reached
<1>t. InvitationsTyped
  BY DEF InvitationsInv
<1>k. Knows(call[c]) /\ (c \notin history.changed => Authorised(call[c]))
  BY <1>0 DEF InvitationsInv, CallsKnow, CallsAuthorised
<1>a. ASSUME NEW s \in CallSteps, Advance(c, s)
      PROVE  /\ call'[c].step = s
             /\ call'[c].actor = call[c].actor /\ call'[c].email = call[c].email
             /\ call'[c].as = call[c].as /\ call'[c].invite = call[c].invite
  BY <1>0, <1>t, <1>a, AdvanceFacts
<1>s. {"invitee", "pending", "create", "member", "commit", "revoke"} \subseteq CallSteps
  BY DEF CallSteps
<1>1. CASE ReadInviter(c)
  <2>1. Reached(c, "inviter") /\ Advance(c, "invitee") /\ UNCHANGED <<vars, invitation>>
    BY <1>1 DEF ReadInviter
  <2>2. Knows(call'[c])
    BY <1>k, <1>a, <1>s, <2>1 DEF Knows, Reached, Inviting, Using
  <2>3. c \notin history.changed => Authorised(call'[c])
    BY <1>1, <1>k, <1>a, <1>s, <2>1 DEF ReadInviter, Authorised, Reached, Inviting
  <2>. QED
    BY <1>0, <1>s, <2>1, <2>2, <2>3, AdvanceKeeps
<1>2. CASE ReadInvitee(c)
  <2>1. Reached(c, "invitee") /\ Advance(c, "pending") /\ UNCHANGED <<vars, invitation>>
    BY <1>2 DEF ReadInvitee
  <2>2. Knows(call'[c])
    BY <1>k, <1>a, <1>s, <2>1 DEF Knows, Reached, Inviting, Using
  <2>3. c \notin history.changed => Authorised(call'[c])
    BY <1>k, <1>a, <1>s, <2>1 DEF Authorised, Reached, Inviting
  <2>. QED
    BY <1>0, <1>s, <2>1, <2>2, <2>3, AdvanceKeeps
<1>3. CASE FindPending(c)
  <2>1. /\ Reached(c, "pending") /\ Advance(c, "create") /\ UNCHANGED <<vars, invitation>>
        /\ PendingFor(call[c].email) = {}
    BY <1>3 DEF FindPending
  <2>2. Knows(call'[c])
    BY <1>k, <1>a, <1>s, <2>1 DEF Knows, Reached, Inviting, Using, PendingFor
  <2>3. c \notin history.changed => Authorised(call'[c])
    BY <1>k, <1>a, <1>s, <2>1 DEF Authorised, Reached, Inviting
  <2>. QED
    BY <1>0, <1>s, <2>1, <2>2, <2>3, AdvanceKeeps
<1>4. CASE FindByToken(c)
  <2>1. /\ Reached(c, "token") /\ Advance(c, "member") /\ UNCHANGED <<vars, invitation>>
        /\ Admissible(call[c].actor, call[c].invite)
    BY <1>4 DEF FindByToken
  <2>2. Knows(call'[c])
    BY <1>k, <1>a, <1>s, <2>1 DEF Knows, Reached, Inviting, Using, Admissible, Open
  <2>3. Authorised(call'[c])
    BY <1>a, <1>s, <2>1 DEF Authorised, Inviting
  <2>. QED
    BY <1>0, <1>s, <2>1, <2>2, <2>3, AdvanceKeeps
<1>5. CASE FindNoMember(c)
  <2>1. Reached(c, "member") /\ Advance(c, "commit") /\ UNCHANGED <<vars, invitation>>
    BY <1>5 DEF FindNoMember
  <2>2. Knows(call'[c])
    BY <1>k, <1>a, <1>s, <2>1 DEF Knows, Reached, Inviting, Using
  <2>3. Authorised(call'[c])
    BY <1>a, <1>s, <2>1 DEF Authorised, Inviting
  <2>. QED
    BY <1>0, <1>s, <2>1, <2>2, <2>3, AdvanceKeeps
<1>6. CASE FindInvitation(c)
  <2>1. /\ Reached(c, "find") /\ Advance(c, "revoke") /\ UNCHANGED <<vars, invitation>>
        /\ Revocable(call[c].invite)
    BY <1>6 DEF FindInvitation
  <2>2. Knows(call'[c])
    BY <1>k, <1>a, <1>s, <2>1 DEF Knows, Reached, Inviting, Using, Revocable
  <2>3. Authorised(call'[c])
    BY <1>a, <1>s, <2>1 DEF Authorised, Inviting
  <2>. QED
    BY <1>0, <1>s, <2>1, <2>2, <2>3, AdvanceKeeps
<1>. QED
  BY <1>1, <1>2, <1>3, <1>4, <1>5, <1>6 DEF ReadStep

\* A call that begins with what its guards have checked.
LEMMA BeginKeeps ==
  ASSUME InvitationsInv, NEW c \in Calls, NEW q \in Call, Begin(c, q),
         Knows(q), Authorised(q)
  PROVE  InvitationsInv'
<1>t. InvitationsTyped /\ MembershipTyped
  BY DEF InvitationsInv
<1>a. /\ InvitationsTyped'
      /\ call[c] = None /\ call'[c] = q /\ q # None
      /\ \A d \in Calls \ {c} : call'[d] = call[d]
      /\ history.twins \subseteq history'.twins
      /\ history.contested \subseteq history'.contested
      /\ history'.used = history.used /\ history'.changed = history.changed
      /\ \A d \in Calls \ {c} : call[d] # None =>
           /\ q.email # None /\ call[d].email = q.email => q.email \in history'.twins
           /\ q.invite # None /\ call[d].invite = q.invite => q.invite \in history'.contested
      /\ UNCHANGED <<vars, invitation>>
  BY <1>t, BeginFacts
<1>b. MembershipTyped' /\ role' = role /\ invitation' = invitation
  BY <1>t, <1>a, MembersAlone
<1>1. \A d \in Calls : call'[d] # None =>
        Knows(call'[d]) /\ (d \notin history.changed => Authorised(call'[d]))
  BY <1>a DEF InvitationsInv, CallsKnow, CallsAuthorised
<1>2. \A d \in Calls : call'[d] # None =>
        Knows(call[d])' /\ (d \notin history'.changed => Authorised(call[d])')
  BY <1>a, <1>b, <1>1 DEF Knows, Authorised, Open, Stored
<1>3. CallsKnow' /\ CallsAuthorised'
  BY <1>2 DEF CallsKnow, CallsAuthorised
<1>4. RivalsNoted'
  BY <1>a DEF InvitationsInv, RivalsNoted
<1>5. UsedUp' /\ OneOpenPerAddress'
  BY <1>a, <1>b DEF InvitationsInv, UsedUp, OneOpenPerAddress, Open, Stored
<1>. QED
  BY <1>a, <1>b, <1>3, <1>4, <1>5 DEF InvitationsInv

\* A step that only closes invitations, or changes none, keeps one open
\* invitation per address.
OnlyCloses ==
    \A i \in Invites : Open(i)' => Open(i) /\ invitation'[i].email = invitation[i].email

\* The end of a call, whatever it wrote: what the other calls know survives a
\* write to an invitation only because both were noted as contesting it.
LEMMA EndKeeps ==
  ASSUME InvitationsInv, InvitationsTyped', MembershipTyped', NEW c \in Calls,
         call'[c] = None, \A d \in Calls \ {c} : call'[d] = call[d],
         history'.twins = history.twins, history'.contested = history.contested,
         history'.changed = history.changed \ {c},
         OnlyCloses, Stored' = Stored,
         \A i \in Stored :
            /\ invitation'[i].email = invitation[i].email
            /\ \/ invitation'[i].status = invitation[i].status
               \/ /\ call[c] # None /\ call[c].invite = i
                  /\ invitation'[i].status # "pending",
         \A i \in history'.used : i \in Stored /\ invitation'[i].status # "pending",
         \A u \in Users : role[u] # None => role'[u] = role[u]
  PROVE  InvitationsInv'
<1>t. InvitationsTyped /\ None \notin Invites
  BY NoneIsNoRow DEF InvitationsInv
<1>1. CallsKnow'
  <2>. SUFFICES ASSUME NEW d \in Calls, call'[d] # None
                PROVE  Knows(call[d])'
    BY DEF CallsKnow
  <2>1. d # c /\ call'[d] = call[d] /\ call[d] # None /\ Knows(call[d])
    BY DEF InvitationsInv, CallsKnow
  <2>2. call[d].step \in Using => call[d].invite \in Stored /\ call[d].invite # None
    BY <2>1, <1>t DEF Knows, Stored
  <2>3. call[d].step \in {"member", "commit", "revoke"} =>
          invitation'[call[d].invite].status = "pending" \/ call[d].invite \in history'.contested
    <3>. SUFFICES ASSUME call[d].step \in {"member", "commit", "revoke"},
                         call[d].invite \notin history.contested
                  PROVE  invitation'[call[d].invite].status = "pending"
      OBVIOUS
    <3>1. call[d].invite \in Stored /\ call[d].invite # None
      BY <2>2 DEF Using
    <3>2. invitation[call[d].invite].status = "pending"
      BY <2>1 DEF Knows
    <3>3. ~(call[c] # None /\ call[c].invite = call[d].invite)
      BY <2>1, <3>1 DEF InvitationsInv, RivalsNoted
    <3>. QED
      BY <3>1, <3>2, <3>3
  <2>4. call[d].step \in {"member", "commit"} =>
          invitation'[call[d].invite].email = call[d].actor
    BY <2>1, <2>2 DEF Knows, Using
  <2>5. call[d].step = "create" =>
          \A i \in Invites : Open(i)' /\ invitation'[i].email = call[d].email
              => call[d].email \in history'.twins
    BY <2>1 DEF Knows, OnlyCloses
  <2>. QED
    BY <2>1, <2>2, <2>3, <2>4, <2>5 DEF Knows
<1>2. CallsAuthorised'
  <2>. SUFFICES ASSUME NEW d \in Calls, call'[d] # None, d \notin history'.changed
                PROVE  Authorised(call[d])'
    BY DEF CallsAuthorised
  <2>1. d # c /\ call'[d] = call[d] /\ call[d] # None /\ Authorised(call[d])
    BY DEF InvitationsInv, CallsAuthorised
  <2>2. call[d].actor \in Users
    BY <1>t, <2>1, CallParts
  <2>3. role[call[d].actor] \in {"owner", "admin"} => role'[call[d].actor] = role[call[d].actor]
    BY <2>2, NoneIsNothing DEF Roles
  <2>. QED
    BY <2>1, <2>3 DEF Authorised
<1>3. RivalsNoted'
  BY DEF InvitationsInv, RivalsNoted
<1>4. UsedUp'
  BY DEF UsedUp
<1>5. OneOpenPerAddress'
  BY DEF InvitationsInv, OneOpenPerAddress, OnlyCloses
<1>. QED
  BY <1>1, <1>2, <1>3, <1>4, <1>5 DEF InvitationsInv

\* A refused call ends without a write.
LEMMA RefusedKeeps ==
  ASSUME InvitationsInv, NEW c \in Calls, CallRefused(c)
  PROVE  InvitationsInv'
<1>t. InvitationsTyped /\ MembershipTyped
  BY DEF InvitationsInv
<1>1. Finish(c) /\ UNCHANGED <<vars, invitation>>
  BY DEF CallRefused
<1>2. MembershipTyped' /\ role' = role
  BY <1>t, <1>1, MembersAlone
<1>3. /\ call' \in [Calls -> Call \cup {None}]
      /\ call'[c] = None
      /\ \A d \in Calls \ {c} : call'[d] = call[d]
      /\ made' = made /\ history' \in History
      /\ history'.twins = history.twins /\ history'.contested = history.contested
      /\ history'.used = history.used /\ history'.changed = history.changed \ {c}
  BY <1>t, <1>1, FinishFacts
<1>4. InvitationsTyped' /\ Stored' = Stored /\ OnlyCloses
  BY <1>t, <1>1, <1>3 DEF InvitationsTyped, Stored, Open, OnlyCloses
<1>5. \A i \in history'.used : i \in Stored /\ invitation'[i].status # "pending"
  BY <1>1, <1>3 DEF InvitationsInv, UsedUp
<1>. QED
  BY <1>1, <1>2, <1>3, <1>4, <1>5, EndKeeps

\* The revocation overwrites the status.
LEMMA RevokeKeeps ==
  ASSUME InvitationsInv, NEW c \in Calls, UpdateStatus(c)
  PROVE  InvitationsInv'
<1>t. InvitationsTyped /\ MembershipTyped
  BY DEF InvitationsInv
<1>. DEFINE i == call[c].invite
<1>1. /\ call[c] # None /\ call[c].step = "revoke"
      /\ SetStatus(i, "revoked") /\ Finish(c) /\ UNCHANGED vars
  BY DEF UpdateStatus, Reached
<1>2. i \in Stored
  BY <1>1 DEF InvitationsInv, CallsKnow, Knows, Using
<1>3. MembershipTyped' /\ role' = role
  BY <1>t, <1>1, MembersAlone
<1>4. /\ call' \in [Calls -> Call \cup {None}]
      /\ call'[c] = None
      /\ \A d \in Calls \ {c} : call'[d] = call[d]
      /\ made' = made /\ history' \in History
      /\ history'.twins = history.twins /\ history'.contested = history.contested
      /\ history'.used = history.used /\ history'.changed = history.changed \ {c}
  BY <1>t, <1>1, FinishFacts
<1>5. /\ invitation' \in [Invites -> Invitation \cup {None}]
      /\ Stored' = Stored
      /\ invitation'[i].status = "revoked"
      /\ invitation'[i].email = invitation[i].email
      /\ \A j \in Invites \ {i} : invitation'[j] = invitation[j]
  BY <1>t, <1>1, <1>2, SetStatusFacts DEF Statuses
<1>. HIDE DEF i
<1>6. InvitationsTyped'
  BY <1>t, <1>4, <1>5 DEF InvitationsTyped
<1>7. OnlyCloses
  BY <1>5 DEF OnlyCloses, Open
<1>8. \A j \in history'.used : j \in Stored /\ invitation'[j].status # "pending"
  BY <1>4, <1>5 DEF InvitationsInv, UsedUp, Stored
<1>9. \A j \in Stored : /\ invitation'[j].email = invitation[j].email
                        /\ \/ invitation'[j].status = invitation[j].status
                           \/ j = i /\ invitation'[j].status # "pending"
  BY <1>5 DEF Stored
<1>. QED
  BY <1>1, <1>3, <1>4, <1>5, <1>6, <1>7, <1>8, <1>9, EndKeeps DEF i

\* The transaction of acceptInvitation: a Join in the role of the invitation.
LEMMA AcceptKeeps ==
  ASSUME InvitationsInv, NEW c \in Calls, AcceptCommit(c)
  PROVE  /\ InvitationsInv'
         /\ \E u \in Users, as \in Roles : Join(u, as)
<1>t. InvitationsTyped /\ MembershipTyped
  BY DEF InvitationsInv
<1>. DEFINE i == call[c].invite
            u == call[c].actor
<1>1. /\ call[c] # None /\ call[c].step = "commit"
      /\ Join(u, invitation[i].as) /\ SetStatus(i, "accepted") /\ Admits(c)
  BY DEF AcceptCommit, Reached
<1>2. i \in Stored /\ i \in Invites
  BY <1>1 DEF InvitationsInv, CallsKnow, Knows, Using, Stored
<1>3. u \in Users /\ invitation[i].as \in Roles
  BY <1>t, <1>1, <1>2, CallParts, StoredParts
<1>4. Next
  BY <1>1, <1>3 DEF Next
<1>5. MembershipTyped'
  BY <1>t, <1>4, NextTyped
<1>6. \A v \in Users : role[v] # None => role'[v] = role[v]
  BY <1>t, <1>1, <1>3 DEF Join, MembershipTyped, TypeOK
<1>7. /\ call' \in [Calls -> Call \cup {None}]
      /\ call'[c] = None
      /\ \A d \in Calls \ {c} : call'[d] = call[d]
      /\ made' = made /\ history' \in History
      /\ history'.twins = history.twins /\ history'.contested = history.contested
      /\ history'.used = history.used \cup {i} /\ history'.changed = history.changed \ {c}
  BY <1>t, <1>1, <1>2, AdmitsFacts
<1>8. /\ invitation' \in [Invites -> Invitation \cup {None}]
      /\ Stored' = Stored
      /\ invitation'[i].status = "accepted"
      /\ invitation'[i].email = invitation[i].email
      /\ \A j \in Invites \ {i} : invitation'[j] = invitation[j]
  BY <1>t, <1>1, <1>2, SetStatusFacts DEF Statuses
<1>9. \E v \in Users, as \in Roles : Join(v, as)
  BY <1>1, <1>3
<1>. HIDE DEF i, u
<1>10. InvitationsTyped'
  BY <1>t, <1>7, <1>8 DEF InvitationsTyped
<1>11. OnlyCloses
  BY <1>8 DEF OnlyCloses, Open
<1>12. \A j \in history'.used : j \in Stored /\ invitation'[j].status # "pending"
  BY <1>2, <1>7, <1>8 DEF InvitationsInv, UsedUp, Stored
<1>13. \A j \in Stored : /\ invitation'[j].email = invitation[j].email
                         /\ \/ invitation'[j].status = invitation[j].status
                            \/ j = i /\ invitation'[j].status # "pending"
  BY <1>8 DEF Stored
<1>14. InvitationsInv'
  BY <1>1, <1>5, <1>6, <1>7, <1>8, <1>10, <1>11, <1>12, <1>13, EndKeeps DEF i
<1>. QED
  BY <1>9, <1>14

\* The expiry of an invitation closes it.
LEMMA ExpireKeeps ==
  ASSUME InvitationsInv, NEW i \in Invites, Expire(i)
  PROVE  InvitationsInv'
<1>t. InvitationsTyped /\ MembershipTyped
  BY DEF InvitationsInv
<1>1. i \in Stored /\ UNCHANGED vars /\ UNCHANGED <<call, made, history>>
  BY DEF Expire, Open
<1>. DEFINE q == [invitation[i] EXCEPT !.expired = TRUE]
<1>2. invitation[i] \in Invitation /\ invitation[i] # None
  BY <1>t, <1>1, StoredParts DEF Stored
<1>3. /\ q \in Invitation /\ q.status = invitation[i].status
      /\ q.email = invitation[i].email /\ q.expired = TRUE
  BY <1>2 DEF Invitation
<1>4. invitation' = [invitation EXCEPT ![i] = q]
  BY DEF Expire
<1>5. q # None
  BY <1>3, NoneIsNoRow
<1>. HIDE DEF q
<1>6. /\ invitation' \in [Invites -> Invitation \cup {None}] /\ invitation'[i] = q
      /\ \A j \in Invites \ {i} : invitation'[j] = invitation[j]
  BY <1>t, <1>3, <1>4 DEF InvitationsTyped
<1>7. Stored' = Stored
  BY <1>2, <1>5, <1>6 DEF Stored
<1>8. /\ OnlyCloses
      /\ \A j \in Stored : /\ invitation'[j].email = invitation[j].email
                           /\ invitation'[j].status = invitation[j].status
  BY <1>3, <1>6, <1>7 DEF OnlyCloses, Open, Stored
<1>9. MembershipTyped' /\ role' = role
  BY <1>t, <1>1, MembersAlone
<1>10. InvitationsTyped'
  BY <1>t, <1>1, <1>6 DEF InvitationsTyped
<1>11. ASSUME NEW c \in Calls, call[c] # None
       PROVE  Knows(call[c])'
  <2>1. Knows(call[c])
    BY <1>11 DEF InvitationsInv, CallsKnow
  <2>. QED
    BY <1>1, <1>7, <1>8, <2>1 DEF Knows, OnlyCloses, Using
<1>12. CallsKnow' /\ CallsAuthorised' /\ RivalsNoted'
  BY <1>1, <1>9, <1>11
     DEF InvitationsInv, CallsKnow, CallsAuthorised, Authorised, RivalsNoted
<1>13. UsedUp' /\ OneOpenPerAddress'
  BY <1>1, <1>7, <1>8 DEF InvitationsInv, UsedUp, OneOpenPerAddress, OnlyCloses
<1>. QED
  BY <1>9, <1>10, <1>12, <1>13 DEF InvitationsInv

\* A new invitation: the address was free when it was looked up, and whoever
\* invited it meanwhile was noted as a twin.
LEMMA CreateKeeps ==
  ASSUME InvitationsInv, NEW c \in Calls, CreateInvitation(c)
  PROVE  InvitationsInv'
<1>t. InvitationsTyped /\ MembershipTyped
  BY DEF InvitationsInv
<1>. DEFINE q == [email |-> call[c].email, as |-> call[c].as,
                  status |-> "pending", expired |-> FALSE]
<1>1. call[c] # None /\ call[c].step = "create" /\ Finish(c) /\ UNCHANGED vars
  BY DEF CreateInvitation, Reached
<1>2. PICK i \in Invites \ Stored : invitation' = [invitation EXCEPT ![i] = q]
  BY DEF CreateInvitation
<1>3. Knows(call[c]) /\ call[c].email \in Users /\ call[c].as \in Roles
  BY <1>1 DEF InvitationsInv, CallsKnow, Knows, Inviting
<1>4. /\ q \in Invitation /\ q.email = call[c].email /\ q.status = "pending"
  BY <1>3 DEF Invitation, Statuses
<1>5. q # None /\ None \notin Users
  BY <1>4, NoneIsNoRow, NoneIsNothing
<1>. HIDE DEF q
<1>6. /\ invitation' \in [Invites -> Invitation \cup {None}] /\ invitation'[i] = q
      /\ \A j \in Invites \ {i} : invitation'[j] = invitation[j]
  BY <1>t, <1>2, <1>4 DEF InvitationsTyped
<1>7. Stored' = Stored \cup {i}
  BY <1>5, <1>6 DEF Stored
<1>8. /\ call' \in [Calls -> Call \cup {None}]
      /\ call'[c] = None
      /\ \A d \in Calls \ {c} : call'[d] = call[d]
      /\ made' = made /\ history' \in History
      /\ history'.twins = history.twins /\ history'.contested = history.contested
      /\ history'.used = history.used /\ history'.changed = history.changed \ {c}
  BY <1>t, <1>1, FinishFacts
<1>9. MembershipTyped' /\ role' = role
  BY <1>t, <1>1, MembersAlone
<1>10. InvitationsTyped'
  BY <1>t, <1>6, <1>8 DEF InvitationsTyped
<1>11. \A j \in Invites : Open(j)' => j = i \/ (Open(j) /\ invitation'[j] = invitation[j])
  BY <1>6, <1>7 DEF Open
<1>12. CallsKnow'
  <2>. SUFFICES ASSUME NEW d \in Calls, call'[d] # None
                PROVE  Knows(call[d])'
    BY DEF CallsKnow
  <2>1. d # c /\ call'[d] = call[d] /\ call[d] # None /\ Knows(call[d])
    BY <1>8 DEF InvitationsInv, CallsKnow
  <2>2. \A j \in Stored : invitation'[j] = invitation[j]
    BY <1>2, <1>6 DEF Stored
  <2>3. call[d].step = "create" /\ call[d].email = call[c].email
           => call[d].email \in history'.twins
    BY <1>1, <1>3, <1>5, <1>8, <2>1 DEF InvitationsInv, RivalsNoted
  <2>4. call[d].step = "create" =>
          \A j \in Invites : Open(j)' /\ invitation'[j].email = call[d].email
              => call[d].email \in history'.twins
    BY <1>4, <1>6, <1>8, <1>11, <2>1, <2>3 DEF Knows
  <2>5. call[d].step \in Using => call[d].invite \in Stored
    BY <2>1 DEF Knows
  <2>. QED
    BY <1>7, <1>8, <2>1, <2>2, <2>4, <2>5 DEF Knows, Using
<1>13. CallsAuthorised' /\ RivalsNoted'
  BY <1>8, <1>9 DEF InvitationsInv, CallsAuthorised, Authorised, RivalsNoted
<1>14. UsedUp'
  BY <1>2, <1>6, <1>7, <1>8 DEF InvitationsInv, UsedUp, Stored
<1>15. OneOpenPerAddress'
  <2>1. \A j \in Invites : Open(j) /\ invitation[j].email = call[c].email
           => call[c].email \in history.twins
    BY <1>1, <1>3 DEF Knows
  <2>. QED
    BY <1>4, <1>6, <1>8, <1>11, <2>1 DEF InvitationsInv, OneOpenPerAddress
<1>. QED
  BY <1>9, <1>10, <1>12, <1>13, <1>14, <1>15 DEF InvitationsInv

\* A membership request is a step of WorkspaceMembership, and notes the calls
\* whose actor it changes.
LEMMA MembershipKeeps ==
  ASSUME InvitationsInv, NEW r \in Requests, MembershipStep(r)
  PROVE  Next /\ InvitationsInv'
<1>t. InvitationsTyped /\ MembershipTyped
  BY DEF InvitationsInv
<1>1. Next
  BY DEF MembershipStep, Next
<1>2. MembershipTyped'
  BY <1>t, <1>1, NextTyped
<1>. DEFINE C == {c \in Calls : call[c] # None /\ role'[call[c].actor] # role[call[c].actor]}
<1>3. /\ UNCHANGED <<invitation, call, made>>
      /\ history' = [history EXCEPT !.changed = @ \cup C] /\ history \in History
  BY <1>t DEF MembershipStep, InvitationsTyped
<1>4. C \subseteq Calls /\ \A c \in Calls \ C : call[c] # None =>
        role'[call[c].actor] = role[call[c].actor]
  OBVIOUS
<1>. HIDE DEF C
<1>5. /\ history' \in History
      /\ history'.twins = history.twins /\ history'.contested = history.contested
      /\ history'.used = history.used /\ history'.changed = history.changed \cup C
  BY <1>3, <1>4 DEF History
<1>6. InvitationsTyped'
  BY <1>t, <1>3, <1>5 DEF InvitationsTyped
<1>7. CallsKnow'
  BY <1>3, <1>5 DEF InvitationsInv, CallsKnow, Knows, Open, Stored
<1>8. CallsAuthorised'
  BY <1>3, <1>4, <1>5 DEF InvitationsInv, CallsAuthorised, Authorised
<1>9. RivalsNoted' /\ UsedUp' /\ OneOpenPerAddress'
  BY <1>3, <1>5 DEF InvitationsInv, RivalsNoted, UsedUp, OneOpenPerAddress, Open, Stored
<1>. QED
  BY <1>1, <1>2, <1>6, <1>7, <1>8, <1>9 DEF InvitationsInv

\* The calls a user or the mailed link makes begin with what Begin needs.
LEMMA StartsKeep ==
  ASSUME InvitationsInv, NEW c \in Calls,
         \/ \E a, u \in Users, as \in InviteRoles : InvitationsTabSend(c, a, u, as)
         \/ \E u \in Users, i \in Invites : InvitePageAccept(c, u, i)
         \/ \E a \in Users, i \in Invites : InvitationsTabRevoke(c, a, i)
  PROVE  InvitationsInv' /\ UNCHANGED vars
<1>1. ASSUME NEW a \in Users, NEW u \in Users, NEW as \in InviteRoles,
             InvitationsTabSend(c, a, u, as)
      PROVE  InvitationsInv' /\ UNCHANGED vars
  <2>. DEFINE q == [step |-> "inviter", actor |-> a, email |-> u, as |-> as, invite |-> None]
  <2>1. q \in Call /\ as \in Roles
    BY InviteRolesAreRoles DEF Call, CallSteps
  <2>2. q.step = "inviter" /\ q.actor = a /\ q.email = u /\ q.as = as /\ q.invite = None
    OBVIOUS
  <2>3. Begin(c, q) /\ role[a] \in {"owner", "admin"}
    BY <1>1 DEF InvitationsTabSend
  <2>. HIDE DEF q
  <2>4. Knows(q) /\ Authorised(q)
    BY <2>1, <2>2, <2>3 DEF Knows, Authorised, Inviting, Using
  <2>. QED
    BY <2>1, <2>3, <2>4, BeginKeeps DEF Begin
<1>2. ASSUME NEW u \in Users, NEW i \in Invites, InvitePageAccept(c, u, i)
      PROVE  InvitationsInv' /\ UNCHANGED vars
  <2>. DEFINE q == [step |-> "token", actor |-> u, email |-> None, as |-> None, invite |-> i]
  <2>1. q \in Call
    BY DEF Call, CallSteps
  <2>2. q.step = "token" /\ q.email = None /\ q.invite = i
    OBVIOUS
  <2>3. Begin(c, q) /\ i \in Stored
    BY <1>2 DEF InvitePageAccept
  <2>. HIDE DEF q
  <2>4. Knows(q) /\ Authorised(q)
    BY <2>2, <2>3 DEF Knows, Authorised, Inviting, Using
  <2>. QED
    BY <2>1, <2>3, <2>4, BeginKeeps DEF Begin
<1>3. ASSUME NEW a \in Users, NEW i \in Invites, InvitationsTabRevoke(c, a, i)
      PROVE  InvitationsInv' /\ UNCHANGED vars
  <2>. DEFINE q == [step |-> "find", actor |-> a, email |-> None, as |-> None, invite |-> i]
  <2>1. q \in Call
    BY DEF Call, CallSteps
  <2>2. q.step = "find" /\ q.email = None /\ q.invite = i
    OBVIOUS
  <2>3. Begin(c, q) /\ i \in Stored
    BY <1>3 DEF InvitationsTabRevoke
  <2>. HIDE DEF q
  <2>4. Knows(q) /\ Authorised(q)
    BY <2>2, <2>3 DEF Knows, Authorised, Inviting, Using
  <2>. QED
    BY <2>1, <2>3, <2>4, BeginKeeps DEF Begin
<1>. QED
  BY <1>1, <1>2, <1>3

-----------------------------------------------------------------------------
(* The theorems *)

\* Every step of the composition keeps the invariant and is a step of
\* WorkspaceMembership, or leaves the members alone.
LEMMA StepKeeps ==
  ASSUME InvitationsInv, [InvitationsNext]_allVars
  PROVE  InvitationsInv' /\ [Next]_vars
<1>0. MembershipTyped
  BY DEF InvitationsInv
<1>1. CASE UNCHANGED allVars
  <2>1. UNCHANGED vars /\ UNCHANGED ivars
    BY <1>1 DEF allVars
  <2>2. MembershipTyped' /\ role' = role
    BY <1>0, <2>1, MembersAlone
  <2>3. InvitationsInv'
    BY <2>1, <2>2 DEF ivars, InvitationsInv, InvitationsTyped, CallsKnow, CallsAuthorised,
       Knows, Authorised, RivalsNoted, UsedUp, OneOpenPerAddress, Open, Stored
  <2>. QED
    BY <2>1, <2>3
<1>2. ASSUME NEW r \in Requests, MembershipStep(r)
      PROVE  InvitationsInv' /\ [Next]_vars
  BY <1>2, MembershipKeeps
<1>3. ASSUME NEW c \in Calls,
             \/ \E a, u \in Users, as \in InviteRoles : InvitationsTabSend(c, a, u, as)
             \/ \E u \in Users, i \in Invites : InvitePageAccept(c, u, i)
             \/ \E a \in Users, i \in Invites : InvitationsTabRevoke(c, a, i)
      PROVE  InvitationsInv' /\ [Next]_vars
  BY <1>3, StartsKeep
<1>4. ASSUME NEW c \in Calls, ReadStep(c)
      PROVE  InvitationsInv' /\ [Next]_vars
  <2>1. UNCHANGED vars
    BY <1>4 DEF ReadStep, ReadInviter, ReadInvitee, FindPending, FindByToken, FindNoMember,
       FindInvitation
  <2>. QED
    BY <1>4, <2>1, ReadKeeps
<1>5. ASSUME NEW c \in Calls, CreateInvitation(c) \/ UpdateStatus(c) \/ CallRefused(c)
      PROVE  InvitationsInv' /\ [Next]_vars
  <2>1. UNCHANGED vars
    BY <1>5 DEF CreateInvitation, UpdateStatus, CallRefused
  <2>. QED
    BY <1>5, <2>1, CreateKeeps, RevokeKeeps, RefusedKeeps
<1>6. ASSUME NEW c \in Calls, AcceptCommit(c)
      PROVE  InvitationsInv' /\ [Next]_vars
  BY <1>6, AcceptKeeps DEF Next
<1>7. ASSUME NEW i \in Invites, Expire(i)
      PROVE  InvitationsInv' /\ [Next]_vars
  BY <1>7, ExpireKeeps DEF Expire
<1>. QED
  BY <1>1, <1>2, <1>3, <1>4, <1>5, <1>6, <1>7 DEF InvitationsNext, ReadStep

\* No invitation and no call: the invariant holds.
LEMMA InitKeeps == InvitationsInit => InvitationsInv
<1>. SUFFICES ASSUME InvitationsInit PROVE InvitationsInv
  OBVIOUS
<1>1. MembershipTyped
  BY InitSerial DEF InvitationsInit, Init, SerialInv, MembershipTyped, At
<1>2. /\ \A i \in Invites : invitation[i] = None
      /\ \A c \in Calls : call[c] = None
      /\ history.used = {}
  BY DEF InvitationsInit
<1>3. history \in History
  BY DEF InvitationsInit, History
<1>4. InvitationsTyped
  BY <1>3, InviteBoundsAreNat DEF InvitationsInit, InvitationsTyped
<1>. QED
  BY <1>1, <1>2, <1>4 DEF InvitationsInv, CallsKnow, CallsAuthorised, RivalsNoted, UsedUp,
     OneOpenPerAddress, Open, Stored

\* The invariant holds in every reachable state of the composition.
LEMMA InvitationsInvariant == InvitationsSpec => []InvitationsInv
<1>1. InvitationsInv /\ [InvitationsNext]_allVars => InvitationsInv'
  BY StepKeeps
<1>. QED
  BY <1>1, InitKeeps, PTL DEF InvitationsSpec

\* The composition implements WorkspaceMembership: accepting an invitation is
\* the Join of that specification and every other call of InvitationService
\* leaves the members alone, for any number of users, calls and invitations.
THEOREM JoinsByInvitation == InvitationsSpec => ImplementsMembership
<1>1. InvitationsInit => Init
  BY DEF InvitationsInit
<1>2. InvitationsInv /\ [InvitationsNext]_allVars => [Next]_vars
  BY StepKeeps
<1>. QED
  BY <1>1, <1>2, InvitationsInvariant, PTL DEF InvitationsSpec, ImplementsMembership, Spec

\* With invitations too, ownerId names an owner until two membership requests
\* have overlapped: nobody gets or loses a role through an invitation but by
\* joining.
THEOREM OwnershipWithInvitations == InvitationsSpec => []OwnerIdUnraced
BY JoinsByInvitation, UnracedOwnership, PTL DEF ImplementsMembership

\* An address has one open invitation, unless two calls invited it at once.
THEOREM OneOpenInvitation == InvitationsSpec => []OneOpenPerAddress
<1>1. InvitationsInv => OneOpenPerAddress
  BY DEF InvitationsInv
<1>. QED
  BY <1>1, InvitationsInvariant, PTL

\* A membership request gives no role to somebody who has none.
LEMMA NoRoleFromNothing ==
  ASSUME MembershipTyped, NEW r \in Requests, MembershipStep(r), NEW u \in Users,
         role[u] = None
  PROVE  role'[u] = None
<1>t. role \in [Users -> Roles \cup {None}]
  BY DEF MembershipTyped, TypeOK
<1>1. ASSUME role' = role
      PROVE  role'[u] = None
  BY <1>1
<1>2. CASE Write(r)
  <2>. DEFINE q == request[r]
  <2>1. /\ role[q.user] # None
        /\ role' = [role EXCEPT ![q.user] = IF q.op = "update" THEN q.to ELSE None]
    BY <1>2 DEF Write, RowExists
  <2>. HIDE DEF q
  <2>. QED
    BY <1>t, <2>1
<1>3. CASE TransferCommit(r)
  <2>. DEFINE q == request[r]
  <2>1. /\ role[q.user] # None /\ role[q.actor] # None
        /\ role' = [role EXCEPT ![q.actor] = "admin", ![q.user] = "owner"]
    BY <1>3 DEF TransferCommit, RowExists
  <2>. HIDE DEF q
  <2>. QED
    BY <1>t, <2>1
<1>4. CASE \E op \in Ops, a \in Users, v \in Users, to \in Roles : Start(r, op, a, v, to)
  BY <1>1, <1>4 DEF Start, rows
<1>5. CASE \/ ManageStep(r) \/ AssignOwner(r) \/ Refused(r)
           \/ ReadCurrent(r) \/ ReadTarget(r) \/ TransferRefused(r)
  <2>1. role' = role
    BY <1>5 DEF ManageStep, ReadMember, ReadActor, CountOwners, ReadWorkspace,
       FindOtherOwner, AssignOwner, Refused, ReadCurrent, ReadTarget, TransferRefused, rows
  <2>. QED
    BY <1>1, <2>1
<1>. QED
  BY <1>2, <1>3, <1>4, <1>5 DEF MembershipStep, ManageStep

\* Whoever becomes a member was invited in that role by an invitation that is
\* pending and has admitted nobody, and an accepted or revoked invitation stays
\* so, unless two acceptances or revocations worked on it at once.
THEOREM SingleUse == InvitationsSpec => AdmitsOnce
<1>. DEFINE Invited ==
              \A u \in Users :
                 role[u] = None /\ role'[u] # None
                 => \E i \in Stored :
                       /\ invitation[i].email = u /\ invitation[i].as = role'[u]
                       /\ \/ i \in history.contested
                          \/ invitation[i].status = "pending" /\ i \notin history.used
            Final ==
              \A i \in Stored \ history.contested :
                 invitation[i].status # "pending"
                 => invitation'[i].status = invitation[i].status
<1>1. ASSUME InvitationsInv, InvitationsNext
      PROVE  Invited /\ Final
  <2>t. InvitationsTyped /\ MembershipTyped
    BY <1>1 DEF InvitationsInv
  <2>r. role' = role => Invited
    OBVIOUS
  <2>i. invitation' = invitation => Final
    OBVIOUS
  <2>1. ASSUME NEW r \in Requests, MembershipStep(r)
        PROVE  Invited /\ Final
    BY <2>1, <2>t, <2>i, NoRoleFromNothing DEF MembershipStep
  <2>2. ASSUME NEW c \in Calls,
               \/ \E a, u \in Users, as \in InviteRoles : InvitationsTabSend(c, a, u, as)
               \/ \E u \in Users, i \in Invites : InvitePageAccept(c, u, i)
               \/ \E a \in Users, i \in Invites : InvitationsTabRevoke(c, a, i)
        PROVE  Invited /\ Final
    <3>1. UNCHANGED <<vars, invitation>>
      BY <2>2 DEF InvitationsTabSend, InvitePageAccept, InvitationsTabRevoke, Begin
    <3>. QED
      BY <2>r, <2>i, <3>1 DEF vars, rows
  <2>3. ASSUME NEW c \in Calls, ReadStep(c) \/ CallRefused(c)
        PROVE  Invited /\ Final
    <3>1. UNCHANGED <<vars, invitation>>
      BY <2>3 DEF ReadStep, ReadInviter, ReadInvitee, FindPending, FindByToken, FindNoMember,
         FindInvitation, CallRefused
    <3>. QED
      BY <2>r, <2>i, <3>1 DEF vars, rows
  <2>4. ASSUME NEW c \in Calls, CreateInvitation(c)
        PROVE  Invited /\ Final
    <3>1. \E i \in Invites \ Stored : \E q : invitation' = [invitation EXCEPT ![i] = q]
      BY <2>4 DEF CreateInvitation
    <3>2. \A i \in Stored : invitation'[i] = invitation[i]
      BY <2>t, <3>1 DEF Stored, InvitationsTyped
    <3>. QED
      BY <2>4, <2>r, <3>2 DEF CreateInvitation, vars, rows
  <2>5. ASSUME NEW i \in Invites, Expire(i)
        PROVE  Invited /\ Final
    <3>1. i \in Stored /\ invitation[i].status = "pending"
      BY <2>5 DEF Expire, Open
    <3>2. \A j \in Stored \ {i} : invitation'[j] = invitation[j]
      BY <2>5, <2>t DEF Expire, Stored, InvitationsTyped
    <3>. QED
      BY <2>5, <2>r, <3>1, <3>2 DEF Expire, vars, rows
  <2>6. ASSUME NEW c \in Calls, UpdateStatus(c)
        PROVE  Invited /\ Final
    <3>. DEFINE i == call[c].invite
    <3>1. call[c] # None /\ call[c].step = "revoke" /\ SetStatus(i, "revoked") /\ UNCHANGED vars
      BY <2>6 DEF UpdateStatus, Reached
    <3>2. /\ i \in Stored
          /\ invitation[i].status = "pending" \/ i \in history.contested
      BY <1>1, <3>1 DEF InvitationsInv, CallsKnow, Knows, Using
    <3>3. \A j \in Stored \ {i} : invitation'[j] = invitation[j]
      BY <2>t, <3>1, <3>2, SetStatusFacts DEF Stored, Statuses
    <3>. HIDE DEF i
    <3>. QED
      BY <2>r, <3>1, <3>2, <3>3 DEF vars, rows
  <2>7. ASSUME NEW c \in Calls, AcceptCommit(c)
        PROVE  Invited /\ Final
    <3>. DEFINE i == call[c].invite
                v == call[c].actor
    <3>1. /\ call[c] # None /\ call[c].step = "commit"
          /\ Join(v, invitation[i].as) /\ SetStatus(i, "accepted")
      BY <2>7 DEF AcceptCommit, Reached
    <3>2. /\ i \in Stored /\ invitation[i].email = v
          /\ invitation[i].status = "pending" \/ i \in history.contested
      BY <1>1, <3>1 DEF InvitationsInv, CallsKnow, Knows, Using
    <3>3. \A j \in Stored \ {i} : invitation'[j] = invitation[j]
      BY <2>t, <3>1, <3>2, SetStatusFacts DEF Stored, Statuses
    <3>4. invitation[i].status = "pending" => i \notin history.used
      BY <1>1 DEF InvitationsInv, UsedUp
    <3>5. v \in Users
      BY <2>t, <3>1, CallParts
    <3>6. \A u \in Users : role'[u] = IF u = v THEN invitation[i].as ELSE role[u]
      BY <2>t, <3>1, <3>5 DEF Join, MembershipTyped, TypeOK
    <3>. HIDE DEF i, v
    <3>7. Invited
      BY <3>2, <3>4, <3>6
    <3>8. Final
      BY <3>2, <3>3
    <3>. QED
      BY <3>7, <3>8
  <2>. HIDE DEF Invited, Final
  <2>. QED
    BY <1>1, <2>1, <2>2, <2>3, <2>4, <2>5, <2>6, <2>7 DEF InvitationsNext, ReadStep
<1>. DEFINE A ==
              /\ \A u \in Users :
                   role[u] = None /\ role'[u] # None
                   => \E i \in Stored :
                         /\ invitation[i].email = u /\ invitation[i].as = role'[u]
                         /\ \/ i \in history.contested
                            \/ invitation[i].status = "pending" /\ i \notin history.used
              /\ \A i \in Stored \ history.contested :
                   invitation[i].status # "pending"
                   => invitation'[i].status = invitation[i].status
<1>2. InvitationsInv /\ InvitationsNext => A
  BY <1>1
<1>3. [][A]_allVars <=> AdmitsOnce
  BY DEF AdmitsOnce
<1>. HIDE DEF A
<1>4. InvitationsInv /\ [InvitationsNext]_allVars => [A]_allVars
  BY <1>2
<1>. QED
  BY <1>3, <1>4, InvitationsInvariant, PTL DEF InvitationsSpec

\* Who issues an invitation to be an owner or an admin is an owner at that
\* moment, unless their own role changed during the call.
THEOREM AdminsInviteMembers == InvitationsSpec => OwnersInviteAdmins
<1>. DEFINE A == \A c \in Calls :
                   /\ Reached(c, "create") /\ call'[c] = None
                   /\ call[c].as # "member" /\ c \notin history.changed
                   => role[call[c].actor] = "owner"
<1>1. InvitationsInv => A
  <2>. SUFFICES ASSUME InvitationsInv, NEW c \in Calls, Reached(c, "create"),
                       call[c].as # "member", c \notin history.changed
                PROVE  role[call[c].actor] = "owner"
    OBVIOUS
  <2>1. Authorised(call[c]) /\ call[c].step = "create"
    BY DEF InvitationsInv, CallsAuthorised, Reached
  <2>. QED
    BY <2>1 DEF Authorised, Inviting, InvitableBy
<1>2. [][A]_allVars <=> OwnersInviteAdmins
  BY DEF OwnersInviteAdmins
<1>3. InvitationsInv /\ [InvitationsNext]_allVars => [A]_allVars
  <2>. HIDE DEF A
  <2>. QED
    BY <1>1
<1>. HIDE DEF A
<1>. QED
  BY <1>2, <1>3, InvitationsInvariant, PTL DEF InvitationsSpec
=============================================================================
