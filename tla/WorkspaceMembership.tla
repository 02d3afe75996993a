------------------------- MODULE WorkspaceMembership -------------------------
(***************************************************************************)
(* Roles in one workspace: MembershipService over                          *)
(* WorkspaceMemberRepository, behind the member and role guards of         *)
(* WorkspaceController.  Every await is a step of its own; only            *)
(* transferOwnership and the acceptance of an invitation write in a        *)
(* transaction.  The workspace is not archived.                            *)
(***************************************************************************)
EXTENDS Naturals, FiniteSets

CONSTANTS
    Users,    \* user ids
    Creator,  \* the user who created the workspace
    Requests, \* HTTP requests that may be in progress at once
    None,     \* no member row, no user, a request slot that is free
    Ops,      \* the operations users call in this instance
    MaxRows   \* bound: member rows a user ever has

\* "member" stands for viewer too: no operation here tells them apart.
Roles == {"owner", "admin", "member"}

Steps == {"member", "actor", "count", "workspace", "other", "assign", "write",
          "current", "target", "commit"}

\* op on user, by actor; id and was are user's row as read, actorId the
\* actor's row as read, next the owner found to take over.
Request ==
    [op : Ops, step : Steps, actor : Users, user : Users, to : Roles, id : Nat,
     was : Roles \cup {None}, actorId : Nat, next : Users \cup {None}]

ASSUME CreatorIsUser == Creator \in Users
ASSUME NoneIsNothing == None \notin Users \cup Roles \cup Request
ASSUME UsersFinite == IsFiniteSet(Users)
ASSUME OpsAreKnown == Ops \subseteq {"update", "remove", "leave", "transfer"}
ASSUME MaxRowsIsPositive == MaxRows \in Nat \ {0}

VARIABLES
    role,    \* the role in the user's workspace_members row, or None
    rowId,   \* how many rows the user has had: the id of the current one
    ownerId, \* workspace.ownerId
    request, \* requests in progress
    raced    \* history variable: two requests have overlapped

rows == <<role, rowId, ownerId>>
vars == <<rows, request, raced>>

TypeOK ==
    /\ role \in [Users -> Roles \cup {None}]
    /\ rowId \in [Users -> 0 .. MaxRows]
    /\ ownerId \in Users
    /\ request \in [Requests -> Request \cup {None}]
    /\ raced \in BOOLEAN

\* createWorkspaceWithOwner: the creator is a member, an owner, and the ownerId.
Init ==
    /\ role = [u \in Users |-> IF u = Creator THEN "owner" ELSE None]
    /\ rowId = [u \in Users |-> IF u = Creator THEN 1 ELSE 0]
    /\ ownerId = Creator
    /\ request = [r \in Requests |-> None]
    /\ raced = FALSE

-----------------------------------------------------------------------------
Owners == {u \in Users : role[u] = "owner"}

\* countOwners
OwnerCount == Cardinality(Owners)

\* The row with this id still exists; an update or delete of it throws if not.
RowExists(u, id) == role[u] # None /\ rowId[u] = id

Idle == \A r \in Requests : request[r] = None

At(r, step) == request[r] # None /\ request[r].step = step

End(r) == request' = [request EXCEPT ![r] = None] /\ UNCHANGED raced

Goto(r, step) ==
    /\ request' = [request EXCEPT ![r] =
           [op |-> @.op, step |-> step, actor |-> @.actor, user |-> @.user, to |-> @.to,
            id |-> @.id, was |-> @.was, actorId |-> @.actorId, next |-> @.next]]
    /\ UNCHANGED raced

\* The roles the guards let through to each operation.
Permitted(op) ==
    IF op = "leave" THEN Roles
    ELSE IF op = "transfer" THEN {"owner"}
    ELSE {"owner", "admin"}

\* The guards read the actor's row; the handler reads it again.
Start(r, op, a, u, to) ==
    /\ request[r] = None
    /\ raced' = (raced \/ ~Idle)
    /\ role[a] \in Permitted(op)
    /\ op = "leave" => u = a
    /\ op # "update" => to = "member"
    /\ request' = [request EXCEPT ![r] =
           [op |-> op, step |-> IF op = "transfer" THEN "current" ELSE "member",
            actor |-> a, user |-> u, to |-> to, id |-> 0, was |-> None,
            actorId |-> 0, next |-> None]]
    /\ UNCHANGED rows

-----------------------------------------------------------------------------
(* updateMemberRole, removeMember, leaveWorkspace *)

\* The request takes a role of owner away from a user read as an owner.
EndsOwnership(op, was, to) == was = "owner" /\ ~(op = "update" /\ to = "owner")

\* findMemberById, or findMember for leaveWorkspace
ReadMember(r) ==
    /\ At(r, "member")
    /\ LET q == request[r]
           was == role[q.user]
       IN  /\ was # None
           /\ request' = [request EXCEPT ![r] =
                  [op |-> q.op, actor |-> q.actor, user |-> q.user, to |-> q.to,
                   step |-> IF q.op # "leave" THEN "actor"
                            ELSE IF was = "owner" THEN "count" ELSE "write",
                   id |-> rowId[q.user], was |-> was, actorId |-> 0, next |-> None]]
    /\ UNCHANGED <<rows, raced>>

\* Mutant: the gate only looks at promotions.
Gated_Promotion(q) == q.op = "update" /\ q.to = "owner"

\* What an admin may not do.
Gated(q) == q.was = "owner" \/ (q.op = "update" /\ q.to = "owner")

ReadActor(r) ==
    /\ At(r, "actor")
    /\ LET q == request[r] IN
       /\ ~(role[q.actor] = "admin" /\ Gated(q))
       /\ Goto(r, IF EndsOwnership(q.op, q.was, q.to) THEN "count" ELSE "write")
    /\ UNCHANGED rows

CountOwners(r) ==
    /\ At(r, "count")
    /\ OwnerCount > 1
    /\ Goto(r, "workspace")
    /\ UNCHANGED rows

\* Mutant: ownerId is not reassigned.
ReadWorkspace_NoReassignment(r) ==
    /\ At(r, "workspace")
    /\ Goto(r, "write")
    /\ UNCHANGED rows

ReadWorkspace(r) ==
    /\ At(r, "workspace")
    /\ Goto(r, IF ownerId = request[r].user THEN "other" ELSE "write")
    /\ UNCHANGED rows

\* findOtherOwner returns any other owner.  If there is none left, ownerId stays.
FindOtherOwner(r) ==
    /\ At(r, "other")
    /\ LET q == request[r] IN
       \/ \E o \in Owners \ {q.user} :
             request' = [request EXCEPT ![r] =
                 [op |-> q.op, step |-> "assign", actor |-> q.actor, user |-> q.user,
                  to |-> q.to, id |-> q.id, was |-> q.was, actorId |-> q.actorId,
                  next |-> o]]
       \/ Owners \ {q.user} = {} /\ Goto(r, "write")
    /\ UNCHANGED <<rows, raced>>

AssignOwner(r) ==
    /\ At(r, "assign")
    /\ ownerId' = request[r].next
    /\ Goto(r, "write")
    /\ UNCHANGED <<role, rowId>>

\* updateRole, or removeMember's delete
Write(r) ==
    /\ At(r, "write")
    /\ LET q == request[r] IN
       /\ RowExists(q.user, q.id)
       /\ role' = [role EXCEPT ![q.user] = IF q.op = "update" THEN q.to ELSE None]
    /\ End(r)
    /\ UNCHANGED <<rowId, ownerId>>

\* Not found, forbidden, CANNOT_REMOVE_OWNER, or the row is gone at the write.
Refused(r) ==
    /\ LET q == request[r] IN
       \/ At(r, "member") /\ role[q.user] = None
       \/ At(r, "actor") /\ role[q.actor] = "admin" /\ Gated(q)
       \/ At(r, "count") /\ OwnerCount <= 1
       \/ At(r, "write") /\ ~RowExists(q.user, q.id)
    /\ End(r)
    /\ UNCHANGED rows

-----------------------------------------------------------------------------
(* transferOwnership: two reads, then one transaction *)

ReadCurrent(r) ==
    /\ At(r, "current")
    /\ LET q == request[r] IN
       /\ role[q.actor] = "owner"
       /\ request' = [request EXCEPT ![r] =
              [op |-> q.op, step |-> "target", actor |-> q.actor, user |-> q.user,
               to |-> q.to, id |-> 0, was |-> None, actorId |-> rowId[q.actor],
               next |-> None]]
    /\ UNCHANGED <<rows, raced>>

ReadTarget(r) ==
    /\ At(r, "target")
    /\ LET q == request[r] IN
       /\ role[q.user] # None
       /\ request' = [request EXCEPT ![r] =
              [op |-> q.op, step |-> "commit", actor |-> q.actor, user |-> q.user,
               to |-> q.to, id |-> rowId[q.user], was |-> role[q.user],
               actorId |-> q.actorId, next |-> None]]
    /\ UNCHANGED <<rows, raced>>

TransferCommit(r) ==
    /\ At(r, "commit")
    /\ LET q == request[r] IN
       /\ RowExists(q.actor, q.actorId) /\ RowExists(q.user, q.id)
       /\ role' = [role EXCEPT ![q.actor] = "admin", ![q.user] = "owner"]
       /\ ownerId' = q.user
    /\ End(r)
    /\ UNCHANGED rowId

\* Forbidden, TARGET_NOT_MEMBER, or the transaction is rolled back.
TransferRefused(r) ==
    /\ LET q == request[r] IN
       \/ At(r, "current") /\ role[q.actor] # "owner"
       \/ At(r, "target") /\ role[q.user] = None
       \/ At(r, "commit") /\ ~(RowExists(q.actor, q.actorId) /\ RowExists(q.user, q.id))
    /\ End(r)
    /\ UNCHANGED rows

-----------------------------------------------------------------------------
\* acceptInvitation's transaction: the unique key admits one row per user.
Join(u, as) ==
    /\ role[u] = None /\ rowId[u] < MaxRows
    /\ role' = [role EXCEPT ![u] = as]
    /\ rowId' = [rowId EXCEPT ![u] = @ + 1]
    /\ UNCHANGED <<ownerId, request, raced>>

Next ==
    \/ \E r \in Requests :
        \/ \E op \in Ops, a \in Users, u \in Users, to \in Roles : Start(r, op, a, u, to)
        \/ ReadMember(r) \/ ReadActor(r) \/ CountOwners(r) \/ ReadWorkspace(r)
        \/ FindOtherOwner(r) \/ AssignOwner(r) \/ Write(r) \/ Refused(r)
        \/ ReadCurrent(r) \/ ReadTarget(r) \/ TransferCommit(r) \/ TransferRefused(r)
    \/ \E u \in Users, as \in Roles : Join(u, as)

Spec == Init /\ [][Next]_vars

-----------------------------------------------------------------------------
(* Properties *)

OwnerIdIsOwner == role[ownerId] = "owner"

\* workspace.ownerId names a member who is an owner: until two requests have
\* overlapped, the count of owners, the reassignment and the transaction of
\* transferOwnership, also to oneself, see to it; joining may overlap anything.
\* (Two owners who leave at once each count the other.)
OwnerIdUnraced == ~raced => OwnerIdIsOwner

\* Only an owner ends an ownership or makes an existing member an owner
\* ("admins cannot modify owners or promote anyone to owner"): until two
\* requests have overlapped, whoever asked for it is an owner at that moment.
OwnersMakeOwners ==
    [][\A u \in Users :
          /\ ~raced /\ role[u] # None
          /\ (role[u] = "owner") # (role'[u] = "owner")
          => \E r \in Requests :
                /\ request[r] # None /\ request'[r] = None
                /\ role[request[r].actor] = "owner"]_vars
=============================================================================
