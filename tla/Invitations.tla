----------------------------- MODULE Invitations -----------------------------
(***************************************************************************)
(* Invitations to the workspace of WorkspaceMembership: InvitationService  *)
(* over WorkspaceInvitationRepository.  A call makes one round trip to the *)
(* database per step and may interleave with other calls and with the      *)
(* membership requests; only the acceptance writes in a transaction.  It   *)
(* is the only way to become a member, so it takes the place of the        *)
(* unconstrained Join of WorkspaceMembership.                              *)
(***************************************************************************)
EXTENDS WorkspaceMembership

CONSTANTS
    Calls,       \* invitation calls that may be in progress at once
    InviteRoles, \* the roles offered in this instance
    MaxInvites,  \* bound: invitations ever stored
    MaxCalls     \* bound: calls ever made

ASSUME InviteRolesAreRoles == InviteRoles \subseteq Roles
ASSUME InviteBoundsAreNat == MaxInvites \in Nat /\ MaxCalls \in Nat

\* Invitations are numbered in the order they are stored.
Invites == 1 .. MaxInvites
Statuses == {"pending", "accepted", "revoked"}

\* An address is its user's: the DTO and the accounts keep it in lower case.
Invitation == [email : Users, as : Roles, status : Statuses, expired : BOOLEAN]

CallSteps == {"inviter", "invitee", "pending", "create", "token", "member",
              "commit", "find", "revoke"}

\* A call by actor: to invite email in the role as, or about one invitation.
Call == [step : CallSteps, actor : Users, email : Users \cup {None},
         as : Roles \cup {None}, invite : Invites \cup {None}]

ASSUME NoneIsNoRow == None \notin Invitation \cup Call \cup Invites

VARIABLES
    invitation, \* the rows of workspace_invitations
    call,       \* calls in progress
    made,       \* how many calls were made
    history     \* which calls overlapped, for the properties

ivars == <<invitation, call, made, history>>
allVars == <<vars, ivars>>

\* twins: addresses two calls were inviting at once; contested: invitations
\* two calls were accepting or revoking at once; used: invitations that have
\* admitted a member; changed: calls whose actor's role changed meanwhile.
History == [twins : SUBSET Users, contested : SUBSET Invites,
            used : SUBSET Invites, changed : SUBSET Calls]

InvitationsTypeOK ==
    /\ TypeOK
    /\ invitation \in [Invites -> Invitation \cup {None}]
    /\ call \in [Calls -> Call \cup {None}]
    /\ made \in 0 .. MaxCalls
    /\ history \in History

InvitationsInit ==
    /\ Init
    /\ invitation = [i \in Invites |-> None]
    /\ call = [c \in Calls |-> None]
    /\ made = 0
    /\ history = [twins |-> {}, contested |-> {}, used |-> {}, changed |-> {}]

-----------------------------------------------------------------------------
Stored == {i \in Invites : invitation[i] # None}

\* findPendingByEmailAndWorkspace looks for one of these.
Open(i) == /\ i \in Stored
           /\ invitation[i].status = "pending"
           /\ ~invitation[i].expired

SetStatus(i, s) == invitation' = [invitation EXCEPT ![i].status = s]

Reached(c, step) == call[c] # None /\ call[c].step = step

Advance(c, step) ==
    /\ call' = [call EXCEPT ![c].step = step]
    /\ UNCHANGED <<made, history>>

Finish(c) ==
    /\ call' = [call EXCEPT ![c] = None]
    /\ history' = [history EXCEPT !.changed = @ \ {c}]
    /\ UNCHANGED made

\* The call of another slot that names the same address or invitation.
Rival(c, field(_), x) == \E d \in Calls \ {c} : call[d] # None /\ field(call[d]) = x

Begin(c, q) ==
    /\ call[c] = None
    /\ made < MaxCalls
    /\ made' = made + 1
    /\ call' = [call EXCEPT ![c] = q]
    /\ history' = [history EXCEPT
           !.twins = @ \cup {u \in {q.email} \ {None} : Rival(c, LAMBDA d : d.email, u)},
           !.contested = @ \cup {i \in {q.invite} \ {None} : Rival(c, LAMBDA d : d.invite, i)}]
    /\ UNCHANGED <<vars, invitation>>

-----------------------------------------------------------------------------
(* inviteMember, behind the guards of WorkspaceController *)

InvitationsTabSend(c, a, u, as) ==
    /\ role[a] \in {"owner", "admin"}
    /\ Begin(c, [step |-> "inviter", actor |-> a, email |-> u, as |-> as, invite |-> None])

\* Mutant: what an admin offers is not tested.
InvitableBy_Any(r, as) == TRUE

\* Only the role read now is tested: a removed inviter has none.
InvitableBy(r, as) == r = "admin" => as = "member"

ReadInviter(c) ==
    /\ Reached(c, "inviter")
    /\ InvitableBy(role[call[c].actor], call[c].as)
    /\ Advance(c, "invitee")
    /\ UNCHANGED <<vars, invitation>>

ReadInvitee(c) ==
    /\ Reached(c, "invitee")
    /\ role[call[c].email] = None
    /\ Advance(c, "pending")
    /\ UNCHANGED <<vars, invitation>>

\* Mutant: an earlier invitation is not looked for.
PendingFor_None(u) == {}

PendingFor(u) == {i \in Invites : Open(i) /\ invitation[i].email = u}

FindPending(c) ==
    /\ Reached(c, "pending")
    /\ PendingFor(call[c].email) = {}
    /\ Advance(c, "create")
    /\ UNCHANGED <<vars, invitation>>

CreateInvitation(c) ==
    /\ Reached(c, "create")
    /\ \E i \in Invites \ Stored :
          /\ \A j \in Invites \ Stored : i <= j
          /\ invitation' = [invitation EXCEPT ![i] =
                 [email |-> call[c].email, as |-> call[c].as,
                  status |-> "pending", expired |-> FALSE]]
    /\ Finish(c)
    /\ UNCHANGED vars

Expire(i) ==
    /\ Open(i)
    /\ invitation' = [invitation EXCEPT ![i].expired = TRUE]
    /\ UNCHANGED <<vars, call, made, history>>

-----------------------------------------------------------------------------
(* acceptInvitation, by whoever has the mailed link *)

InvitePageAccept(c, u, i) ==
    /\ i \in Stored
    /\ Begin(c, [step |-> "token", actor |-> u, email |-> None, as |-> None, invite |-> i])

\* findByToken, and the address of the account.
Admissible(u, i) == Open(i) /\ invitation[i].email = u

FindByToken(c) ==
    /\ Reached(c, "token")
    /\ Admissible(call[c].actor, call[c].invite)
    /\ Advance(c, "member")
    /\ UNCHANGED <<vars, invitation>>

FindNoMember(c) ==
    /\ Reached(c, "member")
    /\ role[call[c].actor] = None
    /\ Advance(c, "commit")
    /\ UNCHANGED <<vars, invitation>>

Admits(c) ==
    /\ call' = [call EXCEPT ![c] = None]
    /\ history' = [history EXCEPT !.used = @ \cup {call[c].invite}, !.changed = @ \ {c}]
    /\ UNCHANGED made

\* Mutant: an existing member gets the role of the invitation.
AcceptCommit_Upsert(c) ==
    /\ Reached(c, "commit")
    /\ LET i == call[c].invite
           u == call[c].actor
       IN  /\ role' = [role EXCEPT ![u] = invitation[i].as]
           /\ SetStatus(i, "accepted")
    /\ Admits(c)
    /\ UNCHANGED <<rowId, ownerId, request, raced>>

\* Mutant: the invitation is not marked as accepted.
AcceptCommit_NotMarked(c) ==
    /\ Reached(c, "commit")
    /\ Join(call[c].actor, invitation[call[c].invite].as)
    /\ Admits(c)
    /\ UNCHANGED invitation

\* The transaction creates the row, which the unique key may refuse, and
\* overwrites the status whatever it is by now.
AcceptCommit(c) ==
    /\ Reached(c, "commit")
    /\ LET i == call[c].invite IN
       /\ Join(call[c].actor, invitation[i].as)
       /\ SetStatus(i, "accepted")
    /\ Admits(c)

-----------------------------------------------------------------------------
(* revokeInvitation *)

InvitationsTabRevoke(c, a, i) ==
    /\ role[a] \in {"owner", "admin"}
    /\ i \in Stored
    /\ Begin(c, [step |-> "find", actor |-> a, email |-> None, as |-> None, invite |-> i])

\* Mutant: the status is not tested.
Revocable_Any(i) == TRUE

Revocable(i) == invitation[i].status = "pending"

FindInvitation(c) ==
    /\ Reached(c, "find")
    /\ Revocable(call[c].invite)
    /\ Advance(c, "revoke")
    /\ UNCHANGED <<vars, invitation>>

UpdateStatus(c) ==
    /\ Reached(c, "revoke")
    /\ SetStatus(call[c].invite, "revoked")
    /\ Finish(c)
    /\ UNCHANGED vars

\* Forbidden, ALREADY_A_MEMBER, INVITATION_ALREADY_SENT, INVITATION_EXPIRED,
\* INVITATION_EMAIL_MISMATCH, not found, or the unique key.
CallRefused(c) ==
    /\ call[c] # None
    /\ LET q == call[c] IN
       \/ q.step = "inviter" /\ ~InvitableBy(role[q.actor], q.as)
       \/ q.step = "invitee" /\ role[q.email] # None
       \/ q.step = "pending" /\ PendingFor(q.email) # {}
       \/ q.step = "token" /\ ~Admissible(q.actor, q.invite)
       \/ q.step \in {"member", "commit"} /\ role[q.actor] # None
       \/ q.step = "find" /\ ~Revocable(q.invite)
    /\ Finish(c)
    /\ UNCHANGED <<vars, invitation>>

-----------------------------------------------------------------------------
\* A request of WorkspaceMembership, which may change what calls rely on.
MembershipStep(r) ==
    /\ \/ \E op \in Ops, a \in Users, u \in Users, to \in Roles : Start(r, op, a, u, to)
       \/ ReadMember(r) \/ ReadActor(r) \/ CountOwners(r) \/ ReadWorkspace(r)
       \/ FindOtherOwner(r) \/ AssignOwner(r) \/ Write(r) \/ Refused(r)
       \/ ReadCurrent(r) \/ ReadTarget(r) \/ TransferCommit(r) \/ TransferRefused(r)
    /\ history' = [history EXCEPT !.changed = @ \cup
           {c \in Calls : call[c] # None /\ role'[call[c].actor] # role[call[c].actor]}]
    /\ UNCHANGED <<invitation, call, made>>

InvitationsNext ==
    \/ \E r \in Requests : MembershipStep(r)
    \/ \E c \in Calls :
        \/ \E a, u \in Users, as \in InviteRoles : InvitationsTabSend(c, a, u, as)
        \/ ReadInviter(c) \/ ReadInvitee(c) \/ FindPending(c) \/ CreateInvitation(c)
        \/ \E u \in Users, i \in Invites : InvitePageAccept(c, u, i)
        \/ FindByToken(c) \/ FindNoMember(c) \/ AcceptCommit(c)
        \/ \E a \in Users, i \in Invites : InvitationsTabRevoke(c, a, i)
        \/ FindInvitation(c) \/ UpdateStatus(c)
        \/ CallRefused(c)
    \/ \E i \in Invites : Expire(i)

InvitationsSpec == InvitationsInit /\ [][InvitationsNext]_allVars

-----------------------------------------------------------------------------
(* Properties *)

\* Joining by invitation is the Join of WorkspaceMembership: it never touches
\* an existing member's row, so what is proved of that specification holds of
\* the composition.
ImplementsMembership == Spec

\* One address has at most one open invitation, unless two calls invited it
\* at once: the test and the insert of inviteMember are separate.
OneOpenPerAddress ==
    \A i, j \in Invites :
        Open(i) /\ Open(j) /\ i # j /\ invitation[i].email = invitation[j].email
            => invitation[i].email \in history.twins

\* "single-use acceptance, and revocation": whoever becomes a member was
\* invited in that role, by an invitation that is pending and has admitted
\* nobody yet, however often they leave, are removed, or try the link again;
\* and an invitation that was accepted or revoked stays so.  The exception is
\* an invitation that two acceptances or revocations, each of which read it
\* as pending, worked on at once.
AdmitsOnce ==
    [][/\ \A u \in Users :
            role[u] = None /\ role'[u] # None
            => \E i \in Stored :
                  /\ invitation[i].email = u /\ invitation[i].as = role'[u]
                  /\ \/ i \in history.contested
                     \/ invitation[i].status = "pending" /\ i \notin history.used
       /\ \A i \in Stored \ history.contested :
            invitation[i].status # "pending"
            => invitation'[i].status = invitation[i].status]_allVars

\* "Admins can only invite members with role member or viewer": who issues an
\* invitation to be an owner or an admin is an owner at that moment, unless
\* their own role changed during the call (a removed inviter is not tested).
OwnersInviteAdmins ==
    [][\A c \in Calls :
          /\ Reached(c, "create") /\ call'[c] = None
          /\ call[c].as # "member" /\ c \notin history.changed
          => role[call[c].actor] = "owner"]_allVars
=============================================================================
