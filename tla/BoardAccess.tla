---------------------------- MODULE BoardAccess ----------------------------
(***************************************************************************)
(* RbacGuard (src/common/guards/rbac.guard.ts), which admits a role by its *)
(* weight, and the requests it admits.                                     *)
(*                                                                         *)
(* An admitted request reads what it checks and writes later: between the  *)
(* two it is in flight, and other requests run.                            *)
(***************************************************************************)
EXTENDS WorkspaceRoutes, FiniteSets, FiniteSetsExt

CONSTANTS
    RoleOf,      \* the workspace role of each user, as the member guard reads it
    MaxRequests, \* bound: requests admitted
    MaxInFlight  \* bound: requests in flight at once

ASSUME AccessBounds == {MaxRequests, MaxInFlight} \subseteq Nat
ASSUME RolesAreRoles == \A u \in DOMAIN RoleOf : RoleOf[u] \in ReadRoles

VARIABLES
    inflight,    \* admitted requests that have not finished
    asked        \* requests admitted so far

requestVars == <<inflight, asked>>

-----------------------------------------------------------------------------
\* RbacGuard.canActivate: the lightest role listed is the minimum.
RbacGuard_AnyMember(u, op) == u \in DOMAIN RoleOf /\ op \in Ops(Routes)

RbacGuard(u, op) ==
    /\ u \in DOMAIN RoleOf
    /\ \E r \in ReadRoles : <<op, r>> \in Routes /\ ROLE_WEIGHTS[RoleOf[u]] >= ROLE_WEIGHTS[r]

-----------------------------------------------------------------------------
\* There is room for another request.
MayAsk == asked < MaxRequests /\ Cardinality(inflight) < MaxInFlight

\* A request of user u passes the guard and its reads: data is what it read.
Admit(u, op, data) ==
    /\ MayAsk
    /\ RbacGuard(u, op)
    /\ asked' = asked + 1
    /\ inflight' = inflight \cup {[op |-> op, user |-> u, id |-> asked, data |-> data]}

\* The fields of two records, the first one's where both have them.
Merged(f, g) == [x \in DOMAIN f \cup DOMAIN g |-> IF x \in DOMAIN f THEN f[x] ELSE g[x]]

Finish(r) == inflight' = inflight \ {r} /\ UNCHANGED asked

\* The request goes on to another of its steps.
Continue(r, op) == inflight' = (inflight \ {r}) \cup {[r EXCEPT !.op = op]} /\ UNCHANGED asked

Requested(op) == {r \in inflight : r.op = op}

\* Nobody changes what their role may not: viewers have no request that
\* writes but the ones for their own star, and only owners and admins have one that deletes for good,
\* archives a board or edits field definitions, whichever controller it
\* came through.
RolesRespected ==
    \A r \in inflight :
        /\ RoleOf[r.user] = "viewer" => r.op \in {"board.star", "board.unstar"}
        /\ r.op \in {"board.archive", "board.delete", "list.delete", "card.delete",
                     "field.create", "field.update", "field.delete"}
            => RoleOf[r.user] \in {"owner", "admin"}

=============================================================================
