CONSTANTS
    Users = {u1, u2, u3}
    Creator = u1
    Requests = {r1}
    None = None
    Ops = {"update", "remove", "leave", "transfer"}
    MaxRows = 2
    Calls = {c1, c2}
    InviteRoles = {"owner", "member"}
    MaxInvites = 2
    MaxCalls = 3
SPECIFICATION InvitationsSpec
SYMMETRY Symmetry
INVARIANT OneOpenPerAddress
PROPERTIES ImplementsMembership AdmitsOnce OwnersInviteAdmins
CHECK_DEADLOCK FALSE
