CONSTANTS
    Users = {u1, u2, u3}
    Creator = u1
    Requests = {r1, r2}
    None = None
    Ops = {"update", "remove", "leave", "transfer"}
    MaxRows = 1
SPECIFICATION Spec
SYMMETRY Symmetry
INVARIANT OwnerIdUnraced
PROPERTY OwnersMakeOwners
CHECK_DEADLOCK FALSE
