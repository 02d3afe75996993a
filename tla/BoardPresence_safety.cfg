CONSTANTS
    s1 = s1
    s2 = s2
    s3 = s3
    u1 = u1
    u2 = u2
    Sockets = {s1, s3}
    Users = {u1, u2}
    UserOf <- TwoSockets
    HashOf <- SameHash
    PaletteSize = 2
    Nil = Nil
    First = s1
    MaxOddBeats = 1
SPECIFICATION Spec
INVARIANTS ListedWhileViewed RosterSettles DistinctColours
PROPERTY GhostsLeave
CHECK_DEADLOCK FALSE
