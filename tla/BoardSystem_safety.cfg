SPECIFICATION Spec
CONSTANTS
    RoleOf <- MCRoleOf
    MaxRequests = 3
    MaxInFlight = 2
    Board = "b"
    Lists = {"L1", "L2", "L3"}
    Cards = {"c1", "c2", "c3"}
    FirstRows <- MCRows
    PageSize = 2
    Card = "c1"
    HostCard = "c1"
    EditedList = "L1"
    EditedCard = "c1"
    Checklists = {"k1", "k2"}
    Items = {"i1", "i2"}
    Labels = {"l1", "l2"}
    Options = {"o1", "o2"}
    MaxComments = 3
    Files = {"f1", "f2"}
    MaxChanges = 2
    MaxLoads = 2
    MaxDrops = 1
    Members = {ann, bob}
    Outsiders = {eve}
    MaxEvents = 2
    MaxFailures = 1
    Root = "b"
    FirstPlaces <- MCFirstPlaces
    Hidden = {"sub"}
    MaxMoves = 2
    CardIds = {1, 2, 3}
    MaxClicks = 3
    NoteIds = {n1, n2}
    Readers = {r1, r2}
    FreeSlot = FreeSlot
    MaxRedisFaults = 2
INVARIANTS
    WritesPermitted
    TiesExplained
    ContentsKept
    FilesMatchStore
    ScreensRight
    ListenersRight
    CountRight
PROPERTY DropsLand
CHECK_DEADLOCK FALSE
