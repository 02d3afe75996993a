SPECIFICATION Spec
CONSTANTS
    t1 = t1
    t2 = t2
    u1 = u1
    u2 = u2
    Tabs = {t1, t2}
    UserOf <- MCUserOf
    MaxEdits = 2
    MaxConnects = 3
    MaxFaults = 0
INVARIANT OfflineEditsMerge

CHECK_DEADLOCK FALSE
