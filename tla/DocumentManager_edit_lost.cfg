SPECIFICATION FairSpec
CONSTANTS
    Docs = {d1}
    Edits = {u1, u2}
    Restores = {}
    Sockets = {k1}
    Sweepers = {}
    MaxEntries = 2
    MaxWaiting = 1
    MaxSaves = 2
    MaxFaults = 0
PROPERTIES EditsPersisted
