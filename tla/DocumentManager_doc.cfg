SPECIFICATION FairSpec
CONSTANTS
    Docs = {d1}
    Edits = {u1}
    Restores = {{r1}, {}}
    Sockets = {k1}
    Sweepers = {w1}
    MaxEntries = 2
    MaxWaiting = 2
    MaxSaves = 2
    MaxFaults = 1
INVARIANTS NoSilentLoss CopiesComplete
PROPERTIES LiveStateGrows WaitersAnswered DirtyIsSaved
