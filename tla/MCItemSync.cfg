SPECIFICATION FairSpec
CONSTANTS
    i1 = i1
    i2 = i2
    w1 = w1
    w2 = w2
    Item = {i1, i2}
    NoItem = NoItem
    Slot = {w1, w2}
    MaxTries = 2
    MaxHead <- HeadByItem
    MaxDeaths = 2
    Faults <- FaultsByItem
INVARIANTS
    TypeOK
    OneSyncPerItem
PROPERTIES
    QueuedJobDelivers
    SyncingEnds
