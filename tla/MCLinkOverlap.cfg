SPECIFICATION FairSpec
CONSTANTS
    Account = {a1, a2}
    NoAccount = NoAccount
    Merchant = {m1}
    Request = {q1, q2}
    Syncing = {a1}
    Faults = {"plaid", "stop", "exchange"}
    MaxFaults = 1
    a1 = a1
    a2 = a2
    m1 = m1
    q1 = q1
    q2 = q2
INVARIANT TypeOK
PROPERTIES
    NoBankNoLiveSub
    DeletionNeverOrphans
    RemovedStays
    UnlinkRetried
CHECK_DEADLOCK FALSE
