SPECIFICATION Spec
CONSTANTS
    Txn = {t1, t2}
    Session = {s1}
    MaxFeed = 5
    PageSize = 1
    Serialized = TRUE
    MalformedRows = TRUE
    s1 = s1
    t1 = t1
    t2 = t2
SYMMETRY Symmetry
INVARIANTS
    TypeOK
    FreshRows
PROPERTY ReplicaSpec
