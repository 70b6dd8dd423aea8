SPECIFICATION FairSpec
CONSTANTS
    j1 = j1
    t1 = t1
    c1 = c1
    c2 = c2
    None = None
    Jar = {j1}
    Tab = {t1}
    Call = {c1, c2}
    JarOf <- OneJar
    TabOf <- FirstTab
    Second = 2
    AccessLife = 2
    RefreshLife = 3
    MaxNow = 6
    MaxTokens = 3
    MaxEvents = 1
INVARIANTS
    TypeOK
    LoggedOutStaysOut
    NeverBurned
CHECK_DEADLOCK FALSE
PROPERTIES
    EndedStaysEnded
    CallEnds
