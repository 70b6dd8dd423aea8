SPECIFICATION Spec
CONSTANTS
    j1 = j1
    t1 = t1
    c1 = c1
    None = None
    Jar = {j1}
    Tab = {t1}
    Call = {c1}
    JarOf <- OneJar
    TabOf <- FirstTab
    Second = 2
    AccessLife = 1
    RefreshLife = 3
    MaxNow = 9
    MaxTokens = 3
    MaxEvents = 2
INVARIANT RevokedStaysOut
CHECK_DEADLOCK FALSE
