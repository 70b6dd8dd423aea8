SPECIFICATION Spec
SYMMETRY Symmetry
CONSTANTS
    r1 = r1
    r2 = r2
    p1 = p1
    p2 = p2
    s1 = s1
    k1 = k1
    l1 = l1
    Request = {r1, r2}
    Password = {p1, p2}
    NoPassword = NoPassword
    Secret = {s1}
    NoSecret = NoSecret
    Challenge = {k1}
    NoChallenge = NoChallenge
    Link = {l1}
    NoLink = NoLink
    MaxFails = 1
    Window = 2
    MaxSessions = 2
    Kinds = {"register", "login", "google", "verify", "refresh", "enable", "disable", "forgot", "reset"}
INVARIANTS
    FactorHasSecret
    LockoutHolds
    OldPasswordOut
PROPERTIES
    SecondFactorHolds
