SPECIFICATION Spec
CONSTANTS
    s1 = s1
    s2 = s2
    u1 = u1
    u2 = u2
    Sub = {s1, s2}
    User = {u1}
    Owner <- OneOwner
    Run = {cron, manual}
    CronRun = cron
    cron = cron
    manual = manual
    NoCharge = NoCharge
    MaxDay = 1
    DueDay = {1}
    DaysAhead = 1
    Faults = {"crash", "mail"}
SYMMETRY Symmetry
INVARIANTS
    TypeOK
    EmailedOnce
PROPERTIES
    LedgerSpec
    RunCovers
