SPECIFICATION FairSpec
CONSTANTS
    s1 = s1
    s2 = s2
    u1 = u1
    u2 = u2
    Sub = {s1, s2}
    User = {u1, u2}
    Owner <- TwoOwners
    Run = {cron}
    CronRun = cron
    cron = cron
    NoCharge = NoCharge
    MaxDay = 2
    DueDay = {2}
    DaysAhead = 1
    Faults = {}
PROPERTY AlertMailed
