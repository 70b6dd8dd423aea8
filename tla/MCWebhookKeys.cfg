SPECIFICATION FairSpec
CONSTANTS
    h1 = h1
    h2 = h2
    Hook = {h1, h2}
    CacheTTL = 2
    MaxAge = 1
    Timeout = 1
    MaxVersion = 2
    MaxFailures = 1
    MaxNow = 3
INVARIANTS
    TypeOK
    GenuineNotRefused
    RetiredKeyExpires
PROPERTIES
    WebhookVerified
