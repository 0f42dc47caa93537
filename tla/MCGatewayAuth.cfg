CONSTANTS
    t1 = t1
    t2 = t2
    Keys = {"k"}
    Threads = {t1, t2}
    MetadataCacheTTL = 2
    AuthzCacheTTL = 5
    MaxTime = 5
SPECIFICATION Spec
SYMMETRY Symmetry
INVARIANTS
    TypeOK
    RevocationWindow
    SubscriptionWindow
    PolicyWindow
