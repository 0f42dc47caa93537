CONSTANTS
    k1 = k1
    t1 = t1
    t2 = t2
    Ids = {k1}
    NoId = NoId
    Users = {"alice", "root"}
    Admins = {"root"}
    Subs = {"basic"}
    Threads = {t1, t2}
    Durations = {0, 2, 3, 4}
    MaxRegular = 3
    MaxEphemeral = 2
    Grace = 1
    MintHorizon = 1
    MaxTime = 5
    MaxTouch = 1
SPECIFICATION FairSpec
INVARIANTS
    TypeOK
    ValidationSound
    RevokeReplyShowsRevoked
    StatusAgreesWithValidation
    LifetimeBounded
    GraceProtectsAccepted
PROPERTY
    OneWayLifecycle
    EphemeralKeysGo
