CONSTANTS
    chat = chat
    coder = coder
    ext = ext
    gold = gold
    free = free
    alias = alias
    Models = {chat, coder, ext}
    External = {ext}
    Subs = {gold, free}
    ModelRefs <- RefsOfSubs
    Bodies <- SomeBodies
    NoSub = NoSub
    NoId = NoId
    Limit = 1
    Steps = 2
    Timeout = 1
    MaxChanges = 1
SPECIFICATION FairSpec
CHECK_DEADLOCK FALSE
INVARIANTS
    TypeOK
    ListingExact
    GrantsAreFresh
PROPERTY
    EveryRequestAnswered
