CONSTANTS
    chat = chat
    code = code
    gold = gold
    free = free
    Subs = {gold, free}
    Models = {chat}
    Specs <- Kept
    Kinds = {"apply", "delete", "scan", "route", "policy", "failure", "restart"}
    MaxDisturbances = 2
SPECIFICATION FairSpec
CHECK_DEADLOCK FALSE
INVARIANTS
    TypeOK
    LimitsEnforced
PROPERTY
    DeletionCompletes
