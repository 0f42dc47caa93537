CONSTANTS
    chat = chat
    code = code
    gold = gold
    free = free
    Subs = {gold, free}
    Models = {chat, code}
    Specs <- Moving
    Kinds = {"apply", "delete", "model", "policy", "optout", "failure", "restart"}
    MaxDisturbances = 2
SPECIFICATION Spec
SYMMETRY Symmetry
CHECK_DEADLOCK FALSE
INVARIANTS
    LimitsEnforced
PROPERTY
    DeletionIsClean
