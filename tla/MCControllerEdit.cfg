CONSTANTS
    chat = chat
    code = code
    gold = gold
    free = free
    Subs = {gold, free}
    Models = {chat}
    Specs <- Kept
    Kinds = {"apply", "delete", "policy"}
    MaxDisturbances = 3
SPECIFICATION Spec
SYMMETRY Symmetry
CHECK_DEADLOCK FALSE
INVARIANTS
    ManualEditsOverwritten
