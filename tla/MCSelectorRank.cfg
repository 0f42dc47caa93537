CONSTANTS
    Names = {1, 2}
    Users = {"alice"}
    Groups = {"team"}
    Models <- TwoModels
    RefLists <- TwoModelRefs
    Priorities = {1, 2}
SPECIFICATION Spec
INVARIANTS
    TypeOK
    InferableIsListed
    DegradedNeedsOwnRateLimit
    UnnamedAgainstNamed
