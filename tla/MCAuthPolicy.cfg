CONSTANTS
    chat = chat
    code = code
    p1 = p1
    p2 = p2
    Policies = {p1, p2}
    Models = {chat, code}
    Subjects = {"alice", "bob", "quote"}
    Unsafe = {"quote"}
    Specs <- TwoModelSpecs
    Kinds = {"apply", "delete", "route", "model", "tenant", "policy", "optout", "failure", "restart"}
    MaxDisturbances = 2
SPECIFICATION Spec
SYMMETRY Symmetry
CHECK_DEADLOCK FALSE
INVARIANTS
    TypeOK
    GrantsExact
    OidcFollowsTenant
PROPERTY
    DeletionIsClean
