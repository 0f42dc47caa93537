CONSTANTS
    chat = chat
    code = code
    p1 = p1
    p2 = p2
    Policies = {p1, p2}
    Models = {chat}
    Subjects = {"alice", "bob"}
    Unsafe = {}
    Specs <- OneModelSpecs
    Kinds = {"apply", "delete"}
    MaxDisturbances = 3
SPECIFICATION Spec
CHECK_DEADLOCK FALSE
INVARIANT
    NoStaleSubjects
