CONSTANTS
    chat = chat
    code = code
    p1 = p1
    p2 = p2
    Policies = {p1, p2}
    Models = {chat, code}
    Subjects = {"alice", "bob"}
    Unsafe = {}
    Specs <- MovingSpecs
    Kinds = {"apply", "policy"}
    MaxDisturbances = 2
SPECIFICATION Spec
CHECK_DEADLOCK FALSE
INVARIANT
    UnconfiguredDenied
