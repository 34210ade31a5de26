SPECIFICATION Spec
CONSTANTS
    Chats = {c1}
    Calls = {k1, k2}
    MaxChildren = 2
    MaxSessions = 1
    MaxRestarts = 1
SYMMETRY Symmetric
CHECK_DEADLOCK FALSE
INVARIANTS
    CleanStartsFresh
