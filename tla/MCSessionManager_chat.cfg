SPECIFICATION Spec
CONSTANTS
    Chats = {c1}
    Calls = {k1, k2}
    MaxChildren = 3
    MaxSessions = 1
    MaxRestarts = 2
SYMMETRY Symmetric
CHECK_DEADLOCK FALSE
INVARIANTS
    TimersHaveTheirSession
    LiveChildrenAreOwned
    OneWriterPerConversation
    StoreIsCurrent
    CleanForgets
