SPECIFICATION Spec
CONSTANTS
    Chats = {c1, c2}
    MaxFiles = 2
    Turns = {t1}
    Cap = 1
SYMMETRY Symmetric
CHECK_DEADLOCK FALSE
INVARIANTS
    TrackedUntilSettled
    PendingFilesExist
