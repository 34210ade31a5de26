CONSTANTS
    MaxTurns = 2
    MaxChildren = 2
    MaxParts = 2
    MaxFiles = 1
    MaxCleared = 0
SPECIFICATION FairSpec
CHECK_DEADLOCK FALSE
INVARIANTS
    AnswerIsWhole
    FilesAreKept
    FilesArriveOnce
PROPERTIES
    TurnsEnd
    ImplementsReply
