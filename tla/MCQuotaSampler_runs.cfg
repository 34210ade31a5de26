SPECIFICATION FairSpec
CONSTANTS
    Runs = {r1, r2}
    Windows = {w5h}
    MaxClock = 4
CHECK_DEADLOCK FALSE
INVARIANTS
    OnlyCleanProbesShow
    CacheIsLastGood
    SuccessIsWhole
PROPERTY
    RunsEnd
