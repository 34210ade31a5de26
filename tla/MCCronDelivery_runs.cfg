SPECIFICATION FairSpec
CONSTANTS
    Runs = {r1}
    MaxChunks = 3
    MaxCrashes = 2
CHECK_DEADLOCK FALSE
INVARIANTS
    ChunksInOrder
    SuccessMeansSaid
    FailuresAreTold
    EchoesComeOnce
PROPERTIES
    SpoolDrains
