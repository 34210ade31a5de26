SPECIFICATION FairSpec
CONSTANTS
    MaxRetries = 2
    Threshold = 2
    MaxPids = 3
CHECK_DEADLOCK FALSE
INVARIANTS
    PatientWatchdog
    CalmDrainRunsOut
    RestartReportsNewProcess
    TeardownIsAwaited
PROPERTY
    StuckProcessesExit
