SPECIFICATION FairSpec
CONSTANTS
    t1 = t1
    Threads = {t1}
    AllowedThreads = {t1}
    PassModes = {FALSE, TRUE}
    CapacityEnabled = TRUE
    MaxTurns = 3
    MaxDisturbances = 3
    MaxFaults = 1
INVARIANTS
    TypeOK
PROPERTIES
    EvidenceContinuedOnce
    RejectedRetryIsLast
    ChangesOnlyInResidualWindow
    CliKeepsItsThreads
    RecoveryTurnsSeenOut
    StoppedGoalsContinued
