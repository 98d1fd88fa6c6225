SPECIFICATION FairSpec
CONSTANTS
    t1 = t1
    t2 = t2
    Threads = {t1, t2}
    AllowedThreads = {t1}
    RequiredSuccesses = 2
    RequiredFailures = 2
    MaxOutages = 1
    KeptGenerations = 1
    StartModes = {TRUE}
    CapacityEnabled = FALSE
    PassModes = {FALSE}
    OrphanTurns = TRUE
    InheritedActions = {}
    MaxUnhealthy = 2
    MaxDisturbances = 2
    MaxFaults = 2
PROPERTIES
    RecoveryDischarged
