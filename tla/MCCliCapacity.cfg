SPECIFICATION Spec
CONSTANTS
    t1 = t1
    t2 = t2
    Threads = {t1, t2}
    AllowedThreads = {t1}
    RequiredSuccesses = 1
    RequiredFailures = 1
    MaxOutages = 2
    KeptGenerations = 1
    StartModes = {TRUE, FALSE}
    CapacityEnabled = TRUE
    PassModes = {FALSE, TRUE}
    OrphanTurns = TRUE
    InheritedActions = {"thread_resumed_active"}
    MaxUnhealthy = 1
    MaxDisturbances = 3
    MaxFaults = 1
INVARIANT
    OutageNeverForgotten
