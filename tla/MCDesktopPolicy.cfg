SPECIFICATION Spec
CONSTANTS
    t1 = t1
    Threads = {t1}
    AllowedThreads = {t1}
    Configs <- AllConfigs
    MaxFailures = 2
    MaxDisturbances = 0
    MaxFaults = 1
INVARIANTS
    SecondRejectionIsFinal
