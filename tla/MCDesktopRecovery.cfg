SPECIFICATION FairSpec
CONSTANTS
    t1 = t1
    Threads = {t1}
    AllowedThreads = {t1}
    Configs <- AllConfigs
    MaxFailures = 1
    MaxDisturbances = 2
    MaxFaults = 1
INVARIANTS
    TypeOK
    RequestNeverLost
    OneStartPerEvidence
PROPERTIES
    ChangesOnlyInResidualWindow
    StoppedThreadsAttended
    RequestsDecided
