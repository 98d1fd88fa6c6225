SPECIFICATION FairSpec
CONSTANTS
    t1 = t1
    t2 = t2
    Threads = {t1, t2}
    Order <- TwoThreads
    AllowedThreads = {t1, t2}
    Modes = {"cli_turn", "desktop_goal_state"}
    Fallbacks = 1
    RetryLimit = 1
    BackoffInitial = 1
    BackoffMax = 2
    MaxDisturbances = 1
    MaxFaults = 1
INVARIANTS
    TypeOK
    AttemptsAddUp
    RetriesBounded
PROPERTIES
    BackoffHonoured
    OverlapOnlyInResidualWindow
    RetriedOrExhausted
