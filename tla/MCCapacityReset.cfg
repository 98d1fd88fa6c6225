SPECIFICATION Spec
CONSTANTS
    t1 = t1
    t2 = t2
    Threads = {t1}
    Order <- OneThread
    AllowedThreads = {t1}
    Modes = {"cli_turn", "desktop_goal_state"}
    Fallbacks = 1
    RetryLimit = 2
    BackoffInitial = 1
    BackoffMax = 2
    MaxDisturbances = 0
    MaxFaults = 1
INVARIANTS
    RetriesSurviveRestart
