SPECIFICATION Spec
CONSTANTS
    RequiredSuccesses = 3
    RequiredFailures = 3
    MaxOutages = 7
    MaxFailures = 9
INVARIANTS
    TypeOK
    DeclaredOnlyAfterRun
    EveryOutageAnnounced
PROPERTIES
    AnnouncedOnlyAfterRun
