SPECIFICATION FairSpec
CONSTANTS
    StallTimeout = 1
    OperationTimeout = 2
    SettlingTime = 2
    MaxTurns = 2
    MaxVisits = 1
    MaxFaults = 1
INVARIANTS
    TypeOK
    NoOldWatcherDuringReplacement
PROPERTIES
    OnlyStalledTurnsInterrupted
    InterruptsSpaced
    RequestsServedBeforeRemoved
    HungTurnsResolved
