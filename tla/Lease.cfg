SPECIFICATION Spec
CONSTANTS
    Daemons = {d1, d2}
    NoDaemon = NoDaemon
    LeaseDuration = 2
    MaxTime = 3
    MaxWorld = 1
CHECK_DEADLOCK FALSE
INVARIANTS
    NoStaleCommit
    WatchdogNotLate
    ReadyIsOwnersRecovery
PROPERTIES
    SupersededStepsDown
    ImplementsSingleWriter
