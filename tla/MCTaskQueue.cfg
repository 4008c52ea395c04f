SPECIFICATION FairSpec
CONSTANTS
    MaxTasks = 2
    MaxSessions = 2
    MaxFaults = 1
INVARIANTS
    RunAtMostOnce
    FifoPerLane
    ExecutingRowIsRunning
    NeverResumed
    NoLostWakeup
PROPERTIES
    RecoverSparesLive
    EveryRowSettles
    ImplementsLifecycle
