SPECIFICATION FairSpec
CONSTANTS
    MaxTasks = 1
    MaxSessions = 1
    MaxFaults = 0
PROPERTY
    LegacyRowsAreServed
