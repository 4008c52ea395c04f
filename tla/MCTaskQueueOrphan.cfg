SPECIFICATION Spec
CONSTANTS
    MaxTasks = 2
    MaxSessions = 2
    MaxFaults = 1
INVARIANT
    FailedPassLeavesPending
