SPECIFICATION Spec
CONSTANTS
    Jobs = {j1}
    Reloads = {r1, r2}
    Periods = {2, 3}
    Grace = 2
    MaxTime = 7
    MaxEdits = 2
    MaxRestarts = 1
    MaxFaults = 1
INVARIANTS
    NoDoubleFireUncrossed
    ExactlyOnce
    CacheMatchesTable
SYMMETRY ReloadSymmetry
CHECK_DEADLOCK FALSE
