SPECIFICATION Spec
CONSTANTS
    Jobs = {j1}
    Reloads = {r1, r2}
    Periods = {2, 3}
    Grace = 2
    MaxTime = 7
    MaxEdits = 1
    MaxRestarts = 0
    MaxFaults = 0
INVARIANT
    NoDoubleFire
SYMMETRY ReloadSymmetry
CHECK_DEADLOCK FALSE
