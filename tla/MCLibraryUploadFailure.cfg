SPECIFICATION Spec
CONSTANTS
    b1 = b1
    b2 = b2
    Uploads = {u1, u2}
    Bodies = {b1, b2}
    NoBody = NoBody
    Batches <- MCBatches
    MaxWater = 2
    MaxBegun = 3
    MaxStripped = 1
    Seed = 2
    NoOne = NoOne
SYMMETRY Symmetry
PROPERTIES
    FailureStaysWithItsFile
CHECK_DEADLOCK FALSE
