SPECIFICATION EditFairSpec
CONSTANTS
    Books = {b1, b2}
    Authors = {a1}
    Series = {s1}
    Requests = {r1, r2}
    Null = Null
    Keep = Keep
    OwnName = OwnName
    Unknown = Unknown
    Free = Free
INVARIANTS
    SerialEditsKeepNames
PROPERTY
    EveryRequestEnds
CHECK_DEADLOCK FALSE
