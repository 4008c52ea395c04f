SPECIFICATION EditSpec
CONSTANTS
    Books = {b1}
    Authors = {a1}
    Series = {s1}
    Requests = {r1, r2}
    Null = Null
    Keep = Keep
    OwnName = OwnName
    Unknown = Unknown
    Free = Free
INVARIANT NameWithoutId
CHECK_DEADLOCK FALSE
