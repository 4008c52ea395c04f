SPECIFICATION FairSpec
CONSTANTS
    Calls = {c1, c2}
    plain = plain
    paid = paid
    NoAccount = NoAccount
    Pool <- MCPool
    Premium = {paid}
    Strategies <- MCUnpinned
    Cooling = 1
    Interval = 1
    MaxRetries = 1
    MaxStray = 1
INVARIANTS
    OneCallPerAccount
    OneRefreshPerAccount
PROPERTIES
    PacedAfterAnswer
    CallsEnd
