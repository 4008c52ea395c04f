SPECIFICATION Spec
CONSTANTS
    Calls = {c1, c2}
    plain = plain
    paid = paid
    NoAccount = NoAccount
    Pool <- MCPool
    Premium = {paid}
    Strategies <- MCStrategies
    Cooling = 1
    Interval = 1
    MaxRetries = 1
    MaxStray = 1
INVARIANT OneThreadPerAccount
