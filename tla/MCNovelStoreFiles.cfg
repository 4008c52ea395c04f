SPECIFICATION Spec
CONSTANTS
    a1 = a1
    Novels = {n1, n2}
    Authors = {a1}
    AuthorOf <- MCAuthorOf
    Rounds = {r1, r2}
    MaxRetries = 1
    MaxAttempts = 2
    MaxKnown = 1
    MaxStarts = 2
    NoEntry = NoEntry
    NoRow = NoRow
SYMMETRY Symmetry
PROPERTIES
    FailedDeleteKeepsFiles
CHECK_DEADLOCK FALSE
