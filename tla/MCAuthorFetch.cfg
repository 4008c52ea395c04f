SPECIFICATION FairSpec
CONSTANTS
    a1 = a1
    a2 = a2
    w1 = w1
    w2 = w2
    w3 = w3
    w4 = w4
    Authors = {a1, a2}
    Works = {w1, w2, w3, w4}
    AuthorOf <- MCAuthorOf
    Score <- MCScore
    Chinese = {w1, w2, w3}
    Fragile = {w2}
    Special = {a1, a2}
    Catalogue0 <- MCCatalogue0
    Lists <- MCLists
    Limit = 1
    PageSize = 1
    MaxPages = 3
    Thresholds = {0, 2}
    MaxTasks = 2
    MaxFaults = 1
    MaxChanges = 1
INVARIANTS NoStrayBranch
PROPERTIES MarkedIsHandled ResultIsWhole BranchesEnd
CHECK_DEADLOCK FALSE
