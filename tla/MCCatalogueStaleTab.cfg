CONSTANTS
    Ids <- MCIds
    Shuffle <- MCShuffle
    Libraries <- MCLibraries
    Searches <- MCSearches
    Writes <- MCWrites
    Selections <- MCSelections
    PerPage = 2
    CountCap = 1
    BatchCap = 1
    ChunkSize = 1
    MaxEdits = 1
    MaxSearches = 2
    MaxFaults = 1
    MaxSides = 1
SPECIFICATION CatalogueSpec
CHECK_DEADLOCK FALSE
INVARIANTS EveryTabPartitions
