SPECIFICATION RepairFairSpec
CONSTANTS
    Novels = {1, 2, 3, 4}
    Series = {1, 2}
    None = None
    Home <- MCHome
    Roster <- MCRoster
    Unsigned = {2, 3}
    Dead <- MCDead
    Caps = {1, 2}
    MaxEdits = 1
    MaxKills = 1
PROPERTIES
    NothingSkipped
    RosterIsAuthority
    NoOrphanStarves
CHECK_DEADLOCK FALSE
