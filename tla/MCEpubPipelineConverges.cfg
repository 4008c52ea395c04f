SPECIFICATION FairSpec
CONSTANTS
    Novels = {n1}
    Rounds = {r1}
    plain = plain
    marked = marked
    Keep = Keep
    NoRow = NoRow
    NoText = NoText
    NoBook = NoBook
    Bodies <- MCBodies
    Marked <- MCMarked
    MaxRounds = 2
    MaxFaults = 1
PROPERTY Converges
