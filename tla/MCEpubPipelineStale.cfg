SPECIFICATION Spec
CONSTANTS
    Novels = {n1}
    Rounds = {r1, r2}
    plain = before
    marked = after
    Keep = Keep
    NoRow = NoRow
    NoText = NoText
    NoBook = NoBook
    Bodies <- MCBodies
    Marked <- MCBodies
    MaxRounds = 2
    MaxFaults = 1
PROPERTY OldBuildMatches
