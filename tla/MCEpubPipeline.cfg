SPECIFICATION Spec
CONSTANTS
    Novels = {n1}
    Rounds = {r1, r2}
    plain = plain
    marked = marked
    Keep = Keep
    NoRow = NoRow
    NoText = NoText
    NoBook = NoBook
    Bodies <- MCBodies
    Marked <- MCMarked
    MaxRounds = 2
    MaxFaults = 1
SYMMETRY RoundSymmetry
PROPERTIES SoloRoundWaits FinishedIsMarked MarkedIsFinished FinishedIsSpared
