---------------------------- MODULE MCNovelStore ----------------------------
EXTENDS NovelStore, TLC

CONSTANT a1

\* One author wrote all the novels: his aggregate is the contended row.
MCAuthorOf(n) == a1

Symmetry == Permutations(Novels) \cup Permutations(Rounds)
=============================================================================
