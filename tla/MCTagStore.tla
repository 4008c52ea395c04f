---------------------------- MODULE MCTagStore ----------------------------
EXTENDS TagStore, TLC

\* What the source or a user submits: one name, or both.
MCSourceTags == (SUBSET Tags) \ {{}}

Symmetry ==
    Permutations(Novels) \cup Permutations(Writers) \cup Permutations(Tags)
=============================================================================
