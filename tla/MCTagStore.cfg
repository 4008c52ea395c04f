SPECIFICATION Spec
CONSTANTS
    Novels = {n1, n2}
    Tags = {a, b}
    Writers = {w1, w2}
    SourceTags <- MCSourceTags
    MaxOccurs = 2
    NoTag = NoTag
    Absent = Absent
    Idle = Idle
SYMMETRY Symmetry
INVARIANTS
    RefCountExact
PROPERTIES
    AliasedNameStaysAway
    UncrossedRefreshOnlyAdds
CHECK_DEADLOCK FALSE
