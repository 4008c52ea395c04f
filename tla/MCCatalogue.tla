----------------------------- MODULE MCCatalogue -----------------------------
EXTENDS Catalogue

\* -2 is a local upload at the time of novel 2; two rows share a shuffle value.
MCShuffle == (-2 :> 1) @@ (1 :> 0) @@ (2 :> 1) @@ (3 :> 2)
MCIds == DOMAIN MCShuffle

Row(l, m, t) == [like |-> l, match |-> m, tag |-> t]
MCLibraries ==
    {(-2 :> Row(1, TRUE, FALSE)) @@ (2 :> Row(1, TRUE, TRUE)) @@ (3 :> Row(0, TRUE, FALSE))}
MCWrites == {Row(0, TRUE, FALSE), Row(1, TRUE, TRUE), Row(2, FALSE, FALSE)}

MCSelections == {{-2}, {1, 2}}

MCSearches ==
    {[kw |-> TRUE, order |-> "like", desc |-> TRUE],
     [kw |-> FALSE, order |-> "id", desc |-> FALSE],
     [kw |-> FALSE, order |-> "random", desc |-> TRUE]}
==============================================================================
