--------------------------- MODULE MCAuthorFetch ---------------------------
(* Two authors; the list of the first day names both, the second one of them. *)
EXTENDS AuthorFetch

CONSTANTS a1, a2, w1, w2, w3, w4

MCAuthorOf   == (w1 :> a1) @@ (w2 :> a1) @@ (w3 :> a2) @@ (w4 :> a1)
MCScore      == (w1 :> 2) @@ (w2 :> 1) @@ (w3 :> 1) @@ (w4 :> 1)
MCCatalogue0 == (a1 :> <<w2, w1>>) @@ (a2 :> <<w3>>)
MCLists      == <<<<w1, w3>>, <<w4>>>>

=============================================================================
