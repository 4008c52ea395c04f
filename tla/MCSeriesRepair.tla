--------------------------- MODULE MCSeriesRepair ---------------------------
EXTENDS SeriesRepair

\* Novels 1 and 2 are chapters 2 and 1 of series 1; the roster of series 2
\* does not list its novel 3, and has one the library lacks; novel 4 is in no
\* series.
MCHome(n) == IF n \in {1, 2} THEN 1 ELSE IF n = 3 THEN 2 ELSE None
MCRoster(s) == IF s = 1 THEN <<2, 1>> ELSE <<5>>

\* An orphan that never answers comes first.
MCDead == {<<"orphan", 1>>}
=============================================================================
