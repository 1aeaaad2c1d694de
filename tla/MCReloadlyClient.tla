------------------------- MODULE MCReloadlyClient --------------------------
(* Three calls by two callers of the Reloadly client, with one retry.  A     *)
(* unit of time is 15 s: a timeout is 2 and the skew 4, and a token lives    *)
(* just past the skew.                                                       *)
EXTENDS ReloadlyClient

CONSTANTS c1, c2

TwoCallers == {c1, c2}
ShortLife == {5}
=============================================================================
