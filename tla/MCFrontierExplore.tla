------------------------- MODULE MCFrontierExplore -------------------------
EXTENDS FrontierExplore
(* Two frontiers within the radius of each other, one of its own and one   *)
(* that is found behind.                                                   *)
MCPlaces == {0, 2, 3, 6, 7}
MCSeen == {2, 3, 7}
MCReveals == [p \in MCPlaces |-> IF p = 3 THEN {6} ELSE {}]
=============================================================================
