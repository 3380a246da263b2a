--------------------------- MODULE MCGameScreen ---------------------------
(* Small instances of GameScreen: two levels that share an id. *)
EXTENDS GameScreen

mcDiffsOf == [l \in Levels |-> IF l = 1 THEN {1, 2} ELSE {1}]
=============================================================================
