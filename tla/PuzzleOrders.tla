---------------------------- MODULE PuzzleOrders ----------------------------
(***************************************************************************)
(* The orders of a puzzle's pieces, those it may begin with and those from *)
(* which it can be put together.  TLC computes these sets when it starts,  *)
(* so that what is checked of larger grids extends Puzzle alone.           *)
(***************************************************************************)
EXTENDS Puzzle

\* isPermutation
Orders == {order \in [Cells -> Cells] : IsInjective(order)}

ASSUME NoMoveAssumption == NoMove \notin Orders

\* shuffleDerangement: any order without a piece in its place
Shuffled == {order \in Orders : \A c \in Cells : order[c] # c}

Steps == UNION {{<<order, next>> : next \in Moves(order)} : order \in Orders}

\* The orders from which the picture can be put together: solved ones, and those
\* with a move to one that can.
Solvable ==
    LET within[i \in 0 .. Rows * Cols] ==
            IF i = 0 THEN {order \in Orders : Solved(order)}
            ELSE LET known == within[i - 1]
                 IN  known \cup {step[1] : step \in {s \in Steps : s[2] \in known}}
    IN  within[Rows * Cols]
=============================================================================
