------------------------------ MODULE MCPuzzle ------------------------------
(* The board alone, moved by its player, on a grid of 3 x 3 (MCPuzzleStuck.cfg). *)
EXTENDS Puzzle

VARIABLE order   \* this.game.puzzle.order

\* No piece is in its place, as after shuffleDerangement.
Init == order = [c \in Cells |-> <<1, 0, 3, 6, 5, 4, 7, 8, 2>>[c + 1]]
Next == order' \in Moves(order)
Spec == Init /\ [][Next]_order

\* A board that is not solved has a move (the hint that finds none asks to move
\* the groups first, webgame/js/app.js:354).
NeverStuck == Solved(order) \/ Moves(order) # {}
=============================================================================
