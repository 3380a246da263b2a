------------------------------- MODULE Puzzle -------------------------------
(***************************************************************************)
(* The picture puzzle of the clients (webgame/js/core/puzzle.js): pieces   *)
(* that lie next to each other as in the picture form a group, which is    *)
(* dragged as a whole; the pieces it lands on fill the cells it has left.  *)
(*                                                                         *)
(* An order is a function from cells to pieces; a piece is the number of   *)
(* the cell it belongs to.  The sets of all orders are in PuzzleOrders.    *)
(***************************************************************************)
EXTENDS Integers, FiniteSets, Functions

CONSTANTS Rows, Cols, NoMove

ASSUME PuzzleAssumption == {Rows, Cols} \subseteq Nat \ {0, 1}

Cells == 0 .. Rows * Cols - 1
Row(c) == c \div Cols
Col(c) == c % Cols

\* isSolved
Solved(order) == \A c \in Cells : order[c] = c

\* The pairs of cells side by side, the second right of or below the first.
Neighbours ==
    {pair \in Cells \X Cells :
        \/ pair[2] = pair[1] + 1 /\ Row(pair[2]) = Row(pair[1])
        \/ pair[2] = pair[1] + Cols}

\* The cells with pieces that belong side by side as they lie.
Joined(order) ==
    {pair \in Neighbours : <<order[pair[1]], order[pair[2]]>> \in Neighbours
                           /\ order[pair[2]] - order[pair[1]] = pair[2] - pair[1]}

\* groupForCell: grown[i] is what is within i steps of the cell.
GroupOf(order, cell) ==
    LET joined == Joined(order)
        touching(cells) == {b \in Cells : \E a \in cells : {<<a, b>>, <<b, a>>} \cap joined # {}}
        grown[i \in Cells] ==
            IF i = 0 THEN {cell}
            ELSE LET inner == grown[i - 1] IN inner \cup touching(inner)
    IN  grown[Rows * Cols - 1]

\* puzzleGroups
Groups(order) == {GroupOf(order, c) : c \in Cells}

\* breaksAssembledGroup: two pieces of a group that belong side by side are in
\* one group afterwards exactly when they lie side by side again (BreaksAsCoded in
\* StoryScreen_proofs).
Pieces(order) == {<<order[pair[1]], order[pair[2]]>> : pair \in Joined(order)}

\* Mutant: a move is taken back when fewer pieces lie side by side than before.
Loosens(order, next) == Cardinality(Pieces(next)) < Cardinality(Pieces(order))

Breaks(order, next) == ~(Pieces(order) \subseteq Pieces(next))

\* Mutant: a displaced piece takes the cell it is pushed from, also when the
\* group covers that.
NearestLanding(cell, targets, delta) == cell - delta

\* Where the piece of a cell goes that the group covers: against the direction
\* of the move, to the first cell that is not covered.
Landing(cell, targets, delta) ==
    LET free == {k \in 1 .. Rows * Cols : cell - k * delta \notin targets}
    IN  cell - delta * (CHOOSE k \in free : \A j \in free : k <= j)

Shifted(order, group, delta) ==
    LET targets == {c + delta : c \in group}
        pushed == targets \ group
    IN  [c \in Cells |->
            IF c \in targets THEN order[c - delta]
            ELSE IF \E p \in pushed : Landing(p, targets, delta) = c
                 THEN order[CHOOSE p \in pushed : Landing(p, targets, delta) = c]
                 ELSE order[c]]

\* movePuzzleGroup
Move(order, source, target) ==
    LET group == GroupOf(order, source)
        dr == Row(target) - Row(source)
        dc == Col(target) - Col(source)
        inside == \A c \in group : /\ Row(c) + dr \in 0 .. Rows - 1
                                   /\ Col(c) + dc \in 0 .. Cols - 1
        next == Shifted(order, group, target - source)
    IN  IF source = target \/ ~inside \/ Breaks(order, next) THEN NoMove ELSE next

Moves(order) == {Move(order, s, t) : s, t \in Cells} \ {NoMove}
=============================================================================
