--------------------------- MODULE MCStoryScreen ---------------------------
(* A story of one node of each kind, with a way back, and a puzzle of 2 x 3. *)
EXTENDS StoryScreen

mcNodes == 1 .. 5
mcKind == <<"hotspot", "puzzle", "choice", "sequence", "ending">>
mcNext == <<2, 3, None, 5, None>>
mcOptions == <<{}, {}, {1, 4}, {}, {}>>
mcSpots == <<{1, 2}, {}, {}, {}, {}>>
mcRequired == <<1, 0, 0, 0, 0>>
mcAnswer == <<<<>>, <<>>, <<>>, <<1, 2>>, <<>>>>

\* An order with moves that carry a group over cells of its own.
mcShuffles == {[c \in Cells |-> <<2, 3, 4, 5, 1, 0>>[c + 1]]}

\* What the theorems suppose of a story holds of this one ...
ASSUME MCStoryAssumption == SequencesOnce

\* ... and what they suppose of a grid holds of 2 x 3 (MCStoryGrid.cfg, which takes
\* no step).
GridAllows == MovesSpoilNothing /\ Shuffles \subseteq Solvable
Still == Next /\ FALSE
=============================================================================
