--------------------------- MODULE MCScoreRebuild ---------------------------
(* The instance of MCLevelService with the rebuild of the first player's    *)
(* scores.                                                                  *)
EXTENDS ScoreRebuild, MCLevelService, TLC

CONSTANTS a3, c1, c2

\* The rebuilt player has attempts on two versions of a level, worth more
\* score and more points; the other one plays one level twice with a reset in
\* between, takes up attempt ids of the first, plays a puzzle and names
\* differences of another version.
RebuildRequests ==
    {StartOf(u1, k1, a1, v1),
     CompleteOf(u1, k1, a1, v1, {d1, d2}, 0),
     StartOf(u1, k2, a2, v2),
     CompleteOf(u1, k2, a2, v2, {d1}, 1),
     StartOf(u2, k1, a1, v2),
     StartOf(u2, k2, a1, v2),
     ProgressOf(u2, k1, a1, v2, {d2}, 0),
     CompleteOf(u2, k1, a1, v2, {d1}, 0),
     CompleteOf(u2, k2, a1, v2, {d1}, 1),
     StartOf(u2, k2, a2, p1),
     SolveOf(u2, k2, a2, 0)}

\* Connections of the pool differ by nothing but their name.
ConnSymmetry == Permutations({c1, c2})

LevelResets == {<<u1, l1>>, <<u2, l1>>}
=============================================================================
