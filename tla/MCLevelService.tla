--------------------------- MODULE MCLevelService ---------------------------
(* Small instances of LevelService: a two-version level l1 (versions v1 and *)
(* v2) and a puzzle level l2 (version p1).                                  *)
EXTENDS LevelService

CONSTANTS u1, u2, l1, l2, a1, a2, d1, d2, k1, k2, k3, v1, v2, p1, h1, h2

mcLevelOf == [v \in Versions |-> IF v = p1 THEN l2 ELSE l1]
mcNumberOf == [v \in Versions |-> IF v = v2 THEN 2 ELSE 1]
mcDiffsOf ==
    [v \in Versions |-> CASE v = v1 -> {d1, d2} [] v = v2 -> {d1}
                          [] v = p1 -> {}]
mcPuzzleVersions == Versions \cap {p1}
mcScoreOf ==
    [v \in Versions |-> [h \in HintCount |-> IF h = 0 THEN 3 ELSE 2]]
\* v2 is the harder version: its points weigh more.
mcPointsOf ==
    [v \in Versions |-> [h \in HintCount |->
        IF v = v2 THEN mcScoreOf[v][h] + 2 ELSE mcScoreOf[v][h]]]

StartOf(u, k, a, v) ==
    [route |-> "level_start", user |-> u, key |-> k, level |-> mcLevelOf[v],
     attempt |-> a, version |-> v, found |-> {}, hints |-> 0,
     solved |-> FALSE]
ProgressOf(u, k, a, v, ds, n) ==
    [StartOf(u, k, a, v) EXCEPT !.route = "level_progress", !.found = ds,
                                !.hints = n]
CompleteOf(u, k, a, v, ds, n) ==
    [StartOf(u, k, a, v) EXCEPT !.route = "level_complete", !.found = ds,
                                !.hints = n]
SolveOf(u, k, a, n) ==
    [CompleteOf(u, k, a, p1, {}, n) EXCEPT !.solved = TRUE]

\* One player, two attempts on two versions of a level, with progress, hints,
\* a key used again for another body, and a second complete under a new key;
\* another player names the first one's attempt and resets the level.
RetryRequests ==
    {StartOf(u1, k1, a1, v1),
     ProgressOf(u1, k1, a1, v1, {d1}, 1),
     ProgressOf(u1, k2, a1, v1, {d2}, 1),
     CompleteOf(u1, k1, a1, v1, {d2}, 0),
     CompleteOf(u1, k1, a1, v1, {d1, d2}, 0),
     CompleteOf(u1, k2, a1, v1, {d1, d2}, 0),
     StartOf(u1, k2, a2, v2),
     CompleteOf(u1, k3, a2, v2, {d1}, 1),
     StartOf(u2, k1, a1, v1),
     CompleteOf(u2, k1, a1, v1, {d1, d2}, 0)}

NoResets == {}
StrangerResets == {<<u2, l1>>}
=============================================================================
