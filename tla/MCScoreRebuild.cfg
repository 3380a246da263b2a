CONSTANTS
    u1 = u1
    u2 = u2
    l1 = l1
    l2 = l2
    a1 = a1
    a2 = a2
    d1 = d1
    d2 = d2
    k1 = k1
    k2 = k2
    k3 = k3
    v1 = v1
    v2 = v2
    p1 = p1
    a3 = a3
    c1 = c1
    c2 = c2
    h1 = h1
    h2 = h2
    None = None
    Users = {u1, u2}
    Levels = {l1, l2}
    Attempts = {a1, a2}
    Diffs = {d1, d2}
    Keys = {k1, k2}
    Versions = {v1, v2, p1}
    LevelOf <- mcLevelOf
    NumberOf <- mcNumberOf
    DiffsOf <- mcDiffsOf
    PuzzleVersions <- mcPuzzleVersions
    MaxHints = 1
    ScoreOf <- mcScoreOf
    PointsOf <- mcPointsOf
    Handlers = {h1}
    Requests <- RebuildRequests
    Resets <- LevelResets
    Conns = {c1, c2}
    Rebuilt = {u1}
SYMMETRY ConnSymmetry
SPECIFICATION RebuildSpec
INVARIANTS
    RebuildsTakeTurns
    RowsAgree
    CompletedIsProven
    TotalsMatchRows
PROPERTIES
    DropsHaveCause
