CONSTANTS
    u1 = u1
    u2 = u2
    l1 = l1
    l2 = l2
    a1 = a1
    a2 = a2
    d1 = d1
    d2 = d2
    k1 = k1
    k2 = k2
    k3 = k3
    v1 = v1
    v2 = v2
    p1 = p1
    h1 = h1
    h2 = h2
    None = None
    Users = {u1, u2}
    Levels = {l1}
    Attempts = {a1, a2}
    Diffs = {d1, d2}
    Keys = {k1, k2, k3}
    Versions = {v1, v2}
    LevelOf <- mcLevelOf
    NumberOf <- mcNumberOf
    DiffsOf <- mcDiffsOf
    PuzzleVersions <- mcPuzzleVersions
    MaxHints = 1
    ScoreOf <- mcScoreOf
    PointsOf <- mcPointsOf
    Handlers = {h1, h2}
    Requests <- RetryRequests
    Resets <- StrangerResets
SPECIFICATION Spec
INVARIANTS
    LifetimeDominates
    RewardedOnce
    BestIsAttained
PROPERTIES
    TotalsNeverDrop
    AnswersAreStable
    CompletedIsFinal
