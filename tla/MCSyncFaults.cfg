CONSTANTS
    u1 = u1
    u2 = u2
    l1 = l1
    a1 = a1
    a2 = a2
    d1 = d1
    d2 = d2
    v1 = v1
    h1 = h1
    None = None
    Users = {u1}
    Levels = {l1}
    Attempts = {a1, a2}
    Diffs = {d1}
    Keys <- mcKeys
    Versions = {v1}
    LevelOf <- mcLevelOf
    NumberOf <- mcNumberOf
    DiffsOf <- mcDiffsOf
    PuzzleVersions <- NoVersions
    MaxHints = 0
    ScoreOf <- mcScoreOf
    PointsOf <- mcScoreOf
    Handlers = {h1}
    Requests <- ClientRequests
    Resets <- NoResets
    MaxTries = 2
    MaxItems = 2
    MaxLate = 1
    Expires = FALSE
    Retires = TRUE
SPECIFICATION SyncSpec
SYMMETRY AttemptSymmetry
INVARIANTS
    ResolvesWhatItSent
    SyncedIsTrue
    InOrder
PROPERTY NeverGivenUp
