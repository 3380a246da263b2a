CONSTANTS
    u1 = u1
    u2 = u2
    l1 = l1
    a1 = a1
    a2 = a2
    d1 = d1
    d2 = d2
    v1 = v1
    h1 = h1
    None = None
    Users = {u1}
    Levels = {l1}
    Attempts = {a1}
    Diffs = {d1}
    Keys <- mcKeys
    Versions = {v1}
    LevelOf <- mcLevelOf
    NumberOf <- mcNumberOf
    DiffsOf <- mcDiffsOf
    PuzzleVersions <- NoVersions
    MaxHints = 0
    ScoreOf <- mcScoreOf
    PointsOf <- mcScoreOf
    Handlers = {h1}
    Requests <- ClientRequests
    Resets <- NoResets
    MaxTries = 2
    MaxItems = 3
    MaxLate = 0
    Expires = TRUE
    Retires = TRUE
SPECIFICATION FairSyncSpec
 
PROPERTY KeepsPromise
