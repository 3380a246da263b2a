CONSTANTS
    None = None
    Levels = {1, 2}
    DiffsOf <- mcDiffsOf
    Timed = {1}
    FreeHints = 1
    MaxAttempts = 2
    MaxLoads = 1
    MaxItems = 3
SPECIFICATION Spec
INVARIANTS
    EarnedUnlessStrayed
    GameIsSaved
PROPERTIES
    ReportedOnce
    FoundStaysFound
CHECK_DEADLOCK FALSE
