CONSTANTS
    Rows = 2
    Cols = 3
    NoMove = NoMove
    None = None
    Nodes <- mcNodes
    Start = 1
    Kind <- mcKind
    NextNode <- mcNext
    Options <- mcOptions
    Spots <- mcSpots
    Required <- mcRequired
    Answer <- mcAnswer
    Shuffles <- mcShuffles
    MaxAttempts = 2
    MaxLoads = 1
    MaxReports = 1
SPECIFICATION Spec
INVARIANTS
    BoardSolvable
    GoesOn
    ReportedAtEnd
PROPERTIES
    StoryIsKept
CHECK_DEADLOCK FALSE
