CONSTANTS
    w1 = w1
    w2 = w2
    s1 = s1
    s2 = s2
    None = None
    Jobs = {1, 2}
    Passing = {1}
    MaxAttempts = 2
    Workers = {w1, w2}
    Steady = {w1}
    Sessions = {s1, s2}
SPECIFICATION FairSpec
INVARIANTS
    ResultsAreCounted
PROPERTIES
    SettledIsFinal
    
