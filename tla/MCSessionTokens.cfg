CONSTANTS
    s1 = s1
    s2 = s2
    s3 = s3
    s4 = s4
    t1 = t1
    t2 = t2
    None = None
    Sessions = {s1, s2, s3}
    MaxLate = 1
    Tasks = {t1, t2}
SPECIFICATION Spec
SYMMETRY Interchangeable
INVARIANTS
    SingleUse
    OneLivePerLogin
    HeldIsLive
PROPERTY EndedStaysEnded
CHECK_DEADLOCK FALSE
