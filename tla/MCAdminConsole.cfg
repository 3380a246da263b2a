CONSTANTS
    c1 = c1
    whole = whole
    part = part
    None = None
    Consoles = {c1}
    Contents = {whole, part}
    Complete = {whole}
    Blank = part
    MaxVersion = 3
    MaxOpening = 2
    MaxInFlight = 2
    Reviewed = {2}
SPECIFICATION Spec
INVARIANTS
    CleanIsKept
PROPERTIES
    VersionsStand
