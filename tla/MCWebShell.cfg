CONSTANTS
    a1 = a1
    a2 = a2
    t1 = t1
    t2 = t2
    None = None
    Accounts = {a1, a2}
    Slots = {t1, t2}
SPECIFICATION Spec
SYMMETRY ShellSymmetry
VIEW ShellView
INVARIANTS
    CanGoOn
    SignedInPlays
CHECK_DEADLOCK FALSE
