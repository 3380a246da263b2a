SPECIFICATION Spec
CONSTANTS
    k1 = k1
    k2 = k2
    l1 = l1
    l2 = l2
    None = None
    Keys <- MCKeys
    Loads <- MCLoads
    Replaceable <- MCReplaceable
    Limit = 1
    MaxContent = 2
INVARIANT NeverOlderThanKnown
 
CHECK_DEADLOCK FALSE
