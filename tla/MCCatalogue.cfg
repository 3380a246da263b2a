SPECIFICATION CatalogueSpec
CONSTANTS
    u1 = u1
    u2 = u2
    zh = zh
    en = en
    m1 = m1
    Nil = Nil
    Users <- MCUsers
    Locales <- MCLocales
    Items <- MCItems
    MaxWrites = 2
    MaxRewards = 1
SYMMETRY MCSymmetry
 
INVARIANT RewardsAreEarned
