SPECIFICATION BoundedSpec
CONSTANTS
    Slugs = {s1}
    CharNames = {n1}
    Values = {v1}
    Usernames = {u1, u2}
    Hashes = {h1, h2}
    MaxSeq <- LifeSeq
    MaxEntityID = 0
    Restorers = {r1}
    Persist = TRUE
    MaxDumps = 1
    MaxUnderWay = 2
SYMMETRY Symmetry
INVARIANTS
    AllCopiesConsistent
    OneLoginEverywhere
    UnsavedIsDirty
    NoIdReissued

    
