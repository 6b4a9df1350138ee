SPECIFICATION StoreSpec
CONSTANTS
    Slugs = {s1, s2}
    CharNames = {n1}
    Values = {v1}
    Usernames = {admin}
    Hashes = {h1}
    MaxSeq <- CatalogSeq
    MaxEntityID = 0
SYMMETRY Symmetry
INVARIANTS
    StoreTypeOK
    References
    Keys
