SPECIFICATION StoreSpec
CONSTANTS
    Slugs = {s1, s2}
    CharNames = {n1, n2}
    Values = {v1, v2}
    Usernames = {admin}
    Hashes = {h1}
    MaxSeq <- CharacteristicsSeq
    MaxEntityID = 0
SYMMETRY Symmetry
INVARIANTS
    References
    Keys
    ValuesMatch
