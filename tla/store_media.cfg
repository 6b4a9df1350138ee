SPECIFICATION StoreSpec
CONSTANTS
    Slugs = {s1}
    CharNames = {n1}
    Values = {v1}
    Usernames = {admin}
    Hashes = {h1}
    MaxSeq <- MediaSeq
    MaxEntityID = 1
SYMMETRY Symmetry
INVARIANTS
    MainPictures
PROPERTIES
    MediaGoneWithEntity
    ImplementsPictures
