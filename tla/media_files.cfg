SPECIFICATION Spec
CONSTANTS
    Types = {product}
    Requests = {r1, r2}
    Names = {n1, n2}
    PidName = pid
    MaxEntity = 1
    MaxFiles = 2
    MaxIncidents = 1
SYMMETRY Symmetry
INVARIANTS
    MediaFilesTypeOK
    PicturesServed
    NoOrphans
    OwnFiles
    NeverHalf
PROPERTIES
    UsesPictures
