SPECIFICATION Spec
CONSTANTS
    Restorers = {r1}
    Size <- Sizes
    MaxVersion = 3
    MaxFailures = 0
    Signalled = FALSE
INVARIANTS
    SnapshotWhole
CHECK_DEADLOCK FALSE
