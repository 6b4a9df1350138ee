SPECIFICATION Spec
CONSTANTS
    Restorers = {}
    Size <- Sizes
    MaxVersion = 3
    MaxFailures = 0
    Signalled = TRUE
INVARIANTS
    ExitSaved
CHECK_DEADLOCK FALSE
