SPECIFICATION FairSpec
CONSTANTS
    Restorers = {}
    Size <- Sizes
    MaxVersion = 2
    MaxFailures = 1
    Signalled = FALSE
PROPERTIES
    ChangesGetSaved
CHECK_DEADLOCK FALSE
