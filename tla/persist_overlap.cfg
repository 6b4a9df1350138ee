SPECIFICATION FairSpec
CONSTANTS
    Restorers = {r1}
    Size <- Sizes
    MaxVersion = 2
    MaxFailures = 1
    Signalled = TRUE
INVARIANTS
    PersistTypeOK
    WholeUnlessOverlap
    NothingForgotten
    CleanExitSaved
PROPERTIES
    ImplementsDurable
    OverlapsExplained
    EventuallySaved
    ShutdownEnds
CHECK_DEADLOCK FALSE
