SPECIFICATION FairSpec
CONSTANTS
    Manual = {m1, m2}
    Interval = 4
    FirstDelay = 1
    MaxRun = 2
    MaxWait = 1
    MaxTime = 13
    MaxManual = 2
INVARIANTS
    KeepaliveTypeOK
    AwakeWithin
    OnSchedule
    StatusFresh
    NextRunAbout
PROPERTIES
    LoopEnds
CHECK_DEADLOCK FALSE
