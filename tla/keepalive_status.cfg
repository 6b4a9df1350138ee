SPECIFICATION Spec
CONSTANTS
    Manual = {m1}
    Interval = 3
    FirstDelay = 1
    MaxRun = 1
    MaxWait = 0
    MaxTime = 10
    MaxManual = 1
INVARIANT BackgroundTold
CHECK_DEADLOCK FALSE
