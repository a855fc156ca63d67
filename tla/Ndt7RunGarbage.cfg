SPECIFICATION Spec
CONSTANTS
    MaxTargets = 2
    MaxRuntime = 1
    UploadTime = 1
    Interval = 0
    MaxClock = 2
INVARIANT SummaryAssigned
\* run() has returned.
CHECK_DEADLOCK FALSE
