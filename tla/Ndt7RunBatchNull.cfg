SPECIFICATION Spec
CONSTANTS
    MaxTargets = 2
    MaxRuntime = 1
    UploadTime = 1
    Interval = 0
    MaxClock = 2
INVARIANT BatchSummaryReadable
\* run() has returned.
CHECK_DEADLOCK FALSE
