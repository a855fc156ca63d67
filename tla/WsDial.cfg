SPECIFICATION DialSpec
CONSTANTS
    MaxLine = 2
    MaxHeaders = 5
    MaxByte = 2
    IPv4 = 2
    IPv6 = 3
INVARIANTS
    AcceptsOnlyUpgrade
    RefusesForReason
    StopsAtBlankLine
PROPERTIES
    ThroughProxy
    DialEnds
\* The dial has succeeded or failed.
CHECK_DEADLOCK FALSE
