SPECIFICATION Spec
CONSTANTS
    Capacity = 2
    MaxCount = 3
    MaxBytes = 4
    MaxHandshakes = 1
    PollTimeout = 1
INVARIANTS
    TypeOK
    TransfersExact
PROPERTY TransferEnds
\* The caller has given up, or all bytes have gone both ways.
CHECK_DEADLOCK FALSE
