SPECIFICATION Spec
CONSTANTS
    Base = 4
    Inline = 2
    Total = 16
    Masks <- MCMasks
    Lengths <- MCLengths
INVARIANTS
    TypeOK
    ServerSeesFrame
    FrameAsSent
    RefusedForReason
\* A frame has been sent or received, or the call has failed.
CHECK_DEADLOCK FALSE
