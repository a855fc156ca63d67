SPECIFICATION Spec
CONSTANTS
    Total = 3
    MaxControl = 2
    MaxPayload = 4
INVARIANTS
    TypeOK
    MessageIntact
    PongEchoesPing
    FollowsRfc
PROPERTY RecvmsgEnds
\* The connection has failed or was closed.
CHECK_DEADLOCK FALSE
