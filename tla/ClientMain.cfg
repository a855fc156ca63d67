SPECIFICATION Spec
CONSTANT MaxTargets = 2
INVARIANTS
    TypeOK
    StaticServerTested
    AnswerWhole
    QueryAsConfigured
PROPERTY Ends
\* The program has ended.
CHECK_DEADLOCK FALSE
