SPECIFICATION Spec
CONSTANT MaxFlight = 2
INVARIANTS
    TypeOK
    WaitsAsBlocked
    ErrorIsOwn
PROPERTY OperationEnds
