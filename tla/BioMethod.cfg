SPECIFICATION MethodSpec
CONSTANTS
    t1 = t1
    t2 = t2
    t3 = t3
    None = None
    Threads <- MCThreads
INVARIANT UsableMethods
PROPERTIES
    NullOnlyOnFailure
    CallsReturn
