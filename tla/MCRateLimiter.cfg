CONSTANTS
    ca = ca
    cb = cb
    x = x
    Calls <- MCCalls
    Limit <- MCLimit
    Window = 2
    MaxHits = 3
    NULL = NULL

SPECIFICATION Spec

INVARIANTS
    TypeOK

PROPERTIES
    ImplementsQuota
    WindowEnds
