CONSTANTS
    Units = {u1}
    Residents = {r1}
    Keys = {k1, k2}
    Contacts = {c1, c2}
    Capacities = {1}
    Requests = {p1, p2}
    Me = r1
    Rotation = 2
    Tolerance = 4
    NULL = NULL
    DELETED = DELETED
    PARTIAL = PARTIAL
    TTL = 0
    Retention = 0
    MaxTime = 1

SPECIFICATION DeviceSpec
SYMMETRY Symmetry
VIEW WithoutAudit

INVARIANTS
    BoundKeyIsOnDevice
    ActivatedIsBound
    ShownCodeIsFresh
