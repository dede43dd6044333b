CONSTANTS
    Units = {u1}
    Residents = {r1}
    Keys = {k1, k2}
    Contacts = {o1}
    Capacities = {1}
    Requests = {p1, p2}
    Checkers = {c1}
    Usernames = {n1}
    Desks = {}
    Calls = {s1}
    n1 = n1
    Seeded <- OneManager
    NULL = NULL
    DELETED = DELETED
    PARTIAL = PARTIAL
    TTL = 0
    JwtTTL = 0
    Tolerance = 0
    MaxScans = 1
    Retention = 0
    MaxTime = 0

SPECIFICATION GateSpec
SYMMETRY Symmetry

INVARIANTS
    UnitsStay

PROPERTIES
    RevokedIsShutOut
    OnlyTheBoundKeyOpens
    ImplementsDoor
