CONSTANTS
    Units = {}
    Residents = {}
    Keys = {}
    Contacts = {}
    Capacities = {}
    Requests = {}
    Checkers = {c1, c2}
    Usernames = {n1}
    Desks = {d1, d2}
    Calls = {s1}
    n1 = n1
    Seeded <- NoChecker
    NULL = NULL
    DELETED = DELETED
    PARTIAL = PARTIAL
    TTL = 0
    JwtTTL = 0
    Tolerance = 0
    MaxScans = 0
    Retention = 0
    MaxTime = 1

SPECIFICATION GateSpec
SYMMETRY Symmetry

INVARIANTS
    GateTypeOK
    UsernamesUnique

PROPERTIES
    DeactivationIsFinal
    DemotionIsFinal
