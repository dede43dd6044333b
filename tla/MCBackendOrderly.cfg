CONSTANTS
    Units = {u1}
    Residents = {r1, r2}
    Keys = {k1, k2}
    Contacts = {c1, c2}
    Capacities = {1, 2}
    Requests = {p1, p2}
    NULL = NULL
    DELETED = DELETED
    PARTIAL = PARTIAL
    TTL = 0
    Retention = 0
    MaxTime = 0

SPECIFICATION OrderlySpec
SYMMETRY Symmetry

INVARIANTS
    CapacityRespected
    AtMostOneOwner
    KeyExactlyWhenActive
    RevocationIsPermanent

PROPERTIES
    ImplementsRegistry
