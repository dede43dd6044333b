CONSTANTS
    Units = {u1}
    Residents = {r1, r2}
    Keys = {k1, k2}
    Contacts = {c1}
    Capacities = {1, 2}
    Requests = {p1, p2}
    NULL = NULL
    DELETED = DELETED
    PARTIAL = PARTIAL
    TTL = 1
    Retention = 1
    MaxTime = 0

SPECIFICATION Spec
SYMMETRY Symmetry

INVARIANTS
    TypeOK
    ReferentialIntegrity
    HandlersOK
    TokenMatchesResident
    OnlyPurgesDeadlock

PROPERTIES
    RevocationIsFinal
    BindingIsFinal
    FullUnitAdmitsNobody
