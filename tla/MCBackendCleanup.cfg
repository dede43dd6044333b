CONSTANTS
    Units = {u1}
    Residents = {r1}
    Keys = {k1}
    Contacts = {c1}
    Capacities = {1}
    Requests = {p1, p2}
    NULL = NULL
    DELETED = DELETED
    PARTIAL = PARTIAL
    TTL = 0
    Retention = 0
    MaxTime = 1

SPECIFICATION FairSpec

PROPERTIES
    PurgedTokenNeverActivates
    ValidTokenSurvives
    EveryRequestEnds
    ExpiredRowsGo
