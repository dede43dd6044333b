CONSTANTS
    Ids = {i1, i2, i3}
    Actions = {a, b}
    PageSize = 1
    MaxTime = 3
    MaxPage = 3
    MaxFetches = 2
    NULL = NULL

SPECIFICATION Spec
SYMMETRY Symmetry

INVARIANTS
    TypeOK
    NoInstantSkipped
    ShownIsSelected
