SPECIFICATION CatalogueSpec
CONSTANTS
    r1 = r1
    r2 = r2
    c1 = c1
    c2 = c2
    c3 = c3
    t1 = t1
    t2 = t2
    a1 = a1
    Calls = {r1, r2}
    Categories = {c1, c2, c3}
    Tiles = {t1, t2}
    Admins = {a1}
    MaxRequests = 3
    MaxFailures = 1
SYMMETRY Symmetry
\* All requests may be done.
CHECK_DEADLOCK FALSE
INVARIANTS
    SearchIsNotCached
