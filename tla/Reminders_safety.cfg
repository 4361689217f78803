SPECIFICATION Spec
CONSTANTS
    c1 = c1
    c2 = c2
    u1 = u1
    u2 = u2
    l1 = l1
    None = None
    Runs = {c1, c2}
    Users = {u1, u2}
    Listings = {l1}
    OptOut = {u2}
    LockTTL = 1
    MaxTriggers = 3
    MaxFaults = 1
    MaxChanges = 2
CHECK_DEADLOCK FALSE
SYMMETRY RunSymmetry
INVARIANTS
    AtMostOnce
    OptOutRespected
PROPERTIES
    FinishedRunsServeAll
