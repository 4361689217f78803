SPECIFICATION ImagesSpec
CONSTANTS
    r1 = r1
    r2 = r2
    r3 = r3
    Requests = {r1, r2, r3}
    MaxRequests = 4
    MaxClock = 2
    MaxFiles = 2
    MaxFailures = 1
SYMMETRY RequestSymmetry
\* All requests may be done.
CHECK_DEADLOCK FALSE
INVARIANTS
    NoBrokenImage
    NothingLeftBehind
