SPECIFICATION AccountsSpec
CONSTANTS
    r1 = r1
    r2 = r2
    u1 = u1
    u2 = u2
    p1 = p1
    p2 = p2
    d1 = d1
    d2 = d2
    d3 = d3
    l1 = l1
    l2 = l2
    v1 = v1
    v2 = v2
    Requests = {r1, r2}
    Users = {u1, u2}
    Phones = {p1, p2}
    Rows = {d1, d2, d3}
    Links = {l1, l2}
    Versions = {v1, v2}
    MaxRequests = 4
    MaxTokens = 2
    MaxFailures = 1
SYMMETRY Symmetry
\* All requests may be done.
CHECK_DEADLOCK FALSE
INVARIANTS
    OneOfEach
    PushFollowsLogin
    LinkWorksOnce
