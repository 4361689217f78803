SPECIFICATION Spec
CONSTANTS
    u1 = u1
    u2 = u2
    u3 = u3
    r1 = r1
    r2 = r2
    h1 = h1
    c1 = c1
    c2 = c2
    Users = {u1, u2, u3}
    CityUsers = {u1, u2}
    Requests = {r1, r2}
    Handlers = {h1}
    Creds = {c1, c2}
    Limit = 2
    MaxMails = 2
    MaxRows = 4
    Budgets <- MCBudgets
SYMMETRY Alike
CHECK_DEADLOCK FALSE
INVARIANTS
    BulkReachesOnce
    FailedReachedNobody
    PendingIsUnderWay
    AppsFollowCredentials
