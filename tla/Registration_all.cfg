SPECIFICATION FairSpec
CONSTANTS
    q1 = q1
    q2 = q2
    q3 = q3
    e1 = e1
    e2 = e2
    Requests = {q1, q2, q3}
    WithCity = {q1, q2}
    Emails = {e1, e2}
    EmailOf <- MCEmailOf
    NoSaga = NoSaga
    MaxFaults = 2
CHECK_DEADLOCK FALSE
INVARIANTS
    RegisteredIsComplete
    FailureLeavesNoUser
PROPERTY
    EveryRequestAnswered
