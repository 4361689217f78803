SPECIFICATION FairSpec
CONSTANTS
    r1 = r1
    r2 = r2
    t1 = t1
    t2 = t2
    NoTask = NoTask
    Runners = {r1, r2}
    Tasks = {t1, t2}
    Enabled = {t1}
    BadCron = {t2}
    RpcTasks = {t1}
    LockTTL = 1
    RpcTimeout = 1
    MaxTriggers = 3
    MaxFaults = 1
    MaxRuns = 1
INVARIANTS
    NoStaleStart
    LogAccounting
PROPERTY
    LockUse
    DueIsServed
