SPECIFICATION FairSpec
CONSTANTS
    a = a
    b = b
    l1 = l1
    l2 = l2
    w1 = w1
    w2 = w2
    r1 = r1
    b1 = b1
    Texts = {a, b}
    Locales = {l1, l2}
    Asked = {l1}
    Workers = {w1, w2}
    Readers = {r1}
    Broadcasts = {b1}
    Limit = 1
    MaxRetries = 1
    MaxRequeues = 1
    MaxEdits = 1
    MaxFaults = 1
INVARIANTS
    SlotsAreKept
    BroadcastIsTranslated
PROPERTY
    EventuallyTranslated
