SPECIFICATION MCSpec
CONSTANTS
    v1 = v1
    v2 = v2
    e1 = e1
    e2 = e2
    e3 = e3
    Requests = {v1, v2}
    MaxTokens = 4
    MaxSends = 2
    MaxExpiries = 2
    MaxCancels = 1
    MaxFaults = 1
    Emits = {e1, e2, e3}
    MaxTroubles = 2
SYMMETRY Symmetry
\* A user may be verified, and all events published, with nothing left to do.
CHECK_DEADLOCK FALSE
INVARIANTS
    OnlyRacingLinksCoexist
    ServicesAgree
    NeverStuck
    EventsArePublished
    OneConnection
