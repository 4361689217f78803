SPECIFICATION MCSpec
CONSTANTS
    r1 = r1
    r2 = r2
    l1 = l1
    l2 = l2
    l3 = l3
    c1 = c1
    c2 = c2
    Requests = {r1, r2}
    Listings = {l1, l2, l3}
    Cities = {c1, c2}
    MaxRequests = 4
    ListingData <- MCListingData
    Queries <- MCQueries
    HoursPerDay = 2
    FestivalStart = 2
    FestivalEnd = 3
    DefaultSize = 2
    MaxSize = 2
    Cap = 2
    FetchLimit = 3
    MaxListings = 3
    MaxHours = 4
    MaxChanges = 1
SYMMETRY Symmetry
\* All requests may be done.
CHECK_DEADLOCK FALSE
INVARIANTS
    ApprovedWasSeen
    ApprovedIsDated
    DerivedColumnsAgree
    WalkIsComplete
    FestivalStaysInside
    ShownIsKept
PROPERTIES
    SlugNeverGrows
