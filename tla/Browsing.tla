------------------------------ MODULE Browsing ------------------------------
(***************************************************************************)
(* What the app shows of the listings: the pages of a list or of a user's  *)
(* favourites, in the order of creation, of the events' times or of the    *)
(* distance (listings.service.ts), and the nightly clean-up that deletes   *)
(* the events that are over (core.service.ts).                             *)
(*                                                                         *)
(* A walk asks for page after page, each a request of its own, while       *)
(* listings change and time passes.  Listings are numbered in the order of *)
(* their creation; times are hours, places distances from the user.  The   *)
(* behaviour is about a walk or about the clean-up, as part says.          *)
(***************************************************************************)
EXTENDS Integers, FiniteSets, SequencesExt, FiniteSetsExt

CONSTANTS
    ListingData,        \* what a listing may be, as Event and Place below make it
    Queries,        \* what a walk may ask for, as Query below
    HoursPerDay,
    FestivalStart, FestivalEnd,   \* DO_KW_STARTDATE and DO_KW_ENDDATE
    DefaultSize, MaxSize,         \* listings on a page: 20 and 100
    Cap, FetchLimit,              \* read at most: 500 without limit, or 1000
    MaxListings, MaxHours, MaxChanges

ASSUME BrowsingAssumption ==
    /\ {HoursPerDay, DefaultSize, MaxSize, Cap, FetchLimit} \subseteq Nat \ {0}
    /\ FestivalStart \in Nat \ {0}
    /\ {FestivalEnd, MaxListings, MaxHours, MaxChanges} \subseteq Nat

VARIABLES
    part,        \* "walk" or "cleanup", or "none" where other modules act
    listing,     \* the listings that exist: [number -> data]
    favourites,  \* the user's favourites
    hour,        \* the present
    seeded,      \* the festival's categories exist
    festivalIds, \* kodierWocheCategoryIdsCache: "unread", "empty" or "known"
    walk,        \* the walk: what it asks for, where it is, what it has shown
    expired,     \* the clean-up: what it has found to be over
    changed,     \* history: something changed since the walk began
    rescheduled, \* history: listings changed since the clean-up looked
    changesLeft  \* what remains of MaxChanges

table == <<listing, favourites, seeded>>
browsingVars == <<part, table, hour, festivalIds, walk, expired, changed, rescheduled, changesLeft>>

NoHour  == 0                      \* no date, and what precedes every hour
Never == MaxHours + 1           \* follows every hour
Far   == 1000                   \* stands for Infinity
Numbers == 1..MaxListings

\* One of a listing's intervals: recurring ones go on until a date, or for ever.
Interval == [start : 1..MaxHours, end : 1..MaxHours, recurs : BOOLEAN, until : 0..MaxHours]

ASSUME DataAssumption ==
    /\ \A x \in ListingData :
          /\ x.start \in 0..MaxHours /\ x.end \in 0..MaxHours
          /\ x.spans \subseteq Interval /\ x.place \in Int
    /\ \A q \in Queries : /\ q.order \in {"creation", "events", "distance"}
                         /\ q.size \in Nat /\ q.after \in Nat /\ q.before \in Nat

-----------------------------------------------------------------------------
(* Listings                                                                *)

\* A listing that is no event, at a distance or without a position.
Place(distance) ==
    [event |-> FALSE, spans |-> {}, start |-> NoHour, end |-> NoHour,
     place |-> distance, festival |-> FALSE]

\* An event with dates of its own and perhaps intervals [start, end, recurs, until].
DatedEvent(start, end, spans, distance, festival) ==
    [event |-> TRUE, spans |-> spans, start |-> start, end |-> end,
     place |-> distance, festival |-> festival]

\* An event with dates derived from its intervals: the first start, the last end.
Event(spans, distance, festival) ==
    DatedEvent(Min({s.start : s \in spans}), Max({s.end : s \in spans}),
               spans, distance, festival)

Elsewhere == -1  \* a listing without coordinates

\* An interval without a further occurrence.
SpanIsOver(s) == IF s.recurs THEN s.until # NoHour /\ s.until < hour ELSE s.end < hour

\* Slip: one interval that is over is enough.
ExpiredByOneSpan(x) ==
    IF x.spans = {} THEN x.end # NoHour /\ x.end < hour
    ELSE \E s \in x.spans : SpanIsOver(s)

\* isListingExpired: all intervals are over.
IsListingExpired(x) ==
    IF x.spans = {} THEN x.end # NoHour /\ x.end < hour
    ELSE \A s \in x.spans : SpanIsOver(s)

\* computeUpcomingOccurrences has one, if the listing has a start.
HasOccurrence(x) == x.start >= hour

Today == ((hour - 1) \div HoursPerDay) * HoursPerDay + 1

\* getEventPriority: 1 ongoing, 2 later today, 3 on another day, 4 no date, 5 past.
Priority(x) ==
    CASE x.start = NoHour -> 4
      [] x.start # NoHour /\ x.start <= hour /\ (x.end = NoHour \/ x.end > hour) -> 1
      [] x.start > hour /\ x.start >= Today /\ x.start < Today + HoursPerDay -> 2
      [] x.start >= Today + HoursPerDay -> 3
      [] OTHER -> 5

-----------------------------------------------------------------------------
(* Requests                                                                *)

\* order: "creation", "events" or "distance"; size 0 and radius Elsewhere: not given.
Query(order, size, noLimit, mine, festival, after, before, radius) ==
    [order |-> order, size |-> size, noLimit |-> noLimit, mine |-> mine,
     festival |-> festival, after |-> after, before |-> before, radius |-> radius]

NoWalk == [pc |-> "idle"]

\* The app shows nothing and no clean-up runs.
BrowsingOff ==
    /\ part = "none" /\ listing = <<>> /\ favourites = {} /\ hour = 1 /\ seeded = FALSE
    /\ festivalIds = "unread" /\ walk = NoWalk /\ expired = {} /\ changed = FALSE
    /\ rescheduled = {} /\ changesLeft = 0

BrowsingInit ==
    /\ part \in {"walk", "cleanup"}
    /\ listing \in [Numbers -> ListingData]
    /\ favourites = Numbers \ {2}
    /\ hour = IF part = "walk" THEN HoursPerDay ELSE 1
    /\ seeded \in IF part = "walk" THEN BOOLEAN ELSE {TRUE}
    /\ festivalIds = "unread"
    /\ walk = NoWalk
    /\ expired = {}
    /\ changed = FALSE
    /\ rescheduled = {}
    /\ changesLeft = MaxChanges

\* The app begins to walk through the pages of a list.
Open ==
    /\ part = "walk" /\ walk = NoWalk
    /\ \E q \in Queries :
          walk' = [pc |-> "bounds", query |-> q, page |-> 1, shown |-> <<>>]
    /\ changed' = FALSE
    /\ UNCHANGED <<part, table, hour, festivalIds, expired, rescheduled, changesLeft>>

\* applyKodierWocheTemporalBounds looks up the festival's categories, once;
\* the favourites do without.
NeedsFestival(q) == q.festival /\ ~q.mine

GetKodierWocheCategoryIds ==
    /\ walk.pc = "bounds"
    /\ walk' = [walk EXCEPT !.pc = "fetch"]
    /\ IF NeedsFestival(walk.query) /\ festivalIds = "unread"
       THEN festivalIds' = IF seeded THEN "known" ELSE "empty"
       ELSE UNCHANGED festivalIds
    /\ UNCHANGED <<part, table, hour, expired, changed, rescheduled, changesLeft>>

\* Slip: the user's dates replace the festival's.
BoundsOfUser(q) == <<q.after, q.before>>

\* The hours asked for, cut down to the festival's.
Bounds(q) ==
    IF NeedsFestival(q) /\ festivalIds = "known"
    THEN <<Max({FestivalStart, q.after}), Min({FestivalEnd, q.before})>>
    ELSE <<q.after, q.before>>

\* The event begins within the hours, or an interval overlaps them.
InBounds(x, b) ==
    \/ b = <<NoHour, Never>>
    \/ x.start # NoHour /\ b[1] <= x.start /\ x.start <= b[2]
    \/ \E s \in x.spans : s.end >= b[1] /\ s.start <= b[2]

\* buildListingWhere, of which the state and the city of a listing, the search
\* term, filters and dates of publication are left out.
Matching(q) ==
    {i \in DOMAIN listing :
        /\ q.mine => i \in favourites
        /\ q.festival => listing[i].festival
        /\ q.order = "distance" => listing[i].place # Elsewhere
        /\ InBounds(listing[i], Bounds(q))}

PageSize(q) == IF q.noLimit THEN Cap
               ELSE IF q.size = 0 THEN Min({DefaultSize, MaxSize})
               ELSE Min({q.size, MaxSize})

\* Slip: what is skipped is counted in pages of the size asked for.
SkipUncut(q, page) == IF q.noLimit THEN 0
                      ELSE (page - 1) * (IF q.size = 0 THEN DefaultSize ELSE q.size)

Skip(q, page) == IF q.noLimit THEN 0 ELSE (page - 1) * PageSize(q)

\* Sequences of the members of S in a weakly ascending order of a key.
SortedBy(S, key) ==
    {s \in SetToSeqs(S) : \A i \in 1..(Len(s) - 1) : key[s[i]] <= key[s[i + 1]]}

Slice(s, from, n) == SubSeq(s, from + 1, Min({Len(s), from + n}))

\* What is read to be sorted: the limit is applied before any order.
Batches(q) ==
    LET limit == IF q.noLimit THEN Cap ELSE FetchLimit
    IN  kSubset(Min({limit, Cardinality(Matching(q))}), Matching(q))

\* Nearby listings without the events that are over.
StillNear(q, i) ==
    /\ q.radius = Elsewhere \/ listing[i].place <= q.radius
    /\ listing[i].event => /\ listing[i].start # NoHour
                           /\ IF listing[i].end # NoHour THEN listing[i].end >= hour
                              ELSE listing[i].start >= hour

\* A distance of 0 counts as infinite.
NearestFirst(S) ==
    SortedBy(S, [i \in S |-> IF listing[i].place = 0 THEN Far ELSE listing[i].place])

\* sortEventsByTemporalPriority: three groups, each by its start.
ByTime(S) ==
    SortedBy(S, [i \in S |-> Priority(listing[i]) * Far + listing[i].start])

NewestFirst(S) == SortedBy(S, [i \in S |-> -i])

\* The listings in their order, before they are cut into pages.
Ordered(q) ==
    CASE q.order = "creation" -> NewestFirst(Matching(q))
      [] q.order = "events" ->
            UNION {ByTime({i \in b : Priority(listing[i]) \in 1..3}) : b \in Batches(q)}
      [] q.order = "distance" ->
            UNION {NearestFirst({i \in b : StillNear(q, i)}) : b \in Batches(q)}

TotalPages(q, total) == Max({1, (total + PageSize(q) - 1) \div PageSize(q)})

\* One page is read, sorted and cut; the walk ends with the last one there is.
ShowPage(q) ==
    /\ walk.pc = "fetch" /\ walk.query = q
    /\ \E s \in Ordered(q) :
          LET last == q.noLimit \/ walk.page >= TotalPages(q, Len(s))
          IN  walk' = [walk EXCEPT !.pc = IF last THEN "done" ELSE "bounds",
                                   !.page = IF last THEN @ ELSE @ + 1,
                                   !.shown = @ \o Slice(s, Skip(q, walk.page), PageSize(q))]
    /\ UNCHANGED <<part, table, hour, festivalIds, expired, changed, rescheduled, changesLeft>>

ListListings == \E q \in Queries : ~q.mine /\ ShowPage(q)

GetUserFavorites == \E q \in Queries : q.mine /\ ShowPage(q)

-----------------------------------------------------------------------------
(* The clean-up and what happens meanwhile                                 *)

\* cleanupExpiredEventListings reads the events and decides.
FindExpired ==
    /\ part = "cleanup" /\ expired = {}
    /\ expired' = {i \in DOMAIN listing :
                      /\ listing[i].event
                      /\ listing[i].spans # {} \/ listing[i].end # NoHour
                      /\ IsListingExpired(listing[i])}
    /\ expired' # {}
    /\ rescheduled' = {}
    /\ UNCHANGED <<part, table, hour, festivalIds, walk, changed, changesLeft>>

DeleteExpired ==
    /\ expired # {}
    /\ listing' = [i \in DOMAIN listing \ expired |-> listing[i]]
    /\ favourites' = favourites \ expired
    /\ expired' = {}
    /\ changed' = TRUE
    /\ UNCHANGED <<part, seeded, hour, festivalIds, walk, rescheduled, changesLeft>>

Change == changesLeft > 0 /\ changesLeft' = changesLeft - 1 /\ changed' = TRUE

\* A listing is edited: while somebody looks, any other change is as good.
Edit(i) ==
    /\ part = "cleanup" /\ Change
    /\ \E x \in ListingData : listing' = [listing EXCEPT ![i] = x]
    /\ rescheduled' = rescheduled \cup {i}
    /\ UNCHANGED <<part, favourites, seeded, hour, festivalIds, walk, expired>>

\* toggleFavorite.
ToggleFavorite(i) ==
    /\ part = "walk" /\ Change
    /\ favourites' = SymDiff(favourites, {i})
    /\ UNCHANGED <<part, listing, seeded, hour, festivalIds, walk, expired, rescheduled>>

\* The festival's categories are created.
SeedCategories ==
    /\ ~seeded /\ Change
    /\ seeded' = TRUE
    /\ UNCHANGED <<part, listing, favourites, hour, festivalIds, walk, expired, rescheduled>>

Tick ==
    /\ hour < MaxHours
    /\ hour' = hour + 1
    /\ changed' = TRUE
    /\ UNCHANGED <<part, table, festivalIds, walk, expired, rescheduled, changesLeft>>

BrowsingNext ==
    \/ Open \/ GetKodierWocheCategoryIds \/ ListListings \/ GetUserFavorites
    \/ FindExpired \/ DeleteExpired
    \/ \E i \in DOMAIN listing : Edit(i) \/ ToggleFavorite(i)
    \/ SeedCategories \/ Tick

BrowsingSpec == BrowsingInit /\ [][BrowsingNext]_browsingVars

-----------------------------------------------------------------------------
(* Properties                                                              *)

\* What a walk is to show: events that are not over, places within the radius.
Wanted(q) ==
    {i \in Matching(q) :
        CASE q.order = "creation" -> TRUE
          [] q.order = "events" ->
                listing[i].start # NoHour /\
                (listing[i].start > hour \/ listing[i].end = NoHour \/ listing[i].end > hour)
          [] q.order = "distance" ->
                /\ q.radius # Elsewhere => listing[i].place <= q.radius
                /\ listing[i].event =>
                      listing[i].start # NoHour /\
                      Max({listing[i].end, IF listing[i].end = NoHour
                                           THEN listing[i].start ELSE NoHour}) >= hour}

\* i is to come before j: newer, or sooner, what goes on coming first, or nearer,
\* where the place of the user itself is not near.
Precedes(q, i, j) ==
    LET x == listing[i]
        y == listing[j]
        Near(z) == IF z.place = 0 THEN Far ELSE z.place
    IN  CASE q.order = "creation" -> i > j
          [] q.order = "events" -> x.start < y.start
          [] q.order = "distance" -> Near(x) < Near(y)

\* No order, or more matches than are read: a walk may miss or repeat some.
Ambiguous(q) ==
    \/ \E i, j \in Wanted(q) : i # j /\ ~Precedes(q, i, j) /\ ~Precedes(q, j, i)
    \/ Cardinality(Matching(q)) > IF q.noLimit THEN Cap ELSE FetchLimit

\* A user who walks through the pages while nothing changes sees every listing
\* he asked for once and in order, whatever the size of the pages and the sort
\* (listListings, getUserFavorites): the pages, each a request that filters,
\* sorts and cuts for itself, fit together.  It does not hold of listings with
\* the same key, and of more than are read to be sorted.
WalkIsComplete ==
    (walk # NoWalk /\ walk.pc = "done" /\ ~changed /\ ~Ambiguous(walk.query)) =>
        /\ ToSet(walk.shown) = Wanted(walk.query)
        /\ \A m, n \in 1..Len(walk.shown) :
              m < n => Precedes(walk.query, walk.shown[m], walk.shown[n])

\* "Kodier Woche categories must only ever return data inside the festival
\* window": once the categories were known to the process, every listing of
\* theirs that a list shows begins in the window or goes on in it, whatever the
\* dates the user asks for (applyKodierWocheTemporalBounds, buildListingWhere).
FestivalStaysInside ==
    (walk # NoWalk /\ NeedsFestival(walk.query) /\ festivalIds = "known" /\ ~changed) =>
        \A i \in ToSet(walk.shown) :
            \/ listing[i].start \in FestivalStart..FestivalEnd
            \/ \E s \in listing[i].spans : s.end >= FestivalStart /\ s.start <= FestivalEnd

\* Nothing ends before it begins: the code does not see to it.
InOrder(x) ==
    /\ x.end # NoHour => x.start <= x.end
    /\ \A s \in x.spans :
          /\ s.start <= s.end
          /\ s.recurs /\ s.until # NoHour => s.end <= s.until

\* Three places of the code decide whether an event is over: what the clean-up
\* is about to delete is neither shown as going on or to come, nor has it an
\* occurrence somebody may be reminded of, unless it was edited since the
\* clean-up looked, ends before it begins or has dates that are not those of its
\* intervals.
ShownIsKept ==
    \A i \in (expired \cap DOMAIN listing) \ rescheduled :
        LET x == listing[i]
        IN  InOrder(x) /\ (x.spans # {} => x = Event(x.spans, x.place, x.festival)) =>
                Priority(x) \notin 1..3 /\ ~HasOccurrence(x)
=============================================================================
