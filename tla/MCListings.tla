----------------------------- MODULE MCListings -----------------------------
(***************************************************************************)
(* A small instance of the listings for TLC: behaviours of their writers,  *)
(* or of those who look at them.                                           *)
(***************************************************************************)
EXTENDS Listings, Browsing, TLC

CONSTANTS r1, r2, l1, l2, l3, c1, c2

Symmetry == Permutations(Requests) \cup Permutations(Listings) \cup Permutations(Cities)

MCInit == \/ Init /\ BrowsingOff
          \/ Init /\ focus = "slug" /\ BrowsingInit

MCNext == \/ part = "none" /\ Next /\ UNCHANGED browsingVars
          \/ part # "none" /\ BrowsingNext /\ UNCHANGED vars

MCSpec == MCInit /\ [][MCNext]_<<vars, browsingVars>>

Once(start, end) == [start |-> start, end |-> end, recurs |-> FALSE, until |-> NoHour]
Weekly(start, end, until) == [start |-> start, end |-> end, recurs |-> TRUE, until |-> until]

\* Places here, at a distance; events with their own dates, without an end, and
\* with dates that are not those of the interval; events with two intervals, and
\* recurring ones with and without an end.
MCListingData ==
    {Place(0), Place(1),
     DatedEvent(1, NoHour, {}, Elsewhere, TRUE),
     DatedEvent(2, 3, {}, 2, TRUE),
     DatedEvent(4, 4, {Once(1, 1)}, 1, FALSE),
     Event({Once(1, 2), Once(3, 4)}, 2, TRUE),
     Event({Weekly(1, 1, 3)}, Elsewhere, TRUE),
     Event({Weekly(3, 4, NoHour)}, 1, FALSE)}

\* Each order, sizes of a page that are too large, too small or not given, lists
\* without limit, favourites, the festival with dates in and beyond it, a radius.
MCQueries ==
    {Query("creation", 1, FALSE, TRUE, FALSE, NoHour, Never, Elsewhere),
     Query("creation", 3, FALSE, FALSE, TRUE, NoHour, Never, Elsewhere),
     Query("creation", 0, TRUE, FALSE, TRUE, 2, 4, Elsewhere),
     Query("events", 1, FALSE, FALSE, FALSE, NoHour, Never, Elsewhere),
     Query("events", 0, FALSE, TRUE, TRUE, NoHour, Never, Elsewhere),
     Query("events", 0, FALSE, FALSE, TRUE, 1, 2, Elsewhere),
     Query("events", 0, TRUE, FALSE, FALSE, NoHour, Never, Elsewhere),
     Query("distance", 1, FALSE, FALSE, FALSE, NoHour, Never, Elsewhere),
     Query("distance", 0, FALSE, TRUE, FALSE, 3, Never, 1)}
=============================================================================
