--------------------------- MODULE ListingsProofs ---------------------------
(***************************************************************************)
(* Proofs about the listings, for any number of requests, listings and     *)
(* cities and any bound on the requests; and about the lists the app shows *)
(* of them, for any listings, queries and sizes of pages.                  *)
(***************************************************************************)
EXTENDS Listings, Browsing, WellFoundedInduction, FiniteSetTheorems, SequenceTheorems,
        TLAPS

\* A new listing is a row.
LEMMA NewListingTyped ==
    ASSUME NEW admin \in BOOLEAN, NEW slug \in Nat
    PROVE  NewListing(admin, slug) \in Row
BY DEF NewListing, Row, Statuses, ModerationStatuses, None, Null

\* The earliest begin of intervals is an hour.
LEMMA EarliestIsHour == \A spans \in SUBSET Spans : Earliest(spans) \in 0..3
<1> SUFFICES ASSUME NEW spans \in SUBSET Spans PROVE Earliest(spans) \in 0..3
  OBVIOUS
<1>1. CASE spans = {}
  BY <1>1 DEF Earliest, Null
<1>2. CASE spans # {}
  <2> DEFINE H == {s[1] : s \in spans}
  <2>1. H \subseteq {1, 2} /\ H # {}
    BY <1>2 DEF Spans
  <2>2. \E t \in H : \A s \in spans : t <= s[1]
    <3>1. CASE 1 \in H
      <4>1. \A s \in spans : 1 <= s[1]
        BY DEF Spans
      <4> QED BY <3>1, <4>1
    <3>2. CASE 1 \notin H
      <4>1. 2 \in H
        BY <2>1, <3>2
      <4>2. \A s \in spans : s[1] \in H
        OBVIOUS
      <4>3. \A s \in spans : 2 <= s[1]
        BY <4>2, <2>1, <3>2
      <4> QED BY <4>1, <4>3
    <3> QED BY <3>1, <3>2
  <2>3. Earliest(spans) \in H
    BY <1>2, <2>2 DEF Earliest
  <2> QED BY <2>1, <2>3
<1> QED BY <1>1, <1>2

\* The latest end of intervals is an hour.
LEMMA LatestIsHour == \A spans \in SUBSET Spans : Latest(spans) \in 0..3
<1> SUFFICES ASSUME NEW spans \in SUBSET Spans PROVE Latest(spans) \in 0..3
  OBVIOUS
<1>1. CASE spans = {}
  BY <1>1 DEF Latest, Null
<1>2. CASE spans # {}
  <2> DEFINE H == {s[2] : s \in spans}
  <2>1. H \subseteq {2, 3} /\ H # {}
    BY <1>2 DEF Spans
  <2>2. \E t \in H : \A s \in spans : t >= s[2]
    <3>1. CASE 3 \in H
      <4>1. \A s \in spans : 3 >= s[2]
        BY DEF Spans
      <4> QED BY <3>1, <4>1
    <3>2. CASE 3 \notin H
      <4>1. 2 \in H
        BY <2>1, <3>2
      <4>2. \A s \in spans : s[2] \in H
        OBVIOUS
      <4>3. \A s \in spans : 2 >= s[2]
        BY <4>2, <2>1, <3>2
      <4> QED BY <4>1, <4>3
    <3> QED BY <3>1, <3>2
  <2>3. Latest(spans) \in H
    BY <1>2, <2>2 DEF Latest
  <2> QED BY <2>1, <2>3
<1> QED BY <1>1, <1>2

-----------------------------------------------------------------------------
(* What the operations on a row leave alone and what they establish        *)

\* The columns a request about the cities does not touch.
SameButCities(y, x) ==
    /\ y.slug = x.slug /\ y.owner = x.owner
    /\ y.status = x.status /\ y.mod = x.mod /\ y.dated = x.dated
    /\ y.intervals = x.intervals /\ y.start = x.start /\ y.end = x.end

\* Whatever cities a request names, the primary one is among them.
LEMMA CitiesSynced ==
    ASSUME NEW refs \in CityRefs, NEW x \in Row
    PROVE  /\ SyncCities(x, refs) \in Row
           /\ PrimaryIsListed(SyncCities(x, refs))
           /\ SameButCities(SyncCities(x, refs), x)
<1> DEFINE listed == {refs[i].city : i \in DOMAIN refs}
           y == SyncCities(x, refs)
<1>1. PICK n \in 0..2 : refs \in [1..n -> [city : Cities, flag : Flags]]
  BY DEF CityRefs
<1>2. listed \subseteq Cities /\ FlaggedCities(refs) \subseteq listed
  BY <1>1 DEF FlaggedCities
<1>3. /\ PrimaryCity(refs) \in listed \/ (PrimaryCity(refs) = None /\ listed = {})
      /\ FlaggedCities(refs) # {} => PrimaryCity(refs) \in FlaggedCities(refs)
  <2>1. CASE refs = <<>>
    <3>1. DOMAIN refs = {}
      BY <2>1
    <3> QED BY <3>1, <2>1 DEF FlaggedCities, PrimaryCity
  <2>2. CASE refs # <<>>
    <3>1. 1 \in DOMAIN refs
      BY <1>1, <2>2
    <3>2. CASE FirstFlagged(refs) = {}
      <4>1. PrimaryCity(refs) = refs[1].city
        BY <3>2, <2>2 DEF PrimaryCity
      <4>2. \A j \in {1, 2} : j \in DOMAIN refs => refs[j].flag # "yes"
        BY <1>1, <3>2 DEF FirstFlagged
      <4>3. \A j \in DOMAIN refs : refs[j].flag # "yes"
        BY <1>1, <4>2
      <4>4. FlaggedCities(refs) \subseteq {refs[1].city}
        BY <4>3 DEF FlaggedCities
      <4> QED BY <4>1, <4>4, <3>1
    <3>3. CASE FirstFlagged(refs) # {}
      <4>1. PICK i \in FirstFlagged(refs) : PrimaryCity(refs) = refs[i].city
        BY <3>3, <2>2 DEF PrimaryCity
      <4> QED BY <4>1 DEF FirstFlagged, FlaggedCities
    <3> QED BY <3>2, <3>3
  <2> QED BY <2>1, <2>2
<1>4. FlaggedCities(refs) \subseteq Cities /\ PrimaryCity(refs) \in Cities \cup {None}
  BY <1>2, <1>3
<1>5. y = [x EXCEPT !.cities = listed, !.flagged = FlaggedCities(refs),
                    !.primary = PrimaryCity(refs)]
  BY DEF SyncCities
<1>6. /\ y \in Row
      /\ y.cities = listed /\ y.flagged = FlaggedCities(refs)
      /\ y.primary = PrimaryCity(refs)
      /\ SameButCities(y, x)
  <2> HIDE DEF listed, y
  <2> QED BY <1>2, <1>4, <1>5 DEF Row, SameButCities
<1> QED BY <1>3, <1>6 DEF PrimaryIsListed

Dates == [given : BOOLEAN, intervals : SUBSET Spans,
          start : {Undefined, Null, Hour}, end : {Undefined, Null, Hour}]

SameButDates(y, x) ==
    /\ y.slug = x.slug /\ y.owner = x.owner
    /\ y.status = x.status /\ y.mod = x.mod /\ y.dated = x.dated
    /\ y.cities = x.cities /\ y.flagged = x.flagged /\ y.primary = x.primary

\* The dates an administrator chooses from are dates.
LEMMA ChoicesAreDates == DateChoices \subseteq Dates
<1>1. NoDates \in Dates
  BY DEF Dates, NoDates, Undefined, Null, Hour
<1> QED BY <1>1 DEF DateChoices, Dates

\* A request without dates of its own derives them from the intervals it
\* brings, and leaves intervals and dates alone if it brings none.
LEMMA DatesSynced ==
    ASSUME NEW d \in Dates, NEW x \in Row
    PROVE  /\ SyncDates(x, d) \in Row
           /\ SameButDates(SyncDates(x, d), x)
           /\ ~GivesDates(d) /\ (Derives(d) \/ DatesFollowIntervals(x)) =>
                 DatesFollowIntervals(SyncDates(x, d))
<1> DEFINE I == IF d.given THEN d.intervals ELSE x.intervals
           S == IF d.start # Undefined THEN d.start
                ELSE IF Derives(d) THEN Earliest(d.intervals) ELSE x.start
           E == IF d.end # Undefined THEN d.end
                ELSE IF Derives(d) THEN Latest(d.intervals) ELSE x.end
           y == SyncDates(x, d)
<1>1. /\ d.intervals \in SUBSET Spans /\ d.given \in BOOLEAN
      /\ d.start \in {-1, 0, 2} /\ d.end \in {-1, 0, 2}
      /\ x.intervals \in SUBSET Spans /\ x.start \in 0..3 /\ x.end \in 0..3
  BY DEF Dates, Row, Undefined, Null, Hour
<1>2. Earliest(d.intervals) \in 0..3 /\ Latest(d.intervals) \in 0..3
  BY <1>1, EarliestIsHour, LatestIsHour
<1>3. I \in SUBSET Spans /\ S \in 0..3 /\ E \in 0..3
  BY <1>1, <1>2 DEF Undefined
<1>4. y = [x EXCEPT !.intervals = I, !.start = S, !.end = E]
  BY DEF SyncDates
<1>5. /\ y \in Row
      /\ y.intervals = I /\ y.start = S /\ y.end = E
      /\ SameButDates(y, x)
  <2> HIDE DEF I, S, E, y
  <2> QED BY <1>3, <1>4 DEF Row, SameButDates
<1>6. ASSUME ~GivesDates(d), Derives(d) \/ DatesFollowIntervals(x)
      PROVE  y.start = Earliest(y.intervals) /\ y.end = Latest(y.intervals)
  <2>1. d.start = Undefined /\ d.end = Undefined
    BY <1>6 DEF GivesDates
  <2>2. Derives(d) <=> d.given
    BY <2>1 DEF Derives
  <2> QED BY <1>5, <1>6, <2>1, <2>2 DEF DatesFollowIntervals
<1> QED BY <1>5, <1>6 DEF DatesFollowIntervals

\* A row after an update, for any data the request may carry.
LEMMA RowEdited ==
    ASSUME NEW r \in Requests, target[r] \in Existing, row \in [Existing -> Row],
           candidate[r] \in Nat \cup {NoSlug},
           NEW refs \in CityChoices, NEW d \in DateChoices, NEW tags \in TagChoices
    PROVE  LET x == Touched(r)
               y == Edited(r, refs, d, tags)
           IN  /\ y \in Row
               /\ y.owner = x.owner /\ y.status = x.status /\ y.mod = x.mod
               /\ y.dated = x.dated
               /\ y.slug = IF candidate[r] = NoSlug THEN x.slug ELSE candidate[r]
               /\ PrimaryIsListed(x) => PrimaryIsListed(y)
               /\ ~GivesDates(d) /\ (Derives(d) \/ DatesFollowIntervals(x)) =>
                     DatesFollowIntervals(y)
<1> DEFINE x == Touched(r)
           s == IF candidate[r] = NoSlug THEN x.slug ELSE candidate[r]
           t == IF focus = "slug" THEN tags ELSE x.tags
           w == [x EXCEPT !.slug = s, !.tags = t]
           z == IF focus = "cities" THEN SyncCities(w, refs) ELSE w
           y == Edited(r, refs, d, tags)
<1>1. x \in Row /\ tags \in BOOLEAN
  BY DEF Touched, TagChoices
<1>2. s \in Nat /\ t \in BOOLEAN
  BY <1>1 DEF Row, NoSlug
<1>3. /\ w \in Row /\ w.slug = s
      /\ w.owner = x.owner /\ w.status = x.status /\ w.mod = x.mod /\ w.dated = x.dated
      /\ w.cities = x.cities /\ w.flagged = x.flagged /\ w.primary = x.primary
      /\ w.intervals = x.intervals /\ w.start = x.start /\ w.end = x.end
  <2> HIDE DEF x, s, t
  <2> QED BY <1>1, <1>2 DEF Row
<1>4. y = SyncDates(z, d)
  BY DEF Edited
<1>5. d \in Dates /\ (focus = "cities" => refs \in CityRefs)
  BY ChoicesAreDates DEF CityChoices
<1> HIDE DEF x, s, t, w
<1>6. /\ z \in Row /\ SameButCities(z, w)
      /\ PrimaryIsListed(w) => PrimaryIsListed(z)
  BY <1>3, <1>5, CitiesSynced DEF SameButCities
<1> HIDE DEF z, y
<1>7. /\ y \in Row /\ SameButDates(y, z)
      /\ ~GivesDates(d) /\ (Derives(d) \/ DatesFollowIntervals(z)) => DatesFollowIntervals(y)
  BY <1>4, <1>5, <1>6, DatesSynced
<1>8. PrimaryIsListed(x) => PrimaryIsListed(y)
  BY <1>3, <1>6, <1>7 DEF PrimaryIsListed, SameButDates
<1>9. DatesFollowIntervals(x) => DatesFollowIntervals(z)
  BY <1>3, <1>6 DEF DatesFollowIntervals, SameButCities
<1>10. /\ y.owner = x.owner /\ y.status = x.status /\ y.mod = x.mod
       /\ y.dated = x.dated /\ y.slug = s
  BY <1>3, <1>6, <1>7 DEF SameButCities, SameButDates
<1> QED BY <1>7, <1>8, <1>9, <1>10 DEF x, s, y

\* The row of a new listing.
LEMMA RowCreated ==
    ASSUME NEW admin \in Admins, NEW slug \in Nat,
           NEW refs \in CityChoices, NEW d \in DateChoices
    PROVE  LET y == SyncDates(SyncCities(NewListing(admin, slug), refs), d)
           IN  /\ y \in Row /\ y.slug = slug
               /\ y.status = (IF admin THEN "APPROVED" ELSE "PENDING")
               /\ y.mod = y.status /\ y.dated = admin
               /\ PrimaryIsListed(y)
               /\ ~GivesDates(d) => DatesFollowIntervals(y)
<1> DEFINE x == NewListing(admin, slug)
           z == SyncCities(x, refs)
           y == SyncDates(z, d)
<1>1. admin \in BOOLEAN /\ refs \in CityRefs /\ d \in Dates
  <2>1. <<>> \in [1..0 -> [city : Cities, flag : Flags]]
    OBVIOUS
  <2>2. <<>> \in CityRefs
    BY <2>1 DEF CityRefs
  <2> QED BY <2>2, ChoicesAreDates DEF Admins, CityChoices
<1>2. x \in Row
  BY <1>1, NewListingTyped
<1>3. /\ x.slug = slug /\ x.status = (IF admin THEN "APPROVED" ELSE "PENDING")
      /\ x.mod = x.status /\ x.dated = admin
      /\ x.intervals = {} /\ x.start = Null /\ x.end = Null
  BY DEF NewListing
<1>4. DatesFollowIntervals(x)
  BY <1>3 DEF DatesFollowIntervals, Earliest, Latest
<1> HIDE DEF x
<1>5. z \in Row /\ PrimaryIsListed(z) /\ SameButCities(z, x)
  BY <1>1, <1>2, CitiesSynced
<1>6. DatesFollowIntervals(z)
  BY <1>4, <1>5 DEF DatesFollowIntervals, SameButCities
<1> HIDE DEF z
<1>7. /\ y \in Row /\ SameButDates(y, z)
      /\ ~GivesDates(d) => DatesFollowIntervals(y)
  BY <1>1, <1>5, <1>6, DatesSynced
<1> HIDE DEF y
<1>8. PrimaryIsListed(y)
  BY <1>5, <1>7 DEF PrimaryIsListed, SameButDates
<1>9. /\ y.slug = slug /\ y.status = x.status /\ y.mod = x.mod /\ y.dated = x.dated
  BY <1>3, <1>5, <1>7 DEF SameButCities, SameButDates
<1> QED BY <1>3, <1>7, <1>8, <1>9 DEF x, z, y

-----------------------------------------------------------------------------
(* Types                                                                   *)

\* What the next step of a request relies on: a candidate to look up, and a
\* listing that was created.
Control ==
    \A r \in Requests :
        /\ pc[r] \in {"checkSlug", "insert"} => candidate[r] \in Nat
        /\ pc[r] \in {"tags", "view", "decide", "submit"} => target[r] \in made

\* A row that is replaced or removed leaves the rows typed.
LEMMA RowReplaced ==
    ASSUME TypeOK, NEW l \in Existing, NEW y \in Row, row' = [row EXCEPT ![l] = y]
    PROVE  row' \in [Existing' -> Row] /\ Existing' = Existing
BY DEF TypeOK, Existing

\* The verdicts and the columns an administrator sets give rows.
LEMMA VerdictsTyped ==
    ASSUME NEW r \in Requests, NEW x \in Row, dated[r] \in BOOLEAN
    PROVE  /\ Approve(r, x) \subseteq Row /\ Reopen(x) \subseteq Row
           /\ Reject(x) \in Row /\ RequestChanges(x) \in Row /\ Archive(x) \in Row
           /\ UserEdit(x) \in Row
<1>1. ASSUME NEW s \in Statuses, NEW b \in BOOLEAN
      PROVE  [x EXCEPT !.mod = "APPROVED", !.status = s, !.archived = FALSE, !.dated = b] \in Row
  BY DEF Row, ModerationStatuses
<1>2. \A s \in Statuses : (x.dated \/ (~dated[r] /\ s = "APPROVED")) \in BOOLEAN
  OBVIOUS
<1>3. Approve(r, x) \subseteq Row
  BY <1>1, <1>2 DEF Approve
<1>4. Reopen(x) \subseteq Row
  <2>1. \A s \in Statuses : [x EXCEPT !.mod = "PENDING", !.status = s] \in Row
    BY DEF Row, ModerationStatuses
  <2> QED BY <2>1 DEF Reopen
<1>5. Reject(x) \in Row /\ RequestChanges(x) \in Row /\ Archive(x) \in Row /\ UserEdit(x) \in Row
  BY DEF Reject, RequestChanges, Archive, UserEdit, Row, ModerationStatuses, Statuses
<1> QED BY <1>3, <1>4, <1>5

\* What an administrator makes of a row is a row.
LEMMA SetByAdminTyped == ASSUME NEW x \in Row PROVE SetByAdmin(x) \subseteq Row
BY DEF SetByAdmin, Row

\* A request that begins keeps the types.
LEMMA BeginTyped ==
    ASSUME TypeOK, Control, NEW r \in Requests, NEW label, NEW l, NEW slug,
           Begin(r, label, l, slug),
           \/ label \in {"update", "view", "submit"} /\ l \in made /\ slug = NoSlug
           \/ label = "checkSlug" /\ l \in made \cup {None} /\ slug = 0
    PROVE  TypeOK' /\ Control'
<1>1. label \in Pc \ {"idle"} /\ l \in made \cup {None} /\ slug \in Nat \cup {NoSlug}
  BY DEF Pc
<1>2. {k \in {l} : k # None /\ \E q \in Requests : target[q] = k} \subseteq Listings
  BY <1>1 DEF TypeOK
<1>3. overlap' \subseteq Listings
  BY <1>2 DEF Begin, TypeOK
<1>4. TypeOK'
  BY <1>1, <1>3, ListingsAssumption DEF Begin, TypeOK, Existing
<1>5. Control'
  BY <1>1 DEF Begin, TypeOK, Control
<1> QED BY <1>4, <1>5

\* A request that ends keeps the types.
LEMMA DoneTyped ==
    ASSUME TypeOK, Control, NEW r \in Requests, Done(r), made \subseteq made'
    PROVE  /\ pc' \in [Requests -> Pc]
           /\ target' \in [Requests -> made' \cup {None}]
           /\ candidate' \in [Requests -> Nat \cup {NoSlug}]
           /\ \A q \in Requests : pc'[q] = "idle" => target'[q] = None /\ candidate'[q] = NoSlug
           /\ dated' \in [Requests -> BOOLEAN]
           /\ Control'
BY DEF Done, TypeOK, Control, Pc, NoSlug

\* Every reachable state of Listings is well typed, and each request has found what
\* its step needs.
THEOREM TypeCorrectControl == Spec => [](TypeOK /\ Control)
<1>1. Init => TypeOK /\ Control
  <2> SUFFICES ASSUME Init PROVE TypeOK /\ Control
    OBVIOUS
  <2>1. Existing = {} /\ row \in [{} -> Row]
    BY DEF Init, Existing
  <2> QED BY <2>1, ListingsAssumption DEF Init, TypeOK, Control, Existing, Pc, NoSlug
<1>2. TypeOK /\ Control /\ [Next]_vars => TypeOK' /\ Control'
  <2> SUFFICES ASSUME TypeOK, Control, [Next]_vars PROVE TypeOK' /\ Control'
    OBVIOUS
  <2>1. ASSUME NEW r \in Requests, BeginCreate(r) \/ BeginUpdate(r) \/ SubmitListingForReview(r) \/ View(r)
        PROVE  TypeOK' /\ Control'
    <3>1. Existing \subseteq made
      BY DEF TypeOK
    <3>2. CASE BeginCreate(r)
      BY <3>2, BeginTyped DEF BeginCreate
    <3>3. CASE BeginUpdate(r)
      BY <3>1, <3>3, BeginTyped DEF BeginUpdate
    <3>4. CASE SubmitListingForReview(r)
      BY <3>1, <3>4, BeginTyped DEF SubmitListingForReview
    <3>5. CASE View(r)
      BY <3>1, <3>5, BeginTyped DEF View
    <3> QED BY <2>1, <3>2, <3>3, <3>4, <3>5
  <2>2. ASSUME NEW r \in Requests, CheckSlug(r) PROVE TypeOK' /\ Control'
    <3>1. candidate[r] \in Nat /\ candidate[r] + 1 \in Nat
      BY <2>2 DEF CheckSlug, Control
    <3> QED BY <2>2, <3>1 DEF CheckSlug, TypeOK, Control, Pc, histVars, Existing
  <2>3. ASSUME NEW r \in Requests, SlugConflict(r) \/ UpdateRefused(r) \/ ListingGone(r)
        PROVE  TypeOK' /\ Control'
    <3>1. Done(r) /\ UNCHANGED <<focus, row, made, histVars, overlap, left>>
      BY <2>3 DEF SlugConflict, UpdateRefused, ListingGone
    <3> QED BY <3>1, DoneTyped DEF TypeOK, Existing, histVars
  <2>4. ASSUME NEW r \in Requests, CreateListing(r) PROVE TypeOK' /\ Control'
    <3>1. PICK l \in Listings \ made, admin \in Admins, refs \in CityChoices,
                d \in DateChoices, tags \in TagChoices :
          /\ row' = [k \in Existing \cup {l} |->
                       IF k = l
                       THEN SyncDates(SyncCities(NewListing(admin, candidate[r]), refs), d)
                       ELSE row[k]]
          /\ made' = made \cup {l}
          /\ look' = [look EXCEPT ![l] = IF admin THEN "seen" ELSE "new"]
          /\ explicit' = [explicit EXCEPT ![l] = GivesDates(d)]
          /\ IF tags
             THEN /\ pc' = [pc EXCEPT ![r] = "tags"]
                  /\ target' = [target EXCEPT ![r] = l]
                  /\ candidate' = [candidate EXCEPT ![r] = NoSlug]
                  /\ UNCHANGED dated
             ELSE Done(r)
      BY <2>4 DEF CreateListing
    <3>2. candidate[r] \in Nat /\ UNCHANGED <<focus, stale, manual, overlap, left>>
      BY <2>4 DEF CreateListing, Control
    <3>3. row' \in [Existing' -> Row] /\ Existing' \subseteq made'
      BY <3>1, <3>2, RowCreated DEF TypeOK, Existing
    <3>4. GivesDates(d) \in BOOLEAN
      BY DEF GivesDates
    <3>5. /\ focus' \in Foci /\ made' \subseteq Listings
          /\ look' \in [Listings -> {"new", "seen", "raced"}]
          /\ explicit' \in [Listings -> BOOLEAN]
          /\ stale' \in [Requests -> BOOLEAN] /\ manual' \in [Listings -> BOOLEAN]
          /\ overlap' \subseteq Listings /\ left' \in 0..MaxRequests
      BY <3>1, <3>2, <3>4 DEF TypeOK
    <3>6. CASE tags
      <4>1. /\ pc' \in [Requests -> Pc]
            /\ target' \in [Requests -> made' \cup {None}]
            /\ candidate' \in [Requests -> Nat \cup {NoSlug}]
            /\ \A q \in Requests :
                  pc'[q] = "idle" => target'[q] = None /\ candidate'[q] = NoSlug
            /\ dated' \in [Requests -> BOOLEAN]
            /\ Control'
        BY <3>1, <3>6 DEF TypeOK, Control, Pc, NoSlug
      <4> QED BY <3>3, <3>5, <4>1 DEF TypeOK
    <3>7. CASE ~tags
      BY <3>1, <3>3, <3>5, <3>7, DoneTyped DEF TypeOK
    <3> QED BY <3>6, <3>7
  <2>5. ASSUME NEW r \in Requests, SyncListingTags(r) PROVE TypeOK' /\ Control'
    <3>1. row' \in [Existing -> Row]
      <4>1. \A x \in Row : [x EXCEPT !.tags = TRUE] \in Row
        BY DEF Row
      <4> QED BY <2>5, <4>1 DEF SyncListingTags, TypeOK
    <3>2. Existing' = Existing
      BY <2>5 DEF SyncListingTags, Existing
    <3> QED BY <2>5, <3>1, <3>2, DoneTyped DEF SyncListingTags, TypeOK, histVars
  <2>6. ASSUME NEW r \in Requests, UpdateByUser(r) PROVE TypeOK' /\ Control'
    <3> DEFINE l == target[r]
    <3>1. PICK refs \in CityChoices, d \in DateChoices, tags \in TagChoices :
            /\ row' = [row EXCEPT ![l] = UserEdit(Edited(r, refs, d, tags))]
            /\ explicit' = [explicit EXCEPT ![l] = GivesDates(d) \/ (@ /\ ~Derives(d))]
      BY <2>6 DEF UpdateByUser
    <3>2. l \in Existing /\ l \in Listings
      BY <2>6 DEF UpdateByUser, Writable, TypeOK
    <3>3. Edited(r, refs, d, tags) \in Row
      BY <3>2, RowEdited DEF TypeOK
    <3>4. UserEdit(Edited(r, refs, d, tags)) \in Row
      BY <3>3, VerdictsTyped DEF TypeOK
    <3>5. row' \in [Existing' -> Row] /\ Existing' = Existing
      BY <3>1, <3>2, <3>4, RowReplaced
    <3>6. explicit' \in [Listings -> BOOLEAN]
      BY <3>1, <3>2 DEF TypeOK, GivesDates, Derives
    <3>7. /\ look' \in [Listings -> {"new", "seen", "raced"}]
          /\ stale' \in [Requests -> BOOLEAN]
          /\ Done(r) /\ UNCHANGED <<focus, made, manual, overlap, left>>
      BY <2>6, <3>2 DEF UpdateByUser, TypeOK
    <3> QED BY <3>5, <3>6, <3>7, DoneTyped DEF TypeOK
  <2>7. ASSUME NEW r \in Requests, UpdateByAdmin(r) PROVE TypeOK' /\ Control'
    <3> DEFINE l == target[r]
    <3>1. l \in Existing /\ l \in Listings /\ Touched(r) = row[l] /\ row[l] \in Row
      BY <2>7 DEF UpdateByAdmin, Writable, TypeOK, Touched
    <3>2. row' \in [Existing' -> Row] /\ Existing' = Existing
      <4>1. CASE \E x \in SetByAdmin(Touched(r)) : row' = [row EXCEPT ![l] = x]
        BY <4>1, <3>1, SetByAdminTyped, RowReplaced
      <4>2. CASE \E s \in Statuses : row' = [row EXCEPT ![l].status = s]
        <5>1. PICK s \in Statuses : row' = [row EXCEPT ![l] = [row[l] EXCEPT !.status = s]]
          BY <4>2, <3>1 DEF TypeOK
        <5>2. [row[l] EXCEPT !.status = s] \in Row
          BY <3>1 DEF Row
        <5> QED BY <5>1, <5>2, <3>1, RowReplaced
      <4> QED BY <4>1, <4>2, <2>7 DEF UpdateByAdmin
    <3>3. look' \in [Listings -> {"new", "seen", "raced"}]
      BY <2>7, <3>1 DEF UpdateByAdmin, Decided, TypeOK
    <3>4. /\ manual' \in [Listings -> BOOLEAN]
          /\ Done(r) /\ UNCHANGED <<focus, made, stale, explicit, overlap, left>>
      BY <2>7, <3>1 DEF UpdateByAdmin, TypeOK
    <3> QED BY <3>2, <3>3, <3>4, DoneTyped DEF TypeOK
  <2>8. ASSUME NEW r \in Requests, Resubmit(r) PROVE TypeOK' /\ Control'
    <3>1. row' \in [Existing' -> Row] /\ Existing' = Existing
      <4>1. target[r] \in Existing /\ row[target[r]] \in Row
        BY <2>8 DEF Resubmit, TypeOK
      <4>2. row' = [row EXCEPT ![target[r]] = UserEdit(row[target[r]])]
        BY <2>8, <4>1 DEF Resubmit, UserEdit, TypeOK
      <4>3. UserEdit(row[target[r]]) \in Row
        BY <4>1, VerdictsTyped DEF TypeOK
      <4> QED BY <4>1, <4>2, <4>3, RowReplaced
    <3> QED BY <2>8, <3>1, DoneTyped DEF Resubmit, TypeOK, histVars
  <2>9. ASSUME NEW r \in Requests, ReadPublishAt(r) PROVE TypeOK' /\ Control'
    <3>1. Touched(r).dated \in BOOLEAN
      BY <2>9 DEF ReadPublishAt, Touched, TypeOK, Row
    <3> QED BY <2>9, <3>1 DEF ReadPublishAt, TypeOK, Control, Pc, histVars, Existing
  <2>10. ASSUME NEW r \in Requests, ModerateListing(r) PROVE TypeOK' /\ Control'
    <3> DEFINE l == target[r]
               x == Touched(r)
    <3>1. l \in Existing /\ l \in Listings /\ x \in Row /\ dated[r] \in BOOLEAN
      BY <2>10 DEF ModerateListing, TypeOK, Touched
    <3>2. PICK y \in Approve(r, x) \cup {Reject(x), RequestChanges(x), Archive(x)} \cup Reopen(x) :
              row' = [row EXCEPT ![l] = y]
      BY <2>10 DEF ModerateListing
    <3>3. y \in Row
      BY <3>1, <3>2, VerdictsTyped
    <3>4. row' \in [Existing' -> Row] /\ Existing' = Existing
      BY <3>1, <3>2, <3>3, RowReplaced
    <3>5. /\ look' \in [Listings -> {"new", "seen", "raced"}]
          /\ Done(r) /\ UNCHANGED <<focus, made, stale, manual, explicit, overlap, left>>
      BY <2>10, <3>1 DEF ModerateListing, Decided, TypeOK
    <3> QED BY <3>4, <3>5, DoneTyped DEF TypeOK
  <2>11. ASSUME NEW l \in Listings, Expire(l) PROVE TypeOK' /\ Control'
    BY <2>11 DEF Expire, TypeOK, Control, Existing, histVars
  <2>12. ASSUME UNCHANGED vars PROVE TypeOK' /\ Control'
    BY <2>12 DEF vars, TypeOK, Control, Existing
  <2> QED
    BY <2>1, <2>2, <2>3, <2>4, <2>5, <2>6, <2>7, <2>8, <2>9, <2>10, <2>11, <2>12
    DEF Next, Step
<1> QED BY <1>1, <1>2, PTL DEF Spec

\* Every reachable state of the listings is well typed; in particular a
\* request that works on a listing works on one that was created.
THEOREM TypeCorrect == Spec => []TypeOK
BY TypeCorrectControl, PTL

-----------------------------------------------------------------------------
(* The rows                                                                *)

\* What a moderator's request has read of a date of publication still holds:
\* only an administrator's update takes the date back.
DateReadHolds ==
    \A r \in Requests :
        pc[r] = "decide" /\ dated[r] /\ target[r] \in Existing /\ ~manual[target[r]] =>
            row[target[r]].dated

Rows == ApprovedWasSeen /\ ApprovedIsDated /\ DerivedColumnsAgree /\ DateReadHolds

\* The invariant of one row.
Good(l) ==
    /\ row[l].status = "APPROVED" => look[l] # "new"
    /\ row[l].mod = "APPROVED" /\ row[l].status = "APPROVED" /\ ~manual[l] => row[l].dated
    /\ PrimaryIsListed(row[l])
    /\ explicit[l] \/ DatesFollowIntervals(row[l])

\* What is said of all rows, row by row.
LEMMA RowsByRow == Rows <=> (\A l \in Existing : Good(l)) /\ DateReadHolds
BY DEF Rows, Good, ApprovedWasSeen, ApprovedIsDated, DerivedColumnsAgree

\* A step that leaves the rows and their history alone leaves them good.
LEMMA RowsUntouched ==
    ASSUME Rows, UNCHANGED <<row, look, manual, explicit>>,
           NEW r \in Requests, pc' = [pc EXCEPT ![r] = pc'[r]], pc'[r] # "decide",
           \A q \in Requests \ {r} : target'[q] = target[q] /\ dated'[q] = dated[q],
           pc \in [Requests -> Pc]
    PROVE  Rows'
BY DEF Rows, ApprovedWasSeen, ApprovedIsDated, DerivedColumnsAgree, DateReadHolds, Existing,
       PrimaryIsListed, DatesFollowIntervals

\* A step that replaces one row by another keeps the rows good if the other
\* is, and if a date is taken back by hand only.
LEMMA OneRowReplaced ==
    ASSUME TypeOK, Rows, NEW r \in Requests, NEW l \in Existing, NEW y \in Row,
           Done(r), row' = [row EXCEPT ![l] = y],
           \A k \in Existing \ {l} : /\ look'[k] = look[k]
                                     /\ manual'[k] = manual[k]
                                     /\ explicit'[k] = explicit[k],
           manual[l] => manual'[l],
           y.status = "APPROVED" => look'[l] # "new",
           y.mod = "APPROVED" /\ y.status = "APPROVED" /\ ~manual'[l] => y.dated,
           PrimaryIsListed(row[l]) => PrimaryIsListed(y),
           explicit'[l] \/ DatesFollowIntervals(y),
           row[l].dated => y.dated \/ manual'[l]
    PROVE  Rows'
<1>1. Existing' = Existing /\ row'[l] = y /\ \A k \in Existing \ {l} : row'[k] = row[k]
  BY DEF TypeOK, Existing
<1>2. ASSUME NEW k \in Existing PROVE Good(k)'
  <2>1. Good(k)
    BY RowsByRow
  <2>2. CASE k = l
    BY <1>1, <2>1, <2>2 DEF Good
  <2>3. CASE k # l
    BY <1>1, <2>1, <2>3 DEF Good
  <2> QED BY <2>2, <2>3
<1>3. DateReadHolds'
  <2> SUFFICES ASSUME NEW q \in Requests, pc'[q] = "decide", dated'[q],
                      target'[q] \in Existing, ~manual'[target'[q]]
               PROVE  row'[target'[q]].dated
    BY <1>1 DEF DateReadHolds
  <2>1. q # r /\ pc[q] = "decide" /\ dated[q] /\ target'[q] = target[q]
    BY DEF Done, TypeOK
  <2>2. ~manual[target[q]]
    BY <2>1, <1>1
  <2>3. row[target[q]].dated
    BY <2>1, <2>2 DEF Rows, DateReadHolds
  <2> QED BY <1>1, <2>1, <2>3
<1>4. ApprovedWasSeen' /\ ApprovedIsDated' /\ DerivedColumnsAgree'
  BY <1>1, <1>2 DEF Good, ApprovedWasSeen, ApprovedIsDated, DerivedColumnsAgree
<1> QED BY <1>3, <1>4 DEF Rows

\* In any order of edits, submissions, verdicts and deletions: what is shown as
\* approved was looked at, what is approved has a date, and what a row repeats
\* of its related rows agrees with them.
THEOREM RowsAreGood == Spec => [](ApprovedWasSeen /\ ApprovedIsDated /\ DerivedColumnsAgree)
<1>1. Init => Rows
  BY DEF Init, Rows, ApprovedWasSeen, ApprovedIsDated, DerivedColumnsAgree, DateReadHolds, Existing
<1>2. TypeOK /\ Control /\ Rows /\ [Next]_vars => Rows'
  <2> SUFFICES ASSUME TypeOK, Control, Rows, [Next]_vars PROVE Rows'
    OBVIOUS
  <2>1. ASSUME NEW r \in Requests,
               \/ BeginCreate(r) \/ BeginUpdate(r) \/ SubmitListingForReview(r) \/ View(r)
               \/ CheckSlug(r) \/ SlugConflict(r) \/ UpdateRefused(r) \/ ListingGone(r)
        PROVE  Rows'
    <3>1. CASE BeginCreate(r) \/ BeginUpdate(r) \/ SubmitListingForReview(r) \/ View(r)
      <4>1. PICK label \in Pc \ {"idle", "decide"}, l \in Listings \cup {None},
                 slug \in {0, NoSlug} : Begin(r, label, l, slug)
        BY <3>1 DEF BeginCreate, BeginUpdate, SubmitListingForReview, View, TypeOK, Pc
      <4> QED BY <4>1, RowsUntouched DEF Begin, TypeOK
    <3>2. CASE CheckSlug(r)
      BY <3>2, RowsUntouched DEF CheckSlug, TypeOK, histVars
    <3>3. CASE SlugConflict(r) \/ UpdateRefused(r) \/ ListingGone(r)
      BY <3>3, RowsUntouched DEF SlugConflict, UpdateRefused, ListingGone, Done, TypeOK, histVars
    <3> QED BY <2>1, <3>1, <3>2, <3>3
  <2>2. ASSUME NEW r \in Requests, CreateListing(r) PROVE Rows'
    <3>1. PICK l \in Listings \ made, admin \in Admins, refs \in CityChoices,
                d \in DateChoices, tags \in TagChoices :
          /\ row' = [k \in Existing \cup {l} |->
                       IF k = l
                       THEN SyncDates(SyncCities(NewListing(admin, candidate[r]), refs), d)
                       ELSE row[k]]
          /\ made' = made \cup {l}
          /\ look' = [look EXCEPT ![l] = IF admin THEN "seen" ELSE "new"]
          /\ explicit' = [explicit EXCEPT ![l] = GivesDates(d)]
          /\ IF tags
             THEN /\ pc' = [pc EXCEPT ![r] = "tags"]
                  /\ target' = [target EXCEPT ![r] = l]
                  /\ candidate' = [candidate EXCEPT ![r] = NoSlug]
                  /\ UNCHANGED dated
             ELSE Done(r)
      BY <2>2 DEF CreateListing
    <3>2. candidate[r] \in Nat /\ manual' = manual
      BY <2>2 DEF CreateListing, Control
    <3>3. l \notin Existing /\ Existing' = Existing \cup {l}
      BY <3>1 DEF TypeOK, Existing
    <3>4. \A k \in Existing : /\ row'[k] = row[k] /\ look'[k] = look[k]
                              /\ explicit'[k] = explicit[k]
      BY <3>1, <3>3 DEF TypeOK
    <3>5. \A k \in Existing : Good(k)'
      BY <3>2, <3>4, RowsByRow DEF Good
    <3>6. Good(l)'
      <4>1. row'[l] = SyncDates(SyncCities(NewListing(admin, candidate[r]), refs), d)
        BY <3>1
      <4>2. look'[l] = (IF admin THEN "seen" ELSE "new") /\ explicit'[l] = GivesDates(d)
        BY <3>1 DEF TypeOK
      <4>3. admin \in BOOLEAN
        BY DEF Admins
      <4> QED BY <3>2, <4>1, <4>2, <4>3, RowCreated DEF Good
    <3>7. DateReadHolds'
      <4> SUFFICES ASSUME NEW q \in Requests, pc'[q] = "decide", dated'[q],
                          target'[q] \in Existing', ~manual'[target'[q]]
                   PROVE  row'[target'[q]].dated
        BY DEF DateReadHolds
      <4>1. q # r /\ pc[q] = "decide" /\ dated[q] /\ target'[q] = target[q]
        BY <3>1 DEF Done, TypeOK
      <4>2. target[q] \in Existing
        BY <4>1, <3>1, <3>3 DEF Control
      <4> QED BY <3>2, <3>4, <4>1, <4>2 DEF Rows, DateReadHolds
    <3> QED BY <3>3, <3>5, <3>6, <3>7
            DEF Rows, Good, ApprovedWasSeen, ApprovedIsDated, DerivedColumnsAgree
  <2>3. ASSUME NEW r \in Requests, SyncListingTags(r) PROVE Rows'
    <3> DEFINE l == target[r]
               y == [row[l] EXCEPT !.tags = TRUE]
    <3>1. CASE l \in Existing
      <4>1. row[l] \in Row /\ Good(l)
        BY <3>1, RowsByRow DEF TypeOK
      <4>2. /\ y \in Row /\ y.status = row[l].status /\ y.mod = row[l].mod
            /\ y.dated = row[l].dated /\ y.primary = row[l].primary
            /\ y.cities = row[l].cities /\ y.flagged = row[l].flagged
            /\ y.intervals = row[l].intervals /\ y.start = row[l].start /\ y.end = row[l].end
        BY <4>1 DEF Row
      <4>3. row' = [row EXCEPT ![l] = y]
        BY <2>3, <3>1 DEF SyncListingTags, TypeOK
      <4>4. Done(r) /\ UNCHANGED <<look, manual, explicit>>
        BY <2>3 DEF SyncListingTags, histVars
      <4> HIDE DEF y, l
      <4> QED BY <3>1, <4>1, <4>2, <4>3, <4>4, OneRowReplaced
              DEF Good, PrimaryIsListed, DatesFollowIntervals
    <3>2. CASE l \notin Existing
      <4>1. row' = row
        BY <2>3, <3>2 DEF SyncListingTags, TypeOK
      <4> QED BY <2>3, <4>1, RowsUntouched DEF SyncListingTags, Done, TypeOK, histVars
    <3> QED BY <3>1, <3>2
  <2>4. ASSUME NEW r \in Requests, UpdateByUser(r) PROVE Rows'
    <3> DEFINE l == target[r]
    <3>1. PICK refs \in CityChoices, d \in DateChoices, tags \in TagChoices :
            /\ row' = [row EXCEPT ![l] = UserEdit(Edited(r, refs, d, tags))]
            /\ explicit' = [explicit EXCEPT ![l] = GivesDates(d) \/ (@ /\ ~Derives(d))]
      BY <2>4 DEF UpdateByUser
    <3> DEFINE x == Edited(r, refs, d, tags)
               y == UserEdit(x)
    <3>2. l \in Existing /\ l \in Listings /\ Good(l)
      BY <2>4, RowsByRow DEF UpdateByUser, Writable, TypeOK
    <3>3. /\ x \in Row /\ x.dated = row[l].dated
          /\ PrimaryIsListed(row[l]) => PrimaryIsListed(x)
          /\ ~GivesDates(d) /\ (Derives(d) \/ DatesFollowIntervals(row[l])) =>
                DatesFollowIntervals(x)
      BY <3>2, RowEdited DEF TypeOK, Touched
    <3>4. /\ y \in Row /\ y.status = "PENDING" /\ y.mod = "PENDING" /\ y.dated = x.dated
          /\ y.primary = x.primary /\ y.cities = x.cities /\ y.flagged = x.flagged
          /\ y.intervals = x.intervals /\ y.start = x.start /\ y.end = x.end
      <4> HIDE DEF x
      <4> QED BY <3>3 DEF UserEdit, Row, Statuses, ModerationStatuses
    <3>5. /\ explicit'[l] = (GivesDates(d) \/ (explicit[l] /\ ~Derives(d)))
          /\ \A k \in Existing \ {l} : explicit'[k] = explicit[k] /\ look'[k] = look[k]
          /\ manual' = manual /\ Done(r)
      BY <2>4, <3>1, <3>2 DEF UpdateByUser, TypeOK
    <3>6. /\ PrimaryIsListed(row[l]) => PrimaryIsListed(y)
          /\ DatesFollowIntervals(x) => DatesFollowIntervals(y)
      <4> HIDE DEF x, y
      <4> QED BY <3>3, <3>4 DEF PrimaryIsListed, DatesFollowIntervals
    <3>7. explicit'[l] \/ DatesFollowIntervals(y)
      <4> HIDE DEF x, y
      <4> QED BY <3>2, <3>3, <3>5, <3>6 DEF Good
    <3>8. row' = [row EXCEPT ![l] = y]
      BY <3>1
    <3> HIDE DEF x, y, l
    <3> QED BY <3>2, <3>3, <3>4, <3>5, <3>6, <3>7, <3>8, OneRowReplaced
  <2>5. ASSUME NEW r \in Requests, UpdateByAdmin(r) PROVE Rows'
    <3> DEFINE l == target[r]
    <3>1. /\ l \in Existing /\ l \in Listings /\ Touched(r) = row[l]
          /\ row[l] \in Row /\ Good(l)
      BY <2>5, RowsByRow DEF UpdateByAdmin, Writable, TypeOK, Touched
    <3>2. /\ manual'[l] = TRUE /\ Done(r) /\ explicit' = explicit
          /\ \A k \in Existing \ {l} : manual'[k] = manual[k] /\ look'[k] = look[k]
      BY <2>5, <3>1 DEF UpdateByAdmin, Decided, TypeOK
    <3>3. PICK y \in Row :
            /\ row' = [row EXCEPT ![l] = y]
            /\ y.status = "APPROVED" => look'[l] # "new"
            /\ y.primary = row[l].primary /\ y.cities = row[l].cities
            /\ y.flagged = row[l].flagged
            /\ y.intervals = row[l].intervals /\ y.start = row[l].start /\ y.end = row[l].end
      <4>1. CASE \E x \in SetByAdmin(Touched(r)) : row' = [row EXCEPT ![l] = x] /\ UNCHANGED look
        <5>1. PICK x \in SetByAdmin(row[l]) : row' = [row EXCEPT ![l] = x] /\ UNCHANGED look
          BY <4>1, <3>1
        <5>2. x \in Row
          BY <5>1, <3>1, SetByAdminTyped
        <5>3. /\ x.status = row[l].status
              /\ x.primary = row[l].primary /\ x.cities = row[l].cities
              /\ x.flagged = row[l].flagged
              /\ x.intervals = row[l].intervals /\ x.start = row[l].start /\ x.end = row[l].end
          <6> HIDE DEF l
          <6> QED BY <5>1, <3>1 DEF SetByAdmin, Row
        <5> QED BY <5>1, <5>2, <5>3, <3>1 DEF Good
      <4>2. CASE (\E s \in Statuses : row' = [row EXCEPT ![l].status = s]) /\ Decided(r, l)
        <5>1. PICK s \in Statuses : row' = [row EXCEPT ![l] = [row[l] EXCEPT !.status = s]]
          BY <4>2, <3>1 DEF TypeOK
        <5> DEFINE x == [row[l] EXCEPT !.status = s]
        <5>2. /\ x \in Row
              /\ x.primary = row[l].primary /\ x.cities = row[l].cities
              /\ x.flagged = row[l].flagged
              /\ x.intervals = row[l].intervals /\ x.start = row[l].start /\ x.end = row[l].end
          BY <3>1 DEF Row
        <5>3. look'[l] # "new"
          BY <4>2, <3>1 DEF Decided, TypeOK
        <5> QED BY <5>1, <5>2, <5>3
      <4> QED BY <4>1, <4>2, <2>5 DEF UpdateByAdmin
    <3>4. /\ PrimaryIsListed(row[l]) => PrimaryIsListed(y)
          /\ explicit'[l] \/ DatesFollowIntervals(y)
      BY <3>1, <3>2, <3>3 DEF Good, PrimaryIsListed, DatesFollowIntervals
    <3> HIDE DEF l
    <3> QED BY <3>1, <3>2, <3>3, <3>4, OneRowReplaced
  <2>6. ASSUME NEW r \in Requests, Resubmit(r) PROVE Rows'
    <3> DEFINE l == target[r]
               y == [row[l] EXCEPT !.status = "PENDING", !.mod = "PENDING"]
    <3>1. l \in Existing /\ row[l] \in Row /\ Good(l)
      BY <2>6, RowsByRow DEF Resubmit, TypeOK
    <3>2. /\ y \in Row /\ y.status = "PENDING" /\ y.dated = row[l].dated
          /\ y.primary = row[l].primary /\ y.cities = row[l].cities
          /\ y.flagged = row[l].flagged
          /\ y.intervals = row[l].intervals /\ y.start = row[l].start /\ y.end = row[l].end
      <4> HIDE DEF l
      <4> QED BY <3>1 DEF Row, Statuses, ModerationStatuses
    <3>3. row' = [row EXCEPT ![l] = y]
      BY <2>6, <3>1 DEF Resubmit, TypeOK
    <3>4. Done(r) /\ UNCHANGED <<look, manual, explicit>>
      BY <2>6 DEF Resubmit, histVars
    <3> HIDE DEF l, y
    <3>5. /\ PrimaryIsListed(row[l]) => PrimaryIsListed(y)
          /\ explicit'[l] \/ DatesFollowIntervals(y)
      BY <3>1, <3>2, <3>4 DEF Good, PrimaryIsListed, DatesFollowIntervals
    <3> QED BY <3>1, <3>2, <3>3, <3>4, <3>5, OneRowReplaced
  <2>7. ASSUME NEW r \in Requests, ReadPublishAt(r) PROVE Rows'
    BY <2>7 DEF ReadPublishAt, Touched, TypeOK, histVars, Rows, ApprovedWasSeen, ApprovedIsDated,
                DerivedColumnsAgree, DateReadHolds, Existing, PrimaryIsListed, DatesFollowIntervals
  <2>8. ASSUME NEW r \in Requests, ModerateListing(r) PROVE Rows'
    <3> DEFINE l == target[r]
               x == Touched(r)
    <3>1. /\ l \in Existing /\ l \in Listings /\ x = row[l] /\ x \in Row /\ Good(l)
          /\ dated[r] \in BOOLEAN
      BY <2>8, RowsByRow DEF ModerateListing, TypeOK, Touched
    <3>2. PICK y \in Approve(r, x) \cup {Reject(x), RequestChanges(x), Archive(x)} \cup Reopen(x) :
              row' = [row EXCEPT ![l] = y]
      BY <2>8 DEF ModerateListing
    <3>3. y \in Row
      BY <3>1, <3>2, VerdictsTyped
    <3>4. /\ look'[l] # "new" /\ UNCHANGED <<manual, explicit>> /\ Done(r)
          /\ \A k \in Existing \ {l} : look'[k] = look[k]
      BY <2>8, <3>1 DEF ModerateListing, Decided, TypeOK
    <3>5. dated[r] /\ ~manual[l] => x.dated
      BY <2>8, <3>1 DEF ModerateListing, Rows, DateReadHolds
    <3>6. /\ x.dated => y.dated
          /\ y.mod = "APPROVED" /\ y.status = "APPROVED" => y.dated \/ dated[r]
          /\ y.primary = x.primary /\ y.cities = x.cities /\ y.flagged = x.flagged
          /\ y.intervals = x.intervals /\ y.start = x.start /\ y.end = x.end
      <4> HIDE DEF x, l
      <4>1. CASE y \in Approve(r, x)
        <5>1. PICK s \in Statuses :
                y = [x EXCEPT !.mod = "APPROVED", !.status = s, !.archived = FALSE,
                              !.dated = x.dated \/ (~dated[r] /\ s = "APPROVED")]
          BY <4>1 DEF Approve
        <5>2. y.dated = (x.dated \/ (~dated[r] /\ s = "APPROVED")) /\ y.status = s
          BY <5>1, <3>1 DEF Row
        <5>3. /\ y.primary = x.primary /\ y.cities = x.cities /\ y.flagged = x.flagged
              /\ y.intervals = x.intervals /\ y.start = x.start /\ y.end = x.end
          BY <5>1, <3>1 DEF Row
        <5> QED BY <5>2, <5>3, <3>1
      <4>2. CASE y \in {Reject(x), RequestChanges(x), Archive(x)}
        BY <4>2, <3>1 DEF Reject, RequestChanges, Archive, Row
      <4>3. CASE y \in Reopen(x)
        BY <4>3, <3>1 DEF Reopen, Row
      <4> QED BY <3>2, <4>1, <4>2, <4>3
    <3>7. /\ PrimaryIsListed(row[l]) => PrimaryIsListed(y)
          /\ explicit'[l] \/ DatesFollowIntervals(y)
      <4> HIDE DEF x, l
      <4> QED BY <3>1, <3>4, <3>6 DEF Good, PrimaryIsListed, DatesFollowIntervals
    <3> HIDE DEF x, l
    <3> QED BY <3>1, <3>2, <3>3, <3>4, <3>5, <3>6, <3>7, OneRowReplaced
  <2>9. ASSUME NEW l \in Listings, Expire(l) PROVE Rows'
    BY <2>9 DEF Expire, TypeOK, histVars, Rows, ApprovedWasSeen, ApprovedIsDated,
                DerivedColumnsAgree, DateReadHolds, Existing, PrimaryIsListed, DatesFollowIntervals
  <2>10. ASSUME UNCHANGED vars PROVE Rows'
    BY <2>10 DEF vars, Rows, ApprovedWasSeen, ApprovedIsDated,
                DerivedColumnsAgree, DateReadHolds, Existing, PrimaryIsListed, DatesFollowIntervals
  <2> QED
    BY <2>1, <2>2, <2>3, <2>4, <2>5, <2>6, <2>7, <2>8, <2>9, <2>10 DEF Next, Step
<1>3. Rows => ApprovedWasSeen /\ ApprovedIsDated /\ DerivedColumnsAgree
  BY DEF Rows
<1> QED BY <1>1, <1>2, <1>3, TypeCorrectControl, PTL DEF Spec

\* Nothing is shown as approved that no administrator looked at.
THEOREM ApprovalNeedsALook == Spec => []ApprovedWasSeen
BY RowsAreGood, PTL

\* What moderation approves is dated.
THEOREM ApprovalIsDated == Spec => []ApprovedIsDated
BY RowsAreGood, PTL

\* The primary city is one of the listing's, the dates are its intervals'.
THEOREM DerivedColumnsFollow == Spec => []DerivedColumnsAgree
BY RowsAreGood, PTL

-----------------------------------------------------------------------------
(* The slugs                                                               *)

\* The strengthening of SlugNeverGrows: slugs are unique, two requests about
\* one listing are known to overlap, and a request alone with its listing has
\* tried no number above the one the listing has.
UniqueSlugs == \A k, l \in Existing : row[k].slug = row[l].slug => k = l

OverlapKnown ==
    \A q, r \in Requests : q # r /\ target[q] = target[r] /\ target[r] # None =>
                               target[r] \in overlap

CandidateBelow ==
    \A r \in Requests :
        pc[r] \in {"checkSlug", "update"} /\ target[r] \in Existing \ overlap =>
            candidate[r] <= row[target[r]].slug

Slugs == UniqueSlugs /\ OverlapKnown /\ CandidateBelow

\* A step that frees a request and leaves the slugs alone.
LEMMA SlugsUntouched ==
    ASSUME TypeOK, Slugs, NEW r \in Requests, Done(r), overlap' = overlap,
           Existing' = Existing, \A l \in Existing : row'[l].slug = row[l].slug
    PROVE  Slugs' /\ \A l \in Existing \cap DOMAIN row' :
                        row'[l].slug <= row[l].slug \/ l \in overlap
<1>1. /\ \A q \in Requests \ {r} : /\ pc'[q] = pc[q] /\ target'[q] = target[q]
                                   /\ candidate'[q] = candidate[q]
      /\ pc'[r] = "idle" /\ target'[r] = None
  BY DEF Done, TypeOK
<1>2. UniqueSlugs'
  BY DEF Slugs, UniqueSlugs
<1>3. OverlapKnown'
  BY <1>1 DEF Slugs, OverlapKnown
<1>4. CandidateBelow'
  <2> SUFFICES ASSUME NEW q \in Requests, pc'[q] \in {"checkSlug", "update"},
                      target'[q] \in Existing' \ overlap'
               PROVE  candidate'[q] <= row'[target'[q]].slug
    BY DEF CandidateBelow
  <2>1. q # r
    BY <1>1
  <2> QED BY <1>1, <2>1 DEF Slugs, CandidateBelow
<1>5. \A l \in Existing : row[l].slug \in Nat
  BY DEF TypeOK, Row
<1> QED BY <1>2, <1>3, <1>4, <1>5 DEF Slugs

\* A request that begins keeps what slugs rest on.
LEMMA BeginKeepsSlugs ==
    ASSUME TypeOK, Slugs, NEW r \in Requests, NEW label, NEW l \in Existing \cup {None},
           NEW slug \in {0, NoSlug}, Begin(r, label, l, slug)
    PROVE  Slugs'
<1>1. /\ \A q \in Requests \ {r} : /\ pc'[q] = pc[q] /\ target'[q] = target[q]
                                   /\ candidate'[q] = candidate[q]
      /\ target'[r] = l /\ candidate'[r] = slug
      /\ row' = row /\ overlap \subseteq overlap'
      /\ \A q \in Requests : target[q] = l /\ l # None => l \in overlap'
  BY DEF Begin, TypeOK
<1>2. UniqueSlugs'
  BY <1>1 DEF Slugs, UniqueSlugs, Existing
<1>3. OverlapKnown'
  <2> SUFFICES ASSUME NEW p \in Requests, NEW q \in Requests, p # q,
                      target'[p] = target'[q], target'[q] # None
               PROVE  target'[q] \in overlap'
    BY DEF OverlapKnown
  <2>1. CASE p = r
    BY <1>1, <2>1
  <2>2. CASE q = r
    BY <1>1, <2>2
  <2>3. CASE p # r /\ q # r
    BY <1>1, <2>3 DEF Slugs, OverlapKnown
  <2> QED BY <2>1, <2>2, <2>3
<1>4. CandidateBelow'
  <2> SUFFICES ASSUME NEW q \in Requests, pc'[q] \in {"checkSlug", "update"},
                      target'[q] \in Existing' \ overlap'
               PROVE  candidate'[q] <= row'[target'[q]].slug
    BY DEF CandidateBelow
  <2>1. CASE q = r
    <3>1. row[l].slug \in Nat
      BY <1>1, <2>1 DEF TypeOK, Row, Existing
    <3> QED BY <1>1, <2>1, <3>1 DEF NoSlug
  <2>2. CASE q # r
    BY <1>1, <2>2 DEF Slugs, CandidateBelow, Existing
  <2> QED BY <2>1, <2>2
<1> QED BY <1>2, <1>3, <1>4 DEF Slugs

\* An update moves its listing to a free slug, below the one it had unless
\* another request about the listing overlaps.
LEMMA UpdateKeepsSlugs ==
    ASSUME TypeOK, Slugs, NEW r \in Requests, UpdateByUser(r)
    PROVE  Slugs' /\ \A l \in Existing \cap DOMAIN row' :
                        row'[l].slug <= row[l].slug \/ l \in overlap
<1> DEFINE l == target[r]
<1>1. PICK refs \in CityChoices, d \in DateChoices, tags \in TagChoices :
         row' = [row EXCEPT ![l] = UserEdit(Edited(r, refs, d, tags))]
  BY DEF UpdateByUser
<1>2. /\ l \in Existing /\ l # None /\ pc[r] = "update"
      /\ \A k \in Existing \ {l} : row[k].slug # candidate[r]
      /\ Done(r) /\ overlap' = overlap /\ candidate[r] \in Nat \cup {NoSlug}
  BY ListingsAssumption DEF UpdateByUser, Writable, TypeOK
<1>3. /\ Edited(r, refs, d, tags) \in Row
      /\ Edited(r, refs, d, tags).slug = IF candidate[r] = NoSlug THEN row[l].slug ELSE candidate[r]
  BY <1>2, RowEdited DEF TypeOK, Touched
<1>4. UserEdit(Edited(r, refs, d, tags)).slug = Edited(r, refs, d, tags).slug
  BY <1>3 DEF UserEdit, Row
<1>5. /\ Existing' = Existing
      /\ row'[l].slug = IF candidate[r] = NoSlug THEN row[l].slug ELSE candidate[r]
      /\ \A k \in Existing \ {l} : row'[k] = row[k]
      /\ \A k \in Existing : row[k].slug \in Nat
  BY <1>1, <1>2, <1>3, <1>4 DEF TypeOK, Existing, Row
<1> HIDE DEF l
<1>6. \A k \in Existing \ {l} : row'[k].slug # row'[l].slug
  BY <1>2, <1>5 DEF Slugs, UniqueSlugs
<1>7. UniqueSlugs'
  BY <1>5, <1>6 DEF Slugs, UniqueSlugs
<1>8. /\ \A q \in Requests \ {r} : /\ pc'[q] = pc[q] /\ target'[q] = target[q]
                                   /\ candidate'[q] = candidate[q]
      /\ pc'[r] = "idle" /\ target'[r] = None
  BY <1>2 DEF Done, TypeOK
<1>9. OverlapKnown'
  BY <1>2, <1>8 DEF Slugs, OverlapKnown
<1>10. CandidateBelow'
  <2> SUFFICES ASSUME NEW q \in Requests, pc'[q] \in {"checkSlug", "update"},
                      target'[q] \in Existing' \ overlap'
               PROVE  candidate'[q] <= row'[target'[q]].slug
    BY DEF CandidateBelow
  <2>1. q # r
    BY <1>8
  <2>2. target[q] # l
    BY <1>2, <1>8, <2>1 DEF Slugs, OverlapKnown, l
  <2> QED BY <1>2, <1>5, <1>8, <2>1, <2>2 DEF Slugs, CandidateBelow
<1>11. row'[l].slug <= row[l].slug \/ l \in overlap
  BY <1>2, <1>5 DEF Slugs, CandidateBelow, NoSlug, l
<1>12. \A k \in Existing \ {l} : row'[k].slug <= row[k].slug
  BY <1>5
<1> QED BY <1>7, <1>9, <1>10, <1>11, <1>12 DEF Slugs

\* The looked-up slug never passes the listing's own, so repeated updates with
\* the same base do not climb from number to number, for any number of
\* listings and of requests.
THEOREM SlugsDoNotClimb == Spec => SlugNeverGrows
<1>1. Init => Slugs
  BY DEF Init, Slugs, UniqueSlugs, OverlapKnown, CandidateBelow, Existing
<1>2. TypeOK /\ Control /\ Slugs /\ [Next]_vars =>
         /\ Slugs'
         /\ \A l \in Existing \cap DOMAIN row' : row'[l].slug <= row[l].slug \/ l \in overlap
  <2> SUFFICES ASSUME TypeOK, Control, Slugs, [Next]_vars
               PROVE  /\ Slugs'
                      /\ \A l \in Existing \cap DOMAIN row' :
                            row'[l].slug <= row[l].slug \/ l \in overlap
    OBVIOUS
  <2> DEFINE Goal == /\ Slugs'
                     /\ \A l \in Existing \cap DOMAIN row' :
                           row'[l].slug <= row[l].slug \/ l \in overlap
  <2>1. \A l \in Existing : row[l] \in Row /\ row[l].slug \in Nat /\ row[l].slug <= row[l].slug
    BY DEF TypeOK, Row
  <2>2. ASSUME NEW r \in Requests,
               BeginCreate(r) \/ BeginUpdate(r) \/ SubmitListingForReview(r) \/ View(r)
        PROVE  Goal
    <3>1. PICK label \in Pc, l \in Existing \cup {None}, slug \in {0, NoSlug} :
             Begin(r, label, l, slug)
      BY <2>2 DEF BeginCreate, BeginUpdate, SubmitListingForReview, View, Pc
    <3>2. row' = row
      BY <3>1 DEF Begin
    <3> QED BY <2>1, <3>1, <3>2, BeginKeepsSlugs
  <2>3. ASSUME NEW r \in Requests, CheckSlug(r) PROVE Goal
    <3>1. /\ UNCHANGED <<row, target, overlap>>
          /\ \A q \in Requests \ {r} : pc'[q] = pc[q] /\ candidate'[q] = candidate[q]
          /\ candidate[r] \in Nat /\ pc[r] = "checkSlug"
          /\ candidate'[r] = IF SlugTaken(r) THEN candidate[r] + 1 ELSE candidate[r]
      BY <2>3 DEF CheckSlug, TypeOK, Control
    <3>2. CandidateBelow'
      <4> SUFFICES ASSUME NEW q \in Requests, pc'[q] \in {"checkSlug", "update"},
                          target'[q] \in Existing' \ overlap'
                   PROVE  candidate'[q] <= row'[target'[q]].slug
        BY DEF CandidateBelow
      <4>1. CASE q # r
        BY <3>1, <4>1 DEF Slugs, CandidateBelow, Existing
      <4>2. CASE q = r
        <5>1. target[r] \in Existing \ overlap /\ candidate[r] <= row[target[r]].slug
          BY <3>1, <4>2 DEF Slugs, CandidateBelow, Existing
        <5>2. SlugTaken(r) => candidate[r] # row[target[r]].slug
          BY <5>1 DEF SlugTaken, Slugs, UniqueSlugs
        <5>3. candidate'[r] <= row[target[r]].slug
          BY <2>1, <3>1, <5>1, <5>2
        <5> QED BY <3>1, <4>2, <5>3
      <4> QED BY <4>1, <4>2
    <3> QED BY <2>1, <3>1, <3>2 DEF Slugs, UniqueSlugs, OverlapKnown, Existing
  <2>4. ASSUME NEW r \in Requests, SlugConflict(r) \/ UpdateRefused(r) \/ ListingGone(r)
        PROVE  Goal
    <3>1. Done(r) /\ row' = row /\ overlap' = overlap
      BY <2>4 DEF SlugConflict, UpdateRefused, ListingGone
    <3> QED BY <3>1, SlugsUntouched DEF Existing
  <2>5. ASSUME NEW r \in Requests, CreateListing(r) PROVE Goal
    <3>1. PICK l \in Listings \ made, admin \in Admins, refs \in CityChoices,
                d \in DateChoices, tags \in TagChoices :
          /\ row' = [k \in Existing \cup {l} |->
                       IF k = l
                       THEN SyncDates(SyncCities(NewListing(admin, candidate[r]), refs), d)
                       ELSE row[k]]
          /\ made' = made \cup {l}
          /\ look' = [look EXCEPT ![l] = IF admin THEN "seen" ELSE "new"]
          /\ explicit' = [explicit EXCEPT ![l] = GivesDates(d)]
          /\ IF tags
             THEN /\ pc' = [pc EXCEPT ![r] = "tags"]
                  /\ target' = [target EXCEPT ![r] = l]
                  /\ candidate' = [candidate EXCEPT ![r] = NoSlug]
                  /\ UNCHANGED dated
             ELSE Done(r)
      BY <2>5 DEF CreateListing
    <3>2. /\ candidate[r] \in Nat /\ overlap' = overlap
          /\ \A k \in Existing : row[k].slug # candidate[r]
      BY <2>5 DEF CreateListing, Control
    <3>3. l \notin Existing /\ l # None /\ Existing' = Existing \cup {l}
          /\ \A q \in Requests : target[q] # l
      BY <3>1, ListingsAssumption DEF TypeOK, Existing
    <3>4. row'[l].slug = candidate[r] /\ \A k \in Existing : row'[k] = row[k]
      BY <3>1, <3>2, <3>3, RowCreated
    <3>5. /\ \A q \in Requests \ {r} : /\ pc'[q] = pc[q] /\ target'[q] = target[q]
                                       /\ candidate'[q] = candidate[q]
          /\ pc'[r] \in {"tags", "idle"} /\ target'[r] \in {l, None}
      BY <3>1 DEF Done, TypeOK
    <3>6. UniqueSlugs'
      BY <3>2, <3>3, <3>4 DEF Slugs, UniqueSlugs
    <3>7. OverlapKnown'
      <4> SUFFICES ASSUME NEW p \in Requests, NEW q \in Requests, p # q,
                          target'[p] = target'[q], target'[q] # None
                   PROVE  target'[q] \in overlap'
        BY DEF OverlapKnown
      <4>1. p # r /\ q # r
        BY <3>3, <3>5
      <4> QED BY <3>2, <3>5, <4>1 DEF Slugs, OverlapKnown
    <3>8. CandidateBelow'
      <4> SUFFICES ASSUME NEW q \in Requests, pc'[q] \in {"checkSlug", "update"},
                          target'[q] \in Existing' \ overlap'
                   PROVE  candidate'[q] <= row'[target'[q]].slug
        BY DEF CandidateBelow
      <4>1. q # r
        BY <3>5
      <4>2. target[q] \in Existing \ overlap
        BY <3>2, <3>3, <3>5, <4>1
      <4> QED BY <3>4, <3>5, <4>1, <4>2 DEF Slugs, CandidateBelow
    <3> QED BY <2>1, <3>4, <3>6, <3>7, <3>8 DEF Slugs
  <2>6. ASSUME NEW r \in Requests, SyncListingTags(r) PROVE Goal
    <3>1. \A x \in Row : [x EXCEPT !.tags = TRUE].slug = x.slug
      BY DEF Row
    <3>2. Existing' = Existing /\ \A l \in Existing : row'[l].slug = row[l].slug
      BY <2>1, <2>6, <3>1 DEF SyncListingTags, Existing
    <3> QED BY <2>6, <3>2, SlugsUntouched DEF SyncListingTags
  <2>7. ASSUME NEW r \in Requests, UpdateByUser(r) PROVE Goal
    BY <2>7, UpdateKeepsSlugs
  <2>8. ASSUME NEW r \in Requests,
               UpdateByAdmin(r) \/ Resubmit(r) \/ ModerateListing(r)
        PROVE  Goal
    <3>1. target[r] \in Existing /\ Done(r) /\ overlap' = overlap
      BY <2>8 DEF UpdateByAdmin, Resubmit, ModerateListing, Writable
    <3>2. PICK y : row' = [row EXCEPT ![target[r]] = y] /\ y.slug = row[target[r]].slug
      <4> DEFINE x == row[target[r]]
      <4>1. x \in Row /\ Touched(r) = x
        BY <3>1 DEF TypeOK, Touched
      <4>2. CASE UpdateByAdmin(r)
        <5>1. CASE \E z \in SetByAdmin(x) : row' = [row EXCEPT ![target[r]] = z]
          <6>1. \A z \in SetByAdmin(x) : z.slug = x.slug
            <7> HIDE DEF x
            <7> QED BY <4>1 DEF SetByAdmin, Row
          <6> QED BY <5>1, <6>1
        <5>2. CASE \E s \in Statuses : row' = [row EXCEPT ![target[r]].status = s]
          <6>1. PICK s \in Statuses : row' = [row EXCEPT ![target[r]] = [x EXCEPT !.status = s]]
            BY <5>2, <3>1 DEF TypeOK
          <6>2. [x EXCEPT !.status = s].slug = x.slug
            <7> HIDE DEF x
            <7> QED BY <4>1 DEF Row
          <6> QED BY <6>1, <6>2
        <5> QED BY <4>1, <4>2, <5>1, <5>2 DEF UpdateByAdmin
      <4>3. CASE Resubmit(r)
        <5>1. row' = [row EXCEPT ![target[r]] = [x EXCEPT !.status = "PENDING", !.mod = "PENDING"]]
          BY <4>3, <3>1 DEF Resubmit, TypeOK
        <5>2. [x EXCEPT !.status = "PENDING", !.mod = "PENDING"].slug = x.slug
          <6> HIDE DEF x
          <6> QED BY <4>1 DEF Row
        <5> QED BY <5>1, <5>2
      <4>4. CASE ModerateListing(r)
        <5>1. PICK z \in Approve(r, x) \cup {Reject(x), RequestChanges(x), Archive(x)} \cup Reopen(x) :
                 row' = [row EXCEPT ![target[r]] = z]
          BY <4>1, <4>4 DEF ModerateListing
        <5>2. z.slug = x.slug
          <6> HIDE DEF x
          <6>1. CASE z \in Approve(r, x)
            BY <6>1, <4>1 DEF Approve, Row
          <6>2. CASE z \in Reopen(x)
            BY <6>2, <4>1 DEF Reopen, Row
          <6>3. CASE z \in {Reject(x), RequestChanges(x), Archive(x)}
            BY <6>3, <4>1 DEF Reject, RequestChanges, Archive, Row
          <6> QED BY <5>1, <6>1, <6>2, <6>3
        <5> QED BY <5>1, <5>2
      <4> QED BY <2>8, <4>2, <4>3, <4>4
    <3>3. Existing' = Existing /\ \A l \in Existing : row'[l].slug = row[l].slug
      BY <3>1, <3>2 DEF TypeOK, Existing
    <3> QED BY <3>1, <3>3, SlugsUntouched
  <2>9. ASSUME NEW r \in Requests, ReadPublishAt(r) PROVE Goal
    <3>1. /\ UNCHANGED <<row, target, candidate, overlap>>
          /\ pc' = [pc EXCEPT ![r] = "decide"]
      BY <2>9 DEF ReadPublishAt
    <3> QED BY <2>1, <3>1 DEF Slugs, UniqueSlugs, OverlapKnown, CandidateBelow, Existing, TypeOK
  <2>10. ASSUME NEW l \in Listings, Expire(l) PROVE Goal
    <3>1. /\ UNCHANGED <<pc, target, candidate, overlap>>
          /\ Existing' = Existing \ {l} /\ \A k \in Existing' : row'[k] = row[k]
      BY <2>10 DEF Expire, Existing
    <3> QED BY <2>1, <3>1 DEF Slugs, UniqueSlugs, OverlapKnown, CandidateBelow, Existing
  <2>11. ASSUME UNCHANGED vars PROVE Goal
    BY <2>1, <2>11 DEF vars, Slugs, UniqueSlugs, OverlapKnown, CandidateBelow, Existing
  <2> QED
    BY <2>2, <2>3, <2>4, <2>5, <2>6, <2>7, <2>8, <2>9, <2>10, <2>11 DEF Next, Step
<1>3. TypeOK /\ Control /\ Slugs /\ [Next]_vars =>
         [\A l \in Existing \cap DOMAIN row' :
             row'[l].slug <= row[l].slug \/ l \in overlap]_vars
  BY <1>2
<1> QED BY <1>1, <1>2, <1>3, TypeCorrectControl, PTL DEF Spec, SlugNeverGrows

-----------------------------------------------------------------------------
(* Least and greatest numbers                                              *)

\* A member below all others is the least.
LEMMA LeastIs ==
    ASSUME NEW S \in SUBSET Int, NEW low \in S, \A y \in S : low <= y
    PROVE  Min(S) \in S /\ \A y \in S : Min(S) <= y
BY DEF Min

\* A member above all others is the greatest.
LEMMA GreatestIs ==
    ASSUME NEW S \in SUBSET Int, NEW high \in S, \A y \in S : high >= y
    PROVE  Max(S) \in S /\ \A y \in S : Max(S) >= y
BY DEF Max

\* A set of natural numbers has a least one; below a bound, a greatest one.
LEMMA LeastExists ==
    ASSUME NEW S \in SUBSET Nat, S # {}
    PROVE  Min(S) \in S /\ \A y \in S : Min(S) <= y
<1>1. PICK low \in S : \A y \in S : <<y, low>> \notin OpToRel(<, Nat)
  BY NatLessThanWellFounded, WFMin
<1>2. \A y \in S : ~ (y < low)
  BY <1>1, Zenon DEF OpToRel
<1>3. \A y \in S : low <= y
  BY <1>2
<1> QED
  BY <1>3, LeastIs

\* Hours that are bounded have a greatest one.
LEMMA GreatestExists ==
    ASSUME NEW n \in Nat, NEW S \in SUBSET (0..n), S # {}
    PROVE  Max(S) \in S /\ \A y \in S : Max(S) >= y
<1> DEFINE T == {n - y : y \in S}
<1>1. T \in SUBSET Nat /\ T # {}
  <2>1. \A y \in S : n - y \in Nat
    OBVIOUS
  <2> QED BY <2>1
<1>2. Min(T) \in T /\ \A y \in T : Min(T) <= y
  BY <1>1, LeastExists
<1>3. PICK high \in S : Min(T) = n - high
  BY <1>2
<1>4. \A y \in S : n - high <= n - y
  BY <1>2, <1>3
<1>5. \A y \in S : high >= y
  BY <1>4
<1> QED
  BY <1>5, GreatestIs

\* The least and the greatest of two.
LEMMA OfTwo ==
    ASSUME NEW a \in Int, NEW b \in Int
    PROVE  /\ Min({a, b}) \in {a, b} /\ Min({a, b}) <= a /\ Min({a, b}) <= b
           /\ Max({a, b}) \in {a, b} /\ Max({a, b}) >= a /\ Max({a, b}) >= b
<1>1. Min({a, b}) \in {a, b} /\ \A y \in {a, b} : Min({a, b}) <= y
  <2>1. CASE a <= b
    BY <2>1, LeastIs
  <2>2. CASE b <= a
    BY <2>2, LeastIs
  <2> QED BY <2>1, <2>2
<1>2. Max({a, b}) \in {a, b} /\ \A y \in {a, b} : Max({a, b}) >= y
  <2>1. CASE a <= b
    BY <2>1, GreatestIs
  <2>2. CASE b <= a
    BY <2>2, GreatestIs
  <2> QED BY <2>1, <2>2
<1> QED
  BY <1>1, <1>2

-----------------------------------------------------------------------------
(* What is over                                                            *)

\* What the clean-up has found is over, and remains so as long as it is not edited.
OverInv ==
    /\ hour \in Nat
    /\ \A i \in DOMAIN listing : listing[i] \in ListingData
    /\ \A i \in (expired \cap DOMAIN listing) \ rescheduled :
          /\ listing[i].spans # {} \/ listing[i].end # NoHour
          /\ IsListingExpired(listing[i])

\* An event that is over is past: it began, and all of it ended, before the present.
LEMMA OverIsPast ==
    ASSUME hour \in Nat, NEW x \in ListingData,
           x.spans # {} \/ x.end # NoHour, IsListingExpired(x), InOrder(x),
           x.spans # {} => x = Event(x.spans, x.place, x.festival)
    PROVE  x.start < hour /\ x.end # NoHour /\ x.end < hour
<1> USE BrowsingAssumption, DataAssumption DEF NoHour
<1>1. CASE x.spans = {}
  BY <1>1 DEF IsListingExpired, InOrder
<1>2. CASE x.spans # {}
  <2> DEFINE starts == {s.start : s \in x.spans}
             ends   == {s.end : s \in x.spans}
  <2>1. x.start = Min(starts) /\ x.end = Max(ends)
    BY <1>2 DEF Event, DatedEvent
  <2>2. \A s \in x.spans : s \in Interval
    OBVIOUS
  <2>3. \A s \in x.spans : /\ s.start \in 1..MaxHours /\ s.end \in 1..MaxHours
                          /\ s.until \in 0..MaxHours
    BY <2>2 DEF Interval
  <2>4. \A s \in x.spans : s.start < hour /\ s.end < hour
    <3> SUFFICES ASSUME NEW s \in x.spans PROVE s.start < hour /\ s.end < hour
      OBVIOUS
    <3>1. SpanIsOver(s) /\ s.start <= s.end /\ (s.recurs /\ s.until # 0 => s.end <= s.until)
      BY <1>2 DEF IsListingExpired, InOrder
    <3>2. s.end < hour
      <4>1. CASE s.recurs
        BY <2>3, <3>1, <4>1 DEF SpanIsOver
      <4>2. CASE ~s.recurs
        BY <2>3, <3>1, <4>2 DEF SpanIsOver
      <4> QED BY <4>1, <4>2
    <3> QED BY <2>3, <3>1, <3>2
  <2>5. starts \in SUBSET Nat /\ starts # {}
    BY <1>2, <2>3
  <2>6. ends \in SUBSET (0..MaxHours) /\ ends # {}
    BY <1>2, <2>3
  <2>7. Min(starts) \in starts
    BY <2>5, LeastExists
  <2>8. Max(ends) \in ends
    BY <2>6, GreatestExists
  <2>9. x.start < hour
    BY <2>1, <2>4, <2>7
  <2>10. x.end < hour /\ x.end # 0
    BY <2>1, <2>3, <2>4, <2>8
  <2> QED BY <2>9, <2>10
<1> QED
  BY <1>1, <1>2

\* The day of the present ends after it.
LEMMA TodayIsNow == ASSUME hour \in Nat PROVE Today + HoursPerDay > hour
<1> DEFINE H == HoursPerDay
           d == (hour - 1) \div H
<1>1. H \in Nat /\ H > 0
  BY BrowsingAssumption
<1>2. hour - 1 < H * d + H
  BY <1>1
<1>3. d \in Int
  BY <1>1
<1>4. Today = d * H + 1
  BY DEF Today
<1> QED
  BY <1>1, <1>2, <1>3, <1>4

\* An event before the present hour is over.
LEMMA PastIsOver ==
    ASSUME hour \in Nat, NEW x, x.start \in Nat, x.end \in Nat,
           x.start < hour, x.end # NoHour, x.end < hour
    PROVE  Priority(x) \notin 1..3 /\ ~HasOccurrence(x)
<1>1. Today + HoursPerDay > hour /\ Today + HoursPerDay \in Int
  BY TodayIsNow, BrowsingAssumption DEF Today
<1>2. ~ x.start >= Today + HoursPerDay
  BY <1>1
<1>3. Priority(x) \in {4, 5}
  BY <1>2 DEF Priority, NoHour
<1> QED
  BY <1>3 DEF HasOccurrence

\* What the clean-up is about to delete is over wherever the code asks, for any
\* listings, and however they are edited while it is at work.
THEOREM DeletedIsOver == BrowsingSpec => []ShownIsKept
<1> USE BrowsingAssumption
<1>1. BrowsingInit => OverInv
  BY DEF BrowsingInit, OverInv
<1>2. OverInv /\ [BrowsingNext]_browsingVars => OverInv'
  <2> SUFFICES ASSUME OverInv, [BrowsingNext]_browsingVars PROVE OverInv'
    OBVIOUS
  <2>1. CASE UNCHANGED <<listing, hour, expired, rescheduled>>
    BY <2>1 DEF OverInv, IsListingExpired, SpanIsOver
  <2>2. CASE Open \/ GetKodierWocheCategoryIds \/ SeedCategories
    BY <2>1, <2>2 DEF Open, GetKodierWocheCategoryIds, SeedCategories, table
  <2>3. CASE ListListings \/ GetUserFavorites
    <3>1. PICK q \in Queries : ShowPage(q)
      BY <2>3 DEF ListListings, GetUserFavorites
    <3> QED BY <2>1, <3>1 DEF ShowPage, table
  <2>4. CASE FindExpired
    BY <2>4 DEF FindExpired, OverInv, IsListingExpired, SpanIsOver, table
  <2>5. CASE DeleteExpired
    BY <2>5 DEF DeleteExpired, OverInv, IsListingExpired, SpanIsOver
  <2>6. ASSUME NEW i \in DOMAIN listing, Edit(i) PROVE OverInv'
    <3>1. PICK x \in ListingData : listing' = [listing EXCEPT ![i] = x]
      BY <2>6 DEF Edit
    <3>2. rescheduled' = rescheduled \cup {i} /\ hour' = hour /\ expired' = expired
      BY <2>6 DEF Edit
    <3>3. DOMAIN listing' = DOMAIN listing /\ \A j \in DOMAIN listing : j # i => listing'[j] = listing[j]
      BY <3>1
    <3>4. \A j \in DOMAIN listing : listing'[j] \in ListingData
      BY <3>1, <3>3 DEF OverInv
    <3> QED BY <3>2, <3>3, <3>4 DEF OverInv, IsListingExpired, SpanIsOver
  <2>7. ASSUME NEW i \in DOMAIN listing, ToggleFavorite(i) PROVE OverInv'
    BY <2>1, <2>7 DEF ToggleFavorite
  <2>8. CASE Tick
    <3>1. hour' = hour + 1 /\ UNCHANGED <<listing, expired, rescheduled>>
      BY <2>8 DEF Tick, table
    <3>2. \A x \in ListingData : IsListingExpired(x) => IsListingExpired(x)'
      <4> SUFFICES ASSUME NEW x \in ListingData, IsListingExpired(x) PROVE IsListingExpired(x)'
        OBVIOUS
      <4>1. x.end \in Nat /\ \A s \in x.spans : s.end \in Nat /\ s.until \in Nat
        BY DataAssumption DEF Interval
      <4>2. \A s \in x.spans : SpanIsOver(s) => SpanIsOver(s)'
        BY <3>1, <4>1 DEF SpanIsOver, OverInv
      <4> QED BY <3>1, <4>1, <4>2 DEF IsListingExpired, OverInv
    <3> QED BY <3>1, <3>2 DEF OverInv
  <2>9. CASE UNCHANGED browsingVars
    BY <2>1, <2>9 DEF browsingVars, table
  <2> QED
    BY <2>2, <2>3, <2>4, <2>5, <2>6, <2>7, <2>8, <2>9 DEF BrowsingNext
<1>3. OverInv => ShownIsKept
  <2> SUFFICES ASSUME OverInv, NEW i \in (expired \cap DOMAIN listing) \ rescheduled,
                      InOrder(listing[i]),
                      listing[i].spans # {} =>
                          listing[i] = Event(listing[i].spans, listing[i].place, listing[i].festival)
               PROVE  Priority(listing[i]) \notin 1..3 /\ ~HasOccurrence(listing[i])
    BY DEF ShownIsKept
  <2>1. listing[i] \in ListingData /\ hour \in Nat
    BY DEF OverInv
  <2>2. listing[i].start \in Nat /\ listing[i].end \in Nat
    BY <2>1, DataAssumption
  <2>3. listing[i].start < hour /\ listing[i].end # NoHour /\ listing[i].end < hour
    BY <2>1, OverIsPast DEF OverInv
  <2> QED BY <2>1, <2>2, <2>3, PastIsOver
<1> QED
  BY <1>1, <1>2, <1>3, PTL DEF BrowsingSpec

-----------------------------------------------------------------------------
(* Pages                                                                   *)

\* A sorted list consists of what was sorted.
LEMMA SortedIs ==
    ASSUME NEW S \in SUBSET Numbers, NEW key, NEW s \in SortedBy(S, key)
    PROVE  s \in Seq(Numbers) /\ ToSet(s) \subseteq S
<1>1. IsFiniteSet(S)
  <2>1. IsFiniteSet(Numbers)
    BY FS_Interval, BrowsingAssumption DEF Numbers
  <2> QED BY <2>1, FS_Subset
<1>2. Cardinality(S) \in Nat
  BY <1>1, FS_CardinalityType
<1>3. s \in [1..Cardinality(S) -> S]
  BY DEF SortedBy, SetToSeqs
<1> QED
  BY <1>2, <1>3 DEF ToSet

\* A list has only what matches, in whatever order it is read and sorted.
LEMMA OrderedMatch ==
    ASSUME NEW q \in Queries, NEW s \in Ordered(q), DOMAIN listing \subseteq Numbers
    PROVE  s \in Seq(Numbers) /\ ToSet(s) \subseteq Matching(q)
<1> DEFINE Fits == s \in Seq(Numbers) /\ ToSet(s) \subseteq Matching(q)
<1>1. Matching(q) \subseteq Numbers
  BY DEF Matching
<1>2. \A b \in Batches(q) : b \subseteq Matching(q)
  BY DEF Batches, kSubset
<1>3. CASE q.order = "creation"
  <2>1. s \in SortedBy(Matching(q), [i \in Matching(q) |-> -i])
    BY <1>3 DEF Ordered, NewestFirst
  <2> QED BY <1>1, <2>1, SortedIs
<1>4. CASE q.order = "events"
  <2>1. PICK b \in Batches(q) : s \in ByTime({i \in b : Priority(listing[i]) \in 1..3})
    BY <1>4 DEF Ordered
  <2> DEFINE T == {i \in b : Priority(listing[i]) \in 1..3}
             key == [i \in T |-> Priority(listing[i]) * Far + listing[i].start]
  <2>2. s \in SortedBy(T, key)
    BY <2>1 DEF ByTime
  <2>3. T \subseteq Matching(q)
    BY <1>2
  <2> HIDE DEF T, key
  <2> QED BY <1>1, <2>2, <2>3, SortedIs
<1>5. CASE q.order = "distance"
  <2>1. PICK b \in Batches(q) : s \in NearestFirst({i \in b : StillNear(q, i)})
    BY <1>5 DEF Ordered
  <2> DEFINE T == {i \in b : StillNear(q, i)}
             key == [i \in T |-> IF listing[i].place = 0 THEN Far ELSE listing[i].place]
  <2>2. s \in SortedBy(T, key)
    BY <2>1 DEF NearestFirst
  <2>3. T \subseteq Matching(q)
    BY <1>2
  <2> HIDE DEF T, key
  <2> QED BY <1>1, <2>2, <2>3, SortedIs
<1> QED
  BY <1>3, <1>4, <1>5, DataAssumption

\* A page has only what the list has.
LEMMA PageIsOfList ==
    ASSUME NEW q \in Queries, NEW page \in Nat \ {0}, NEW s \in Seq(Numbers)
    PROVE  LET p == Slice(s, Skip(q, page), PageSize(q))
           IN  p \in Seq(Numbers) /\ ToSet(p) \subseteq ToSet(s)
<1> DEFINE size == PageSize(q)
           from == Skip(q, page)
           upTo == Min({Len(s), from + size})
           p == SubSeq(s, from + 1, upTo)
<1>1. size \in Nat
  <2>1. DefaultSize \in Nat /\ MaxSize \in Nat /\ Cap \in Nat /\ q.size \in Nat
    BY BrowsingAssumption, DataAssumption
  <2>2. DefaultSize \in Int /\ MaxSize \in Int /\ q.size \in Int
    BY <2>1
  <2>3. Min({DefaultSize, MaxSize}) \in {DefaultSize, MaxSize}
    BY <2>2, OfTwo
  <2>4. Min({q.size, MaxSize}) \in {q.size, MaxSize}
    BY <2>2, OfTwo
  <2> QED BY <2>1, <2>3, <2>4 DEF PageSize
<1>2. from \in Nat
  <2>1. \A a, b \in Nat : a * b \in Nat
    OBVIOUS
  <2>2. page - 1 \in Nat
    OBVIOUS
  <2> QED BY <1>1, <2>1, <2>2 DEF Skip
<1> HIDE DEF size, from
<1>3. upTo \in Int /\ upTo <= Len(s)
  <2>1. Len(s) \in Int /\ from + size \in Int
    BY <1>1, <1>2
  <2>2. Min({Len(s), from + size}) \in {Len(s), from + size} /\ Min({Len(s), from + size}) <= Len(s)
    BY <2>1, OfTwo
  <2> QED BY <2>1, <2>2
<1> HIDE DEF upTo
<1>4. \A i \in (from + 1)..upTo : i \in 1..Len(s)
  BY <1>2, <1>3
<1>5. p \in Seq(Numbers)
  BY <1>2, <1>3, <1>4, SubSeqProperties
<1>6. \A i \in 1..Len(p) : \E k \in 1..Len(s) : p[i] = s[k]
  BY <1>2, <1>3, <1>4, SubSeqProperties
<1> HIDE DEF p
<1>7. ToSet(p) \subseteq ToSet(s)
  <2>1. DOMAIN p = 1..Len(p) /\ DOMAIN s = 1..Len(s)
    BY <1>5
  <2> QED BY <1>6, <2>1 DEF ToSet
<1>8. Slice(s, Skip(q, page), PageSize(q)) = p
  BY DEF Slice, p, from, size, upTo
<1> QED
  BY <1>5, <1>7, <1>8

Inside(i) ==
    \/ listing[i].start \in FestivalStart..FestivalEnd
    \/ \E s \in listing[i].spans : s.end >= FestivalStart /\ s.start <= FestivalEnd

\* Whatever the user asks for, what matches is in the festival's window.
LEMMA BoundsCut ==
    ASSUME NEW q \in Queries, NeedsFestival(q), festivalIds = "known",
           NEW i \in Matching(q), listing[i] \in ListingData
    PROVE  Inside(i)
<1> DEFINE low == Max({FestivalStart, q.after})
           high == Min({FestivalEnd, q.before})
           x == listing[i]
<1>1. low \in Int /\ high \in Int /\ low >= FestivalStart /\ high <= FestivalEnd
  <2>1. FestivalStart \in Int /\ FestivalEnd \in Int /\ q.after \in Int /\ q.before \in Int
    BY BrowsingAssumption, DataAssumption
  <2>2. low \in {FestivalStart, q.after} /\ low >= FestivalStart
    BY <2>1, OfTwo
  <2>3. high \in {FestivalEnd, q.before} /\ high <= FestivalEnd
    BY <2>1, OfTwo
  <2> QED BY <2>1, <2>2, <2>3
<1>2. InBounds(x, <<low, high>>)
  BY DEF Matching, Bounds
<1> HIDE DEF low, high
<1>3. low # NoHour
  BY <1>1, BrowsingAssumption DEF NoHour
<1>4. \/ low <= x.start /\ x.start <= high
      \/ \E s \in x.spans : s.end >= low /\ s.start <= high
  BY <1>2, <1>3 DEF InBounds
<1>5. x.start \in Int /\ \A s \in x.spans : s.start \in Int /\ s.end \in Int
  BY DataAssumption DEF Interval
<1>6. FestivalStart \in Int /\ FestivalEnd \in Int
  BY BrowsingAssumption
<1>7. CASE low <= x.start /\ x.start <= high
  BY <1>1, <1>5, <1>6, <1>7 DEF Inside
<1>8. ASSUME NEW s \in x.spans, s.end >= low /\ s.start <= high PROVE Inside(i)
  BY <1>1, <1>5, <1>6, <1>8 DEF Inside
<1> QED
  BY <1>4, <1>7, <1>8

Walking == [pc : {"bounds", "fetch", "done"}, query : Queries, page : Nat \ {0},
            shown : Seq(Numbers)]

\* A walk that has shown something has looked the festival's categories up before.
WalkInv ==
    /\ DOMAIN listing \subseteq Numbers
    /\ \A i \in DOMAIN listing : listing[i] \in ListingData
    /\ walk \in Walking \cup {NoWalk}
    /\ /\ walk # NoWalk /\ NeedsFestival(walk.query)
       /\ walk.pc # "bounds" \/ walk.shown # <<>>
       => festivalIds # "unread"
    /\ FestivalStaysInside

\* A list of the festival's categories has only what is in its window.
LEMMA WalkKept == BrowsingSpec => []WalkInv
<1>1. BrowsingInit => WalkInv
  BY DEF BrowsingInit, WalkInv, FestivalStaysInside
<1>2. WalkInv /\ [BrowsingNext]_browsingVars => WalkInv'
  <2> SUFFICES ASSUME WalkInv, [BrowsingNext]_browsingVars PROVE WalkInv'
    OBVIOUS
  <2>0. walk # NoWalk => walk \in Walking
    BY DEF WalkInv
  <2>1. CASE UNCHANGED <<listing, festivalIds, walk>> /\ (changed' \/ UNCHANGED changed)
    BY <2>1 DEF WalkInv, FestivalStaysInside, NeedsFestival
  <2>2. CASE Open
    <3>1. PICK q \in Queries : walk' = [pc |-> "bounds", query |-> q, page |-> 1, shown |-> <<>>]
      BY <2>2 DEF Open
    <3>2. UNCHANGED listing
      BY <2>2 DEF Open, table
    <3>3. walk' \in Walking
      BY <3>1 DEF Walking
    <3>4. walk'.shown = <<>> /\ ToSet(<<>>) = {} /\ walk'.pc = "bounds"
      BY <3>1 DEF ToSet
    <3> QED BY <3>2, <3>3, <3>4 DEF WalkInv, FestivalStaysInside
  <2>3. CASE GetKodierWocheCategoryIds
    <3>1. walk # NoWalk /\ walk.pc = "bounds"
      BY <2>3 DEF GetKodierWocheCategoryIds, NoWalk
    <3>2. walk' = [walk EXCEPT !.pc = "fetch"] /\ UNCHANGED <<listing, changed>>
      BY <2>3 DEF GetKodierWocheCategoryIds, table
    <3>3. /\ walk' \in Walking /\ walk'.pc = "fetch" /\ walk'.query = walk.query
          /\ walk'.shown = walk.shown
      BY <2>0, <3>1, <3>2 DEF Walking
    <3>4. NeedsFestival(walk.query) => festivalIds' # "unread"
      BY <2>3 DEF GetKodierWocheCategoryIds
    <3>5. NeedsFestival(walk.query) /\ festivalIds' # festivalIds => walk.shown = <<>>
      BY <2>3, <3>1 DEF GetKodierWocheCategoryIds, WalkInv
    <3>6. ToSet(<<>>) = {}
      BY DEF ToSet
    <3>7. FestivalStaysInside'
      BY <3>1, <3>2, <3>3, <3>5, <3>6 DEF WalkInv, FestivalStaysInside, NeedsFestival
    <3> QED BY <3>2, <3>3, <3>4, <3>7 DEF WalkInv, NeedsFestival
  <2>4. CASE ListListings \/ GetUserFavorites
    <3>1. PICK q \in Queries : ShowPage(q)
      BY <2>4 DEF ListListings, GetUserFavorites
    <3> DEFINE Shows(s) == Slice(s, Skip(q, walk.page), PageSize(q))
    <3>2. walk # NoWalk /\ walk.pc = "fetch" /\ walk.query = q /\ UNCHANGED <<listing, festivalIds, changed>>
      BY <3>1 DEF ShowPage, NoWalk, table
    <3>3. PICK s \in Ordered(q), last \in BOOLEAN :
            walk' = [walk EXCEPT !.pc = IF last THEN "done" ELSE "bounds",
                                 !.page = IF last THEN @ ELSE @ + 1,
                                 !.shown = @ \o Shows(s)]
      <4>1. PICK s \in Ordered(q) :
              LET last == q.noLimit \/ walk.page >= TotalPages(q, Len(s))
              IN  walk' = [walk EXCEPT !.pc = IF last THEN "done" ELSE "bounds",
                                       !.page = IF last THEN @ ELSE @ + 1,
                                       !.shown = @ \o Shows(s)]
        BY <3>1, Zenon DEF ShowPage
      <4> DEFINE last == q.noLimit \/ walk.page >= TotalPages(q, Len(s))
      <4>2. last \in BOOLEAN
        OBVIOUS
      <4> QED BY <4>1, <4>2, Zenon
    <3>4. walk \in Walking
      BY <2>0, <3>2
    <3>5. s \in Seq(Numbers) /\ ToSet(s) \subseteq Matching(q)
      BY OrderedMatch DEF WalkInv
    <3>6. Shows(s) \in Seq(Numbers) /\ ToSet(Shows(s)) \subseteq Matching(q)
      BY <3>4, <3>5, PageIsOfList DEF Walking
    <3> DEFINE p == Shows(s)
               whole == walk.shown \o p
    <3> HIDE DEF Shows
    <3>7. walk.shown \in Seq(Numbers) /\ walk.page \in Nat \ {0}
      BY <3>4 DEF Walking
    <3>8. whole \in Seq(Numbers) /\ ToSet(whole) \subseteq ToSet(walk.shown) \cup ToSet(p)
      BY <3>6, <3>7, ConcatProperties DEF ToSet
    <3> HIDE DEF p
    <3>9. walk' \in Walking /\ walk'.query = q /\ walk'.shown = whole
      <4>1. walk' = [walk EXCEPT !.pc = IF last THEN "done" ELSE "bounds",
                                 !.page = IF last THEN @ ELSE @ + 1,
                                 !.shown = whole]
        BY <3>3 DEF p
      <4> HIDE DEF whole
      <4>2. walk.page + 1 \in Nat \ {0}
        BY <3>7
      <4> QED BY <3>2, <3>4, <3>7, <3>8, <4>1, <4>2 DEF Walking
    <3>10. NeedsFestival(q) => festivalIds # "unread"
      BY <3>2 DEF WalkInv
    <3>11. ASSUME NeedsFestival(q), festivalIds = "known" PROVE \A i \in ToSet(p) : Inside(i)
      <4> SUFFICES ASSUME NEW i \in ToSet(p) PROVE Inside(i)
        OBVIOUS
      <4>1. i \in Matching(q) /\ i \in DOMAIN listing
        BY <3>6 DEF p, Matching
      <4> QED BY <3>11, <4>1, BoundsCut DEF WalkInv
    <3>12. FestivalStaysInside'
      BY <3>2, <3>8, <3>9, <3>11 DEF WalkInv, FestivalStaysInside, Inside, NeedsFestival
    <3> QED BY <3>2, <3>9, <3>10, <3>12 DEF WalkInv, NeedsFestival
  <2>5. CASE FindExpired
    BY <2>1, <2>5 DEF FindExpired, table
  <2>6. CASE DeleteExpired
    <3>1. changed' /\ UNCHANGED <<festivalIds, walk>>
      BY <2>6 DEF DeleteExpired
    <3>2. DOMAIN listing' \subseteq DOMAIN listing /\ \A i \in DOMAIN listing' : listing'[i] = listing[i]
      BY <2>6 DEF DeleteExpired
    <3> QED BY <3>1, <3>2 DEF WalkInv, FestivalStaysInside, NeedsFestival
  <2>7. ASSUME NEW i \in DOMAIN listing, Edit(i) PROVE WalkInv'
    <3>1. changed' /\ UNCHANGED <<festivalIds, walk>>
      BY <2>7 DEF Edit, Change
    <3>2. PICK x \in ListingData : listing' = [listing EXCEPT ![i] = x]
      BY <2>7 DEF Edit
    <3>3. DOMAIN listing' = DOMAIN listing /\ \A j \in DOMAIN listing : listing'[j] \in ListingData
      BY <3>2 DEF WalkInv
    <3> QED BY <3>1, <3>3 DEF WalkInv, FestivalStaysInside, NeedsFestival
  <2>8. ASSUME NEW i \in DOMAIN listing, ToggleFavorite(i) PROVE WalkInv'
    BY <2>1, <2>8 DEF ToggleFavorite, Change
  <2>9. CASE SeedCategories
    BY <2>1, <2>9 DEF SeedCategories, Change
  <2>10. CASE Tick
    BY <2>1, <2>10 DEF Tick, table
  <2>11. CASE UNCHANGED browsingVars
    BY <2>1, <2>11 DEF browsingVars, table
  <2> QED
    BY <2>2, <2>3, <2>4, <2>5, <2>6, <2>7, <2>8, <2>9, <2>10, <2>11 DEF BrowsingNext
<1> QED
  BY <1>1, <1>2, PTL DEF BrowsingSpec

\* A list of the festival's categories stays inside its window on every page, for
\* any listings, dates asked for and sizes of the pages.
THEOREM FestivalIsKept == BrowsingSpec => []FestivalStaysInside
<1>1. WalkInv => FestivalStaysInside
  BY DEF WalkInv
<1> QED
  BY <1>1, WalkKept, PTL

-----------------------------------------------------------------------------
(* Sorted                                                                  *)

\* What is sorted by different keys ascends, and has each listing once.
Ascending(s, S, key) ==
    /\ s \in Seq(S) /\ Len(s) = Cardinality(S) /\ ToSet(s) = S
    /\ \A m, n \in 1..Len(s) : m < n => key[s[m]] < key[s[n]]

\* A sequence of a set has each of its listings.
LEMMA HasAll ==
    ASSUME NEW S \in SUBSET Numbers, NEW s \in SetToSeqs(S)
    PROVE  /\ s \in Seq(S) /\ Len(s) = Cardinality(S) /\ Cardinality(S) \in Nat
           /\ ToSet(s) = S /\ \A m, n \in 1..Len(s) : m # n => s[m] # s[n]
<1> DEFINE N == Cardinality(S)
<1>1. IsFiniteSet(S) /\ N \in Nat
  <2>1. IsFiniteSet(Numbers)
    BY FS_Interval, BrowsingAssumption DEF Numbers
  <2> QED BY <2>1, FS_Subset, FS_CardinalityType
<1>2. s \in [1..N -> S] /\ \A m, n \in 1..N : m # n => s[m] # s[n]
  BY DEF SetToSeqs
<1>3. IsFiniteSet(1..N) /\ Cardinality(1..N) = N
  BY <1>1, FS_Interval
<1> HIDE DEF N
<1>4. s \in Seq(S) /\ Len(s) = N
  BY <1>1, <1>2
<1>5. s \in Injection(1..N, S)
  BY <1>2 DEF Injection, IsInjective
<1>6. s \in Surjection(1..N, S)
  BY <1>1, <1>3, <1>5, FS_Injection DEF N
<1>7. ToSet(s) = S
  BY <1>2, <1>6 DEF Surjection, ToSet
<1> QED
  BY <1>1, <1>2, <1>4, <1>7 DEF N

\* It ascends strictly if the keys differ.
LEMMA SortedAscends ==
    ASSUME NEW S \in SUBSET Numbers, NEW key \in [S -> Int], NEW s \in SortedBy(S, key),
           \A i, j \in S : i # j => key[i] # key[j]
    PROVE  Ascending(s, S, key)
<1>1. s \in SetToSeqs(S) /\ \A i \in 1..(Len(s) - 1) : key[s[i]] <= key[s[i + 1]]
  BY DEF SortedBy
<1>2. /\ s \in Seq(S) /\ Len(s) = Cardinality(S) /\ Len(s) \in Nat
      /\ ToSet(s) = S /\ \A m, n \in 1..Len(s) : m # n => s[m] # s[n]
  BY <1>1, HasAll
<1>3. \A k \in 1..Len(s) : s[k] \in S /\ key[s[k]] \in Int
  BY <1>2
<1>4. \A k \in 1..(Len(s) - 1) : key[s[k]] < key[s[k + 1]]
  <2> SUFFICES ASSUME NEW k \in 1..(Len(s) - 1) PROVE key[s[k]] < key[s[k + 1]]
    OBVIOUS
  <2>1. k \in 1..Len(s) /\ k + 1 \in 1..Len(s) /\ k # k + 1
    BY <1>2
  <2>2. s[k] # s[k + 1]
    BY <1>2, <2>1
  <2>3. key[s[k]] # key[s[k + 1]]
    BY <1>3, <2>1, <2>2
  <2>4. key[s[k]] <= key[s[k + 1]]
    BY <1>1
  <2> QED BY <1>3, <2>1, <2>3, <2>4
<1>5. ASSUME NEW m \in 1..Len(s), NEW n \in 1..Len(s), m < n PROVE key[s[m]] < key[s[n]]
  <2> DEFINE B == {k \in 1..Len(s) : m < k /\ ~(key[s[m]] < key[s[k]])}
  <2> SUFFICES ASSUME B # {} PROVE FALSE
    BY <1>5
  <2>1. B \in SUBSET Nat
    OBVIOUS
  <2>2. PICK b \in B : \A k \in B : b <= k
    BY <2>1, LeastExists
  <2>3. b \in 1..Len(s) /\ m < b /\ ~(key[s[m]] < key[s[b]])
    BY <2>2
  <2>4. b - 1 \in 1..(Len(s) - 1) /\ b - 1 \in 1..Len(s) /\ (b - 1) + 1 = b
    BY <1>2, <2>3
  <2>5. key[s[b - 1]] < key[s[b]]
    BY <1>4, <2>4
  <2>6. CASE b - 1 = m
    BY <2>3, <2>5, <2>6
  <2>7. CASE b - 1 # m
    <3>1. b - 1 \notin B
      BY <2>2, <2>3
    <3>2. m < b - 1
      BY <2>3, <2>7
    <3>3. key[s[m]] < key[s[b - 1]]
      BY <2>4, <3>1, <3>2
    <3>4. key[s[m]] \in Int /\ key[s[b - 1]] \in Int /\ key[s[b]] \in Int
      BY <1>3, <2>3, <2>4
    <3> QED BY <2>3, <2>5, <3>3, <3>4
  <2> QED BY <2>6, <2>7
<1> QED
  BY <1>2, <1>5 DEF Ascending

\* There is only one way to sort by different keys: each request finds the same list.
LEMMA SortedOnce ==
    ASSUME NEW S \in SUBSET Numbers, NEW key \in [S -> Int], NEW s, NEW t,
           Ascending(s, S, key), Ascending(t, S, key)
    PROVE  \A k \in 1..Len(s) : s[k] = t[k]
<1> DEFINE N == Len(s)
           D == {k \in 1..N : s[k] # t[k]}
<1>1. /\ s \in Seq(S) /\ t \in Seq(S) /\ N \in Nat /\ Len(t) = N
      /\ ToSet(s) = S /\ ToSet(t) = S
      /\ \A m, n \in 1..N : m < n => key[s[m]] < key[s[n]] /\ key[t[m]] < key[t[n]]
  BY DEF Ascending
<1>2. DOMAIN s = 1..N /\ DOMAIN t = 1..N
  BY <1>1
<1>3. \A k \in 1..N : s[k] \in S /\ t[k] \in S /\ key[s[k]] \in Int /\ key[t[k]] \in Int
  BY <1>1
<1> HIDE DEF N
<1> SUFFICES ASSUME D # {} PROVE FALSE
  BY DEF N
<1>4. D \in SUBSET Nat
  OBVIOUS
<1>5. PICK d \in D : \A k \in D : d <= k
  BY <1>4, LeastExists
<1>6. d \in 1..N /\ s[d] # t[d] /\ \A k \in 1..N : k < d => s[k] = t[k]
  BY <1>1, <1>5
<1>7. PICK i \in 1..N : t[i] = s[d]
  BY <1>1, <1>2, <1>3, <1>6 DEF ToSet
<1>8. PICK j \in 1..N : s[j] = t[d]
  BY <1>1, <1>2, <1>3, <1>6 DEF ToSet
<1>9. key[t[d]] < key[s[d]]
  <2>1. ~ (i < d)
    <3> SUFFICES ASSUME i < d PROVE FALSE
      OBVIOUS
    <3>1. s[i] = s[d]
      BY <1>6, <1>7
    <3>2. key[s[i]] < key[s[d]]
      BY <1>1, <1>6
    <3> QED BY <1>3, <1>6, <3>1, <3>2
  <2>2. d < i
    BY <1>1, <1>6, <1>7, <2>1
  <2> QED BY <1>1, <1>6, <1>7, <2>2
<1>10. key[s[d]] < key[t[d]]
  <2>1. ~ (j < d)
    <3> SUFFICES ASSUME j < d PROVE FALSE
      OBVIOUS
    <3>1. t[j] = t[d]
      BY <1>6, <1>8
    <3>2. key[t[j]] < key[t[d]]
      BY <1>1, <1>6
    <3> QED BY <1>3, <1>6, <3>1, <3>2
  <2>2. d < j
    BY <1>1, <1>6, <1>8, <2>1
  <2> QED BY <1>1, <1>6, <1>8, <2>2
<1> QED
  BY <1>3, <1>6, <1>9, <1>10

-----------------------------------------------------------------------------
(* Lists                                                                   *)

\* What a list is sorted by.
Key(q) ==
    [i \in Wanted(q) |->
        CASE q.order = "creation" -> -i
          [] q.order = "events"   -> Priority(listing[i]) * Far + listing[i].start
          [] q.order = "distance" -> IF listing[i].place = 0 THEN Far ELSE listing[i].place]

\* The listings are as the program makes them.
Sane ==
    /\ hour \in Nat
    /\ DOMAIN listing \subseteq Numbers
    /\ \A i \in DOMAIN listing : listing[i] \in ListingData

\* Today has begun by the present hour.
LEMMA TodayIsBefore == ASSUME hour \in Nat PROVE Today <= hour /\ Today \in Int
<1> DEFINE H == HoursPerDay
           d == (hour - 1) \div H
<1>1. H \in Nat /\ H > 0
  BY BrowsingAssumption
<1>2. H * d <= hour - 1
  BY <1>1
<1>3. d \in Int
  BY <1>1
<1>4. Today = d * H + 1
  BY DEF Today
<1> QED
  BY <1>1, <1>2, <1>3, <1>4

\* The events of a list are those that go on or are to come; what begins sooner
\* has no later place among the groups.
LEMMA PriorityIs ==
    ASSUME hour \in Nat, NEW x \in ListingData
    PROVE  /\ Priority(x) \in 1..5
           /\ Priority(x) \in 1..3 <=>
                 x.start # NoHour /\ (x.start > hour \/ x.end = NoHour \/ x.end > hour)
           /\ \A y \in ListingData : Priority(x) \in 1..3 /\ Priority(y) \in 1..3 /\ x.start < y.start
                                     => Priority(x) <= Priority(y)
<1>1. /\ Today <= hour /\ Today \in Int /\ HoursPerDay \in Int
      /\ Today + HoursPerDay > hour
  BY TodayIsBefore, TodayIsNow, BrowsingAssumption
<1> DEFINE Tomorrow == Today + HoursPerDay
<1>2. Tomorrow \in Int /\ Tomorrow > hour
  BY <1>1
<1>3. ASSUME NEW y \in ListingData
      PROVE  /\ y.start = NoHour => Priority(y) = 4
             /\ y.start # NoHour /\ y.start <= hour /\ (y.end = NoHour \/ y.end > hour) =>
                    Priority(y) = 1
             /\ y.start > hour /\ y.start < Tomorrow => Priority(y) = 2
             /\ y.start >= Tomorrow => Priority(y) = 3
             /\ y.start # NoHour /\ y.start <= hour /\ ~(y.end = NoHour \/ y.end > hour) =>
                    Priority(y) = 5
  <2>1. y.start \in Nat /\ y.end \in Nat
    BY DataAssumption
  <2>2. Priority(y) =
          CASE y.start = 0 -> 4
            [] y.start # 0 /\ y.start <= hour /\ (y.end = 0 \/ y.end > hour) -> 1
            [] y.start > hour /\ y.start >= Today /\ y.start < Tomorrow -> 2
            [] y.start >= Tomorrow -> 3
            [] OTHER -> 5
    BY DEF Priority, NoHour
  <2> HIDE DEF Tomorrow
  <2> QED BY <1>1, <1>2, <2>1, <2>2, SMTT(30) DEF NoHour
<1> HIDE DEF Tomorrow
<1>4. \A y \in ListingData : y.start \in Nat /\ y.end \in Nat
  BY DataAssumption
<1> DEFINE Group(y) ==
             \/ Priority(y) = 4 /\ y.start = NoHour
             \/ Priority(y) = 1 /\ y.start # NoHour /\ y.start <= hour
                /\ (y.end = NoHour \/ y.end > hour)
             \/ Priority(y) = 2 /\ y.start > hour /\ y.start < Tomorrow
             \/ Priority(y) = 3 /\ y.start >= Tomorrow
             \/ Priority(y) = 5 /\ y.start # NoHour /\ y.start <= hour
                /\ ~(y.end = NoHour \/ y.end > hour)
<1>5. ASSUME NEW y \in ListingData PROVE Group(y)
  <2>1. \/ y.start = NoHour
        \/ y.start # NoHour /\ y.start <= hour
        \/ y.start > hour /\ y.start < Tomorrow
        \/ y.start >= Tomorrow
    BY <1>2, <1>4
  <2> QED BY <1>3, <2>1
<1>6. /\ Priority(x) \in 1..5
      /\ Priority(x) \in 1..3 <=>
            x.start # NoHour /\ (x.start > hour \/ x.end = NoHour \/ x.end > hour)
  BY <1>2, <1>4, <1>5 DEF NoHour
<1>7. ASSUME NEW y \in ListingData, Priority(x) \in 1..3, Priority(y) \in 1..3, x.start < y.start
      PROVE  Priority(x) <= Priority(y)
  BY <1>2, <1>4, <1>5, <1>7
<1> QED
  BY <1>6, <1>7

\* Unless more match than are read, what is read is all that matches.
LEMMA BatchIsAll ==
    ASSUME NEW q \in Queries, Sane, ~Ambiguous(q), NEW b \in Batches(q)
    PROVE  b = Matching(q)
<1> DEFINE M == Matching(q)
           limit == IF q.noLimit THEN Cap ELSE FetchLimit
<1>1. IsFiniteSet(M) /\ Cardinality(M) \in Nat
  <2>1. IsFiniteSet(Numbers)
    BY FS_Interval, BrowsingAssumption DEF Numbers
  <2>2. M \subseteq Numbers
    BY DEF Matching, Sane
  <2> QED BY <2>1, <2>2, FS_Subset, FS_CardinalityType
<1>2. limit \in Nat
  BY BrowsingAssumption
<1>3. Cardinality(M) <= limit
  BY <1>1, <1>2 DEF Ambiguous
<1>4. b \in SUBSET M /\ Cardinality(b) = Min({limit, Cardinality(M)})
  BY DEF Batches, kSubset
<1> HIDE DEF M, limit
<1>5. Min({limit, Cardinality(M)}) = Cardinality(M)
  <2>1. limit \in Int /\ Cardinality(M) \in Int
    BY <1>1, <1>2
  <2>2. LET least == Min({limit, Cardinality(M)})
        IN  least \in {limit, Cardinality(M)} /\ least <= limit /\ least <= Cardinality(M)
    BY <2>1, OfTwo
  <2> QED BY <1>3, <2>1, <2>2
<1> QED
  BY <1>1, <1>4, <1>5, FS_Subset DEF M

\* What is to come before has a smaller key; so keys differ, and what has a
\* smaller one comes before.
LEMMA KeyPrecedes ==
    ASSUME NEW q \in Queries, Sane, ~Ambiguous(q)
    PROVE  /\ Key(q) \in [Wanted(q) -> Int]
           /\ \A i, j \in Wanted(q) : i # j => Key(q)[i] # Key(q)[j]
           /\ \A i, j \in Wanted(q) : Key(q)[i] < Key(q)[j] => Precedes(q, i, j)
<1> DEFINE W == Wanted(q)
           K == Key(q)
<1>1. \A i \in W : /\ i \in Int /\ listing[i] \in ListingData
                   /\ listing[i].start \in Int /\ listing[i].place \in Int
  BY DataAssumption DEF Wanted, Matching, Sane, Numbers
<1>2. /\ \A i \in W : K[i] \in Int
      /\ \A i, j \in W : Precedes(q, i, j) => K[i] < K[j]
  <2>1. CASE q.order = "creation"
    <3>1. \A i \in W : K[i] = -i
      BY <2>1 DEF Key
    <3>2. \A i, j \in W : Precedes(q, i, j) => i > j
      BY <2>1 DEF Precedes
    <3> HIDE DEF K, W
    <3> QED BY <1>1, <3>1, <3>2
  <2>2. CASE q.order = "events"
    <3>1. \A i \in W : K[i] = Priority(listing[i]) * Far + listing[i].start
      BY <2>2 DEF Key
    <3>2. \A i, j \in W : Precedes(q, i, j) => listing[i].start < listing[j].start
      BY <2>2 DEF Precedes
    <3>3. \A i \in W : listing[i].start # NoHour /\
            (listing[i].start > hour \/ listing[i].end = NoHour \/ listing[i].end > hour)
      BY <2>2 DEF Wanted
    <3>4. \A i \in W : Priority(listing[i]) \in 1..3
      BY <1>1, <3>3, PriorityIs DEF Sane
    <3>5. \A i, j \in W : Precedes(q, i, j) => Priority(listing[i]) <= Priority(listing[j])
      BY <1>1, <3>2, <3>4, PriorityIs DEF Sane
    <3> HIDE DEF K, W
    <3>6. \A i \in W : K[i] \in Int
      BY <1>1, <3>1, <3>4 DEF Far
    <3>7. ASSUME NEW i \in W, NEW j \in W, Precedes(q, i, j) PROVE K[i] < K[j]
      <4> DEFINE a == Priority(listing[i])
                 b == Priority(listing[j])
                 c == listing[i].start
                 d == listing[j].start
      <4>1. a \in Int /\ b \in Int /\ c \in Int /\ d \in Int /\ a <= b /\ c < d
        BY <1>1, <3>2, <3>4, <3>5, <3>7
      <4>2. K[i] = a * Far + c /\ K[j] = b * Far + d
        BY <3>1
      <4> HIDE DEF a, b, c, d
      <4> QED BY <4>1, <4>2 DEF Far
    <3> QED BY <3>6, <3>7
  <2>3. CASE q.order = "distance"
    <3>1. \A i \in W : K[i] = IF listing[i].place = 0 THEN Far ELSE listing[i].place
      BY <2>3 DEF Key
    <3>2. \A i, j \in W : Precedes(q, i, j) =>
             (IF listing[i].place = 0 THEN Far ELSE listing[i].place) <
             (IF listing[j].place = 0 THEN Far ELSE listing[j].place)
      BY <2>3 DEF Precedes
    <3> HIDE DEF K, W
    <3> QED BY <1>1, <3>1, <3>2 DEF Far
  <2> QED BY <2>1, <2>2, <2>3, DataAssumption
<1>3. \A i, j \in W : i # j => Precedes(q, i, j) \/ Precedes(q, j, i)
  BY DEF Ambiguous
<1>4. K \in [W -> Int]
  <2> DEFINE KeyOf(i) ==
               CASE q.order = "creation" -> -i
                 [] q.order = "events"   -> Priority(listing[i]) * Far + listing[i].start
                 [] q.order = "distance" ->
                       IF listing[i].place = 0 THEN Far ELSE listing[i].place
  <2>1. K = [i \in W |-> KeyOf(i)]
    BY DEF Key
  <2> HIDE DEF K, W, KeyOf
  <2>2. \A i \in W : KeyOf(i) \in Int
    BY <1>2, <2>1
  <2> QED BY <2>1, <2>2
<1> HIDE DEF K, W
<1>5. \A i, j \in W : i # j => K[i] # K[j]
  BY <1>2, <1>3
<1>6. ASSUME NEW i \in W, NEW j \in W, K[i] < K[j] PROVE Precedes(q, i, j)
  <2>1. i # j /\ ~(K[j] < K[i])
    BY <1>2, <1>6
  <2> QED BY <1>2, <1>3, <2>1
<1> QED
  BY <1>4, <1>5, <1>6 DEF K, W

\* However a request reads and sorts the listings, it finds what is wanted, in order.
LEMMA ListAscends ==
    ASSUME NEW q \in Queries, Sane, ~Ambiguous(q), NEW s \in Ordered(q)
    PROVE  Ascending(s, Wanted(q), Key(q))
<1> DEFINE W == Wanted(q)
           K == Key(q)
<1>1. W \in SUBSET Numbers
  BY DEF Wanted, Matching, Sane
<1>2. \A i \in Matching(q) : listing[i] \in ListingData
  BY DEF Matching, Sane
<1>3. CASE q.order = "creation"
  <2>1. W = Matching(q)
    BY <1>3 DEF Wanted
  <2>2. s \in SortedBy(W, [i \in W |-> -i])
    BY <1>3, <2>1 DEF Ordered, NewestFirst
  <2>3. K = [i \in W |-> -i]
    BY <1>3 DEF Key
  <2> QED BY <1>1, <2>2, <2>3, KeyPrecedes, SortedAscends
<1>4. CASE q.order = "events"
  <2>1. PICK b \in Batches(q) : s \in ByTime({i \in b : Priority(listing[i]) \in 1..3})
    BY <1>4 DEF Ordered
  <2>2. {i \in b : Priority(listing[i]) \in 1..3} = W
    <3>1. b = Matching(q)
      BY BatchIsAll
    <3>2. W = {i \in Matching(q) : listing[i].start # NoHour /\
                (listing[i].start > hour \/ listing[i].end = NoHour \/ listing[i].end > hour)}
      BY <1>4 DEF Wanted
    <3>3. \A i \in Matching(q) :
             Priority(listing[i]) \in 1..3 <=>
                listing[i].start # NoHour /\
                (listing[i].start > hour \/ listing[i].end = NoHour \/ listing[i].end > hour)
      BY <1>2, PriorityIs DEF Sane
    <3> QED BY <3>1, <3>2, <3>3
  <2>3. s \in SortedBy(W, [i \in W |-> Priority(listing[i]) * Far + listing[i].start])
    BY <2>1, <2>2 DEF ByTime
  <2>4. K = [i \in W |-> Priority(listing[i]) * Far + listing[i].start]
    BY <1>4 DEF Key
  <2> QED BY <1>1, <2>3, <2>4, KeyPrecedes, SortedAscends
<1>5. CASE q.order = "distance"
  <2>1. PICK b \in Batches(q) : s \in NearestFirst({i \in b : StillNear(q, i)})
    BY <1>5 DEF Ordered
  <2>2. {i \in b : StillNear(q, i)} = W
    <3>1. b = Matching(q)
      BY BatchIsAll
    <3> DEFINE Later(x) == Max({x.end, IF x.end = NoHour THEN x.start ELSE NoHour})
    <3>2. W = {i \in Matching(q) :
                 /\ q.radius # Elsewhere => listing[i].place <= q.radius
                 /\ listing[i].event => listing[i].start # NoHour /\ Later(listing[i]) >= hour}
      BY <1>5 DEF Wanted
    <3>3. ASSUME NEW x \in ListingData
          PROVE  Later(x) = IF x.end # NoHour THEN x.end ELSE x.start
      <4>1. x.end \in Nat /\ x.start \in Nat /\ x.end \in Int /\ x.start \in Int /\ NoHour \in Int
        BY DataAssumption DEF NoHour
      <4>2. CASE x.end = NoHour
        <5>1. Later(x) = Max({x.end, x.start})
          BY <4>2
        <5>2. /\ Max({x.end, x.start}) \in {x.end, x.start}
              /\ Max({x.end, x.start}) >= x.end /\ Max({x.end, x.start}) >= x.start
          BY <4>1, OfTwo
        <5> QED BY <4>1, <4>2, <5>1, <5>2 DEF NoHour
      <4>3. CASE x.end # NoHour
        <5>1. Later(x) = Max({x.end, NoHour})
          BY <4>3
        <5>2. /\ Max({x.end, NoHour}) \in {x.end, NoHour}
              /\ Max({x.end, NoHour}) >= x.end /\ Max({x.end, NoHour}) >= NoHour
          BY <4>1, OfTwo
        <5> QED BY <4>1, <4>3, <5>1, <5>2 DEF NoHour
      <4> QED BY <4>2, <4>3
    <3> HIDE DEF Later
    <3>4. \A i \in Matching(q) :
             StillNear(q, i) <=>
                 /\ q.radius # Elsewhere => listing[i].place <= q.radius
                 /\ listing[i].event => listing[i].start # NoHour /\ Later(listing[i]) >= hour
      BY <1>2, <3>3 DEF StillNear
    <3> QED BY <3>1, <3>2, <3>4
  <2>3. s \in SortedBy(W, [i \in W |-> IF listing[i].place = 0 THEN Far ELSE listing[i].place])
    BY <2>1, <2>2 DEF NearestFirst
  <2>4. K = [i \in W |-> IF listing[i].place = 0 THEN Far ELSE listing[i].place]
    BY <1>5 DEF Key
  <2> QED BY <1>1, <2>3, <2>4, KeyPrecedes, SortedAscends
<1> QED
  BY <1>3, <1>4, <1>5, DataAssumption

-----------------------------------------------------------------------------
(* Walks                                                                   *)

\* What a list is made of: as long as it stays, each request finds the same.
LEMMA ListStays ==
    ASSUME NEW q \in Queries, UNCHANGED <<listing, favourites, hour, festivalIds>>
    PROVE  /\ Matching(q)' = Matching(q)
           /\ Wanted(q)' = Wanted(q)
           /\ Ordered(q)' = Ordered(q)
           /\ Ambiguous(q)' <=> Ambiguous(q)
           /\ \A i, j : Precedes(q, i, j)' <=> Precedes(q, i, j)
<1>1. Matching(q)' = Matching(q)
  BY DEF Matching, Bounds, InBounds
<1>2. \A i, j : Precedes(q, i, j)' <=> Precedes(q, i, j)
  BY DEF Precedes
<1>3. Wanted(q)' = Wanted(q)
  BY <1>1 DEF Wanted
<1>4. Batches(q)' = Batches(q)
  BY <1>1 DEF Batches
<1>5. \A i : (Priority(listing[i]) = Priority(listing[i])') /\ (StillNear(q, i)' <=> StillNear(q, i))
  BY DEF Priority, StillNear, Today
<1>6. \A S : /\ NewestFirst(S)' = NewestFirst(S)
             /\ ByTime(S)' = ByTime(S) /\ NearestFirst(S)' = NearestFirst(S)
  BY <1>5 DEF NewestFirst, ByTime, NearestFirst
<1>7. Ordered(q)' = Ordered(q)
  BY <1>1, <1>4, <1>5, <1>6 DEF Ordered
<1>8. Ambiguous(q)' <=> Ambiguous(q)
  BY <1>1, <1>2, <1>3 DEF Ambiguous
<1> QED
  BY <1>1, <1>2, <1>3, <1>7, <1>8

\* A page has room for one listing at least.
LEMMA PageSizeIs == \A q \in Queries : PageSize(q) \in Nat \ {0}
<1> SUFFICES ASSUME NEW q \in Queries PROVE PageSize(q) \in Nat \ {0}
  OBVIOUS
<1>1. DefaultSize \in Nat \ {0} /\ MaxSize \in Nat \ {0} /\ Cap \in Nat \ {0} /\ q.size \in Nat
  BY BrowsingAssumption, DataAssumption
<1>2. DefaultSize \in Int /\ MaxSize \in Int /\ q.size \in Int
  BY <1>1
<1>3. Min({DefaultSize, MaxSize}) \in {DefaultSize, MaxSize}
  BY <1>2, OfTwo
<1>4. Min({q.size, MaxSize}) \in {q.size, MaxSize}
  BY <1>2, OfTwo
<1> QED BY <1>1, <1>3, <1>4 DEF PageSize

\* The pages cut a list without gap and overlap: each but the last is full, and
\* the last one reaches its end.
LEMMA PagesFit ==
    ASSUME NEW q \in Queries, NEW page \in Nat \ {0}, NEW s \in Seq(Numbers),
           q.noLimit => page = 1
    PROVE  LET size == PageSize(q)
               from == (page - 1) * size
               p == Slice(s, Skip(q, page), size)
               last == q.noLimit \/ page >= TotalPages(q, Len(s))
           IN  /\ from \in Nat
               /\ p \in Seq(Numbers)
               /\ \A k \in 1..Len(p) : p[k] = s[from + k]
               /\ ~last => Len(p) = size /\ from + size = page * size /\ from + size <= Len(s)
               /\ from <= Len(s) /\ last /\ (q.noLimit => Len(s) <= size) => Len(p) = Len(s) - from
<1> DEFINE size == PageSize(q)
           from == (page - 1) * size
           upTo == Min({Len(s), from + size})
           p == SubSeq(s, from + 1, upTo)
           last == q.noLimit \/ page >= TotalPages(q, Len(s))
<1>1. size \in Nat \ {0}
  BY PageSizeIs
<1> HIDE DEF size
<1>2. from \in Nat /\ from + size = page * size
  <2>1. \A a, b \in Nat : a * b \in Nat /\ a * b + b = (a + 1) * b
    OBVIOUS
  <2>2. page - 1 \in Nat /\ (page - 1) + 1 = page
    OBVIOUS
  <2> QED BY <1>1, <2>1, <2>2
<1>3. Skip(q, page) = from
  BY <1>1 DEF Skip, size
<1> HIDE DEF from
<1>4. Len(s) \in Nat
  OBVIOUS
<1>5. /\ upTo \in Int /\ upTo <= Len(s) /\ upTo <= from + size
      /\ upTo = Len(s) \/ upTo = from + size
  <2>1. Len(s) \in Int /\ from + size \in Int
    BY <1>1, <1>2, <1>4
  <2>2. /\ Min({Len(s), from + size}) \in {Len(s), from + size}
        /\ Min({Len(s), from + size}) <= Len(s) /\ Min({Len(s), from + size}) <= from + size
    BY <2>1, OfTwo
  <2> QED BY <2>1, <2>2
<1> HIDE DEF upTo
<1>6. \A i \in (from + 1)..upTo : s[i] \in Numbers
  <2>1. \A i \in (from + 1)..upTo : i \in 1..Len(s)
    BY <1>2, <1>4, <1>5
  <2> QED BY <2>1
<1>7. /\ p \in Seq(Numbers)
      /\ Len(p) = IF from + 1 <= upTo THEN upTo - from ELSE 0
      /\ \A k \in 1..(upTo - from) : p[k] = s[from + k]
  <2>1. from + 1 \in Int
    BY <1>2
  <2>2. /\ p \in Seq(Numbers)
        /\ Len(p) = IF from + 1 <= upTo THEN upTo - (from + 1) + 1 ELSE 0
        /\ \A k \in 1..(upTo - (from + 1) + 1) : p[k] = s[(from + 1) + k - 1]
    BY <1>5, <1>6, <2>1, SubSeqProperties
  <2>3. upTo - (from + 1) + 1 = upTo - from /\ \A k \in Int : (from + 1) + k - 1 = from + k
    BY <1>2, <1>5
  <2> HIDE DEF p
  <2>4. ASSUME NEW k \in 1..(upTo - from) PROVE p[k] = s[from + k]
    <3>1. p[k] = s[(from + 1) + k - 1]
      BY <2>2, <2>3
    <3>2. (from + 1) + k - 1 = from + k
      BY <1>2, <1>5
    <3> QED BY <3>1, <3>2
  <2> QED BY <2>2, <2>3, <2>4
<1> HIDE DEF p
<1>8. \A k \in 1..Len(p) : p[k] = s[from + k]
  BY <1>2, <1>5, <1>7
<1>9. LET d == (Len(s) + size - 1) \div size
      IN  d \in Int /\ d * size <= Len(s) + size - 1 /\ Len(s) + size - 1 < d * size + size
  BY <1>1, <1>4
<1> DEFINE d == (Len(s) + size - 1) \div size
<1>10. /\ TotalPages(q, Len(s)) = 1 \/ TotalPages(q, Len(s)) = d
       /\ TotalPages(q, Len(s)) >= 1 /\ TotalPages(q, Len(s)) >= d
  <2>1. 1 \in Int /\ d \in Int
    BY <1>9
  <2>2. TotalPages(q, Len(s)) = Max({1, d})
    BY DEF TotalPages, size
  <2> HIDE DEF d
  <2> QED BY <2>1, <2>2, OfTwo
<1> DEFINE pages == TotalPages(q, Len(s))
<1> HIDE DEF d, pages
<1>11. d \in Int /\ d * size <= Len(s) + size - 1 /\ Len(s) + size - 1 < d * size + size
  BY <1>9 DEF d
<1>12. ASSUME ~last PROVE from + size < Len(s)
  <2>1. page < pages
    BY <1>10, <1>11, <1>12 DEF pages
  <2>2. page + 1 <= d
    BY <1>10, <1>11, <2>1 DEF pages
  <2>3. (page + 1) * size <= d * size
    BY <1>1, <1>11, <2>2
  <2>4. (page + 1) * size = page * size + size /\ page * size \in Int /\ d * size \in Int
    BY <1>1, <1>11
  <2> QED BY <1>1, <1>2, <1>4, <1>11, <2>3, <2>4
<1>13. ASSUME last, ~q.noLimit PROVE from + size >= Len(s)
  <2>1. page >= d
    BY <1>10, <1>11, <1>13 DEF pages
  <2>2. d * size <= page * size
    BY <1>1, <1>11, <2>1
  <2>3. page * size \in Int /\ d * size \in Int
    BY <1>1, <1>11
  <2> QED BY <1>1, <1>2, <1>4, <1>11, <2>2, <2>3
<1>14. q.noLimit => from = 0
  BY <1>1 DEF from
<1> HIDE DEF last
<1>15. ~last => Len(p) = size /\ from + size = page * size /\ from + size <= Len(s)
  BY <1>1, <1>2, <1>4, <1>5, <1>7, <1>12
<1>16. from <= Len(s) /\ last /\ (q.noLimit => Len(s) <= size) => Len(p) = Len(s) - from
  BY <1>1, <1>2, <1>4, <1>5, <1>7, <1>13, <1>14
<1>17. Slice(s, Skip(q, page), PageSize(q)) = p
  BY <1>3 DEF Slice, p, upTo, size
<1> QED
  BY <1>2, <1>7, <1>8, <1>15, <1>16, <1>17 DEF size, from, last

\* Nothing changed, and the order and the number of the listings leave no doubt.
Settled == ~changed /\ ~Ambiguous(walk.query)

\* Where a walk is, it has shown full pages, and as long as nothing changes, what
\* comes first in whatever list the next request finds.
WalkFits ==
    /\ hour \in Nat
    /\ walk # NoWalk /\ walk.pc # "done" =>
          /\ walk.query.noLimit => walk.page = 1
          /\ Len(walk.shown) = (walk.page - 1) * PageSize(walk.query)
          /\ Settled => \A s \in Ordered(walk.query) : \A m \in 1..Len(walk.shown) :
                m <= Len(s) /\ walk.shown[m] = s[m]
    /\ WalkIsComplete

\* One page more: still what comes first, or all there is.
LEMMA PageShown ==
    ASSUME WalkInv, WalkFits, NEW q \in Queries, ShowPage(q)
    PROVE  WalkFits'
<1> DEFINE size == PageSize(q)
           from == (walk.page - 1) * size
           Shows(s) == Slice(s, Skip(q, walk.page), size)
           IsLast(s) == q.noLimit \/ walk.page >= TotalPages(q, Len(s))
<1>1. /\ walk # NoWalk /\ walk.pc = "fetch" /\ walk.query = q
      /\ UNCHANGED <<listing, favourites, hour, festivalIds, changed>>
  BY DEF ShowPage, NoWalk, table
<1>2. walk \in Walking /\ walk.page \in Nat \ {0} /\ walk.shown \in Seq(Numbers)
  BY <1>1 DEF WalkInv, Walking
<1>3. PICK s \in Ordered(q) :
        walk' = [walk EXCEPT !.pc = IF IsLast(s) THEN "done" ELSE "bounds",
                             !.page = IF IsLast(s) THEN @ ELSE @ + 1,
                             !.shown = @ \o Shows(s)]
  BY Zenon DEF ShowPage
<1>4. s \in Seq(Numbers)
  BY OrderedMatch DEF WalkInv
<1>5. /\ q.noLimit => walk.page = 1
      /\ Len(walk.shown) = from
      /\ Settled => from <= Len(s) /\ \A m \in 1..from : walk.shown[m] = s[m]
  <2>1. /\ q.noLimit => walk.page = 1
        /\ Len(walk.shown) = from /\ from \in Nat
        /\ Settled => \A m \in 1..from : m <= Len(s) /\ walk.shown[m] = s[m]
    BY <1>1, <1>2 DEF WalkFits
  <2>2. Len(s) \in Nat
    BY <1>4
  <2>3. ASSUME Settled PROVE from <= Len(s)
    <3> HIDE DEF from
    <3>1. CASE from = 0
      BY <2>2, <3>1
    <3>2. CASE from # 0
      BY <2>1, <2>3, <3>2
    <3> QED BY <3>1, <3>2
  <2> QED BY <2>1, <2>3
<1> DEFINE p == Shows(s)
           last == IsLast(s)
           whole == walk.shown \o p
<1>6. /\ from \in Nat /\ p \in Seq(Numbers)
      /\ \A k \in 1..Len(p) : p[k] = s[from + k]
      /\ ~last => Len(p) = size /\ from + size = walk.page * size /\ from + size <= Len(s)
      /\ from <= Len(s) /\ last /\ (q.noLimit => Len(s) <= size) => Len(p) = Len(s) - from
  BY <1>2, <1>4, <1>5, PagesFit
<1>7. /\ whole \in Seq(Numbers) /\ Len(whole) = from + Len(p) /\ Len(p) \in Nat
      /\ \A m \in 1..Len(whole) : whole[m] = IF m <= from THEN walk.shown[m] ELSE p[m - from]
  <2> HIDE DEF p, from
  <2>1. Len(walk.shown) = from /\ from \in Nat /\ p \in Seq(Numbers) /\ Len(p) \in Nat
    BY <1>5, <1>6
  <2>2. /\ whole \in Seq(Numbers) /\ Len(whole) = Len(walk.shown) + Len(p)
        /\ \A m \in 1..(Len(walk.shown) + Len(p)) :
              whole[m] = IF m <= Len(walk.shown) THEN walk.shown[m] ELSE p[m - Len(walk.shown)]
    BY <1>2, <2>1, ConcatProperties
  <2> HIDE DEF whole
  <2> QED BY <2>1, <2>2
<1>8. /\ walk'.pc = (IF last THEN "done" ELSE "bounds") /\ walk'.query = q
      /\ walk'.page = (IF last THEN walk.page ELSE walk.page + 1)
      /\ walk'.shown = whole /\ walk' # NoWalk
  <2>1. walk' = [walk EXCEPT !.pc = IF last THEN "done" ELSE "bounds",
                             !.page = IF last THEN @ ELSE @ + 1,
                             !.shown = whole]
    BY <1>3
  <2> HIDE DEF last, whole
  <2> QED BY <1>1, <1>2, <2>1 DEF Walking, NoWalk
<1>9. ASSUME Settled PROVE \A m \in 1..Len(whole) : whole[m] = s[m]
  <2> HIDE DEF whole, p, from
  <2> SUFFICES ASSUME NEW m \in 1..Len(whole) PROVE whole[m] = s[m]
    OBVIOUS
  <2>1. CASE m <= from
    <3>1. m \in 1..from
      BY <1>6, <1>7, <2>1
    <3>2. walk.shown[m] = s[m]
      BY <1>5, <1>9, <3>1
    <3> QED BY <1>7, <2>1, <3>2
  <2>2. CASE ~(m <= from)
    <3>1. m - from \in 1..Len(p) /\ from + (m - from) = m
      BY <1>6, <1>7, <2>2
    <3> QED BY <1>6, <1>7, <2>2, <3>1
  <2> QED BY <2>1, <2>2
<1>10. Settled' <=> Settled
  BY <1>1, <1>8, ListStays DEF Settled
<1>11. Sane
  BY DEF Sane, WalkInv, WalkFits
<1> DEFINE W == Wanted(q)
           K == Key(q)
<1>12. W \in SUBSET Numbers
  BY <1>11 DEF Wanted, Matching, Sane
<1>13. ASSUME Settled
       PROVE  /\ Ascending(s, W, K) /\ K \in [W -> Int]
              /\ \A t \in Ordered(q) : Ascending(t, W, K)
              /\ \A i, j \in W : K[i] < K[j] => Precedes(q, i, j)
  BY <1>1, <1>11, <1>13, ListAscends, KeyPrecedes DEF Settled
<1>14. CASE ~last
  <2>1. /\ walk'.pc = "bounds" /\ walk'.page = walk.page + 1 /\ ~q.noLimit
        /\ Len(whole) = walk.page * size /\ Len(whole) <= Len(s)
    BY <1>6, <1>7, <1>8, <1>14
  <2>2. (walk'.page - 1) * size = walk.page * size
    BY <1>2, <2>1
  <2>3. ASSUME Settled, NEW t \in Ordered(q)
        PROVE  \A m \in 1..Len(whole) : m <= Len(t) /\ whole[m] = t[m]
    <3> HIDE DEF whole, W, K, size, from
    <3>1. Ascending(t, W, K) /\ Ascending(s, W, K) /\ K \in [W -> Int]
      BY <1>13, <2>3
    <3>2. Len(s) = Len(t)
      BY <3>1 DEF Ascending
    <3>3. \A k \in 1..Len(s) : s[k] = t[k]
      BY <1>12, <3>1, SortedOnce
    <3>4. \A m \in 1..Len(whole) : m \in 1..Len(s)
      BY <1>4, <1>7, <2>1
    <3> QED BY <1>9, <2>1, <2>3, <3>2, <3>3, <3>4
  <2>4. Ordered(q)' = Ordered(q)
    BY <1>1, ListStays
  <2>5. PageSize(q)' = PageSize(q) /\ hour' \in Nat
    BY <1>1 DEF WalkFits, PageSize
  <2>6. WalkIsComplete'
    BY <2>1 DEF WalkIsComplete
  <2> HIDE DEF whole
  <2> QED BY <1>8, <1>10, <2>1, <2>2, <2>3, <2>4, <2>5, <2>6 DEF WalkFits
<1>15. CASE last
  <2>1. walk'.pc = "done" /\ hour' \in Nat
    BY <1>1, <1>8, <1>15 DEF WalkFits
  <2>2. ASSUME Settled
        PROVE  /\ ToSet(whole) = W
               /\ \A m, n \in 1..Len(whole) : m < n => Precedes(q, whole[m], whole[n])
    <3>1. /\ Len(s) = Cardinality(W) /\ ToSet(s) = W /\ s \in Seq(W)
          /\ \A m, n \in 1..Len(s) : m < n => K[s[m]] < K[s[n]]
      BY <1>13, <2>2 DEF Ascending
    <3>2. q.noLimit => Len(s) <= size
      <4> DEFINE M == Matching(q)
      <4>1. IsFiniteSet(M) /\ Cardinality(M) \in Nat
        <5>1. IsFiniteSet(Numbers)
          BY FS_Interval, BrowsingAssumption DEF Numbers
        <5>2. M \subseteq Numbers
          BY <1>11 DEF Matching, Sane
        <5> QED BY <5>1, <5>2, FS_Subset, FS_CardinalityType
      <4>2. Cardinality(W) <= Cardinality(M) /\ Cardinality(W) \in Nat
        <5>1. W \in SUBSET M
          BY DEF Wanted
        <5> QED BY <4>1, <5>1, FS_Subset, FS_CardinalityType
      <4>3. q.noLimit => Cardinality(M) <= Cap
        <5>1. ~(Cardinality(M) > IF q.noLimit THEN Cap ELSE FetchLimit)
          BY <1>1, <2>2 DEF Settled, Ambiguous
        <5> QED BY <4>1, <5>1, BrowsingAssumption
      <4>4. q.noLimit => size = Cap
        BY DEF PageSize
      <4> HIDE DEF M, W, size
      <4> QED BY <3>1, <4>1, <4>2, <4>3, <4>4, BrowsingAssumption
    <3>3. Len(whole) = Len(s)
      <4> HIDE DEF whole, p, from, size
      <4> QED BY <1>4, <1>5, <1>6, <1>7, <1>15, <2>2, <3>2
    <3>4. whole = s
      <4> HIDE DEF whole
      <4> QED BY <1>4, <1>7, <1>9, <2>2, <3>3, SeqEqual
    <3>5. \A m \in 1..Len(s) : s[m] \in W
      BY <3>1
    <3> HIDE DEF whole, W, K
    <3>6. \A m, n \in 1..Len(s) : m < n => Precedes(q, s[m], s[n])
      BY <1>13, <2>2, <3>1, <3>5
    <3> QED BY <3>1, <3>4, <3>6
  <2>3. Wanted(q)' = W /\ \A i, j : Precedes(q, i, j)' <=> Precedes(q, i, j)
    BY <1>1, ListStays
  <2>4. WalkIsComplete'
    <3> SUFFICES ASSUME Settled'
                 PROVE  (/\ ToSet(walk.shown) = Wanted(walk.query)
                         /\ \A m, n \in 1..Len(walk.shown) :
                               m < n => Precedes(walk.query, walk.shown[m], walk.shown[n]))'
      BY DEF WalkIsComplete, Settled
    <3> HIDE DEF whole, W
    <3>1. walk'.query = q /\ walk'.shown = whole
      BY <1>8
    <3> QED BY <1>10, <2>2, <2>3, <3>1
  <2> QED BY <2>1, <2>4 DEF WalkFits
<1> QED
  BY <1>14, <1>15

\* A walk through the pages while nothing changes shows every listing it asks for
\* once and in order, for any listings, sizes of the pages and filters, if the order
\* tells them apart and no more match than are read.
THEOREM WalksShowAll == BrowsingSpec => []WalkIsComplete
<1>1. BrowsingInit => WalkFits
  BY BrowsingAssumption DEF BrowsingInit, WalkFits, WalkIsComplete
<1>2. WalkInv /\ WalkFits /\ [BrowsingNext]_browsingVars => WalkFits'
  <2> SUFFICES ASSUME WalkInv, WalkFits, [BrowsingNext]_browsingVars PROVE WalkFits'
    OBVIOUS
  <2>1. walk # NoWalk => walk \in Walking /\ walk.query \in Queries
    BY DEF WalkInv, Walking
  <2>2. ASSUME UNCHANGED walk, changed', hour' \in Nat PROVE WalkFits'
    BY <2>2 DEF WalkFits, WalkIsComplete, Settled, PageSize
  <2>3. ASSUME UNCHANGED <<listing, favourites, hour, festivalIds, walk, changed>> PROVE WalkFits'
    <3>1. CASE walk = NoWalk
      BY <2>3, <3>1 DEF WalkFits, WalkIsComplete
    <3>2. CASE walk # NoWalk
      <4> DEFINE q == walk.query
      <4>1. /\ Wanted(q)' = Wanted(q) /\ Ordered(q)' = Ordered(q)
            /\ Ambiguous(q)' <=> Ambiguous(q)
            /\ \A i, j : Precedes(q, i, j)' <=> Precedes(q, i, j)
        BY <2>1, <2>3, <3>2, ListStays
      <4> QED BY <2>3, <3>2, <4>1 DEF WalkFits, WalkIsComplete, Settled, PageSize
    <3> QED BY <3>1, <3>2
  <2>4. CASE Open
    <3>1. PICK q \in Queries : walk' = [pc |-> "bounds", query |-> q, page |-> 1, shown |-> <<>>]
      BY <2>4 DEF Open
    <3>2. /\ walk'.pc = "bounds" /\ walk'.query = q /\ walk'.page = 1 /\ walk'.shown = <<>>
          /\ hour' \in Nat
      BY <2>4, <3>1 DEF Open, WalkFits
    <3>3. (1 - 1) * PageSize(q) = 0
      BY PageSizeIs
    <3>4. PageSize(q)' = PageSize(q)
      BY DEF PageSize
    <3> QED BY <3>2, <3>3, <3>4 DEF WalkFits, WalkIsComplete
  <2>5. CASE GetKodierWocheCategoryIds
    <3>1. /\ walk # NoWalk /\ walk.pc = "bounds" /\ walk' = [walk EXCEPT !.pc = "fetch"]
          /\ UNCHANGED <<listing, favourites, hour, changed>>
      BY <2>5 DEF GetKodierWocheCategoryIds, table, NoWalk
    <3>2. PICK q \in Queries : walk.query = q
      BY <2>1, <3>1
    <3>3. /\ walk'.pc = "fetch" /\ walk'.query = q /\ walk'.page = walk.page
          /\ walk'.shown = walk.shown /\ walk' # NoWalk
      BY <2>1, <3>1, <3>2 DEF Walking, NoWalk
    <3>4. PageSize(q)' = PageSize(q)
      BY DEF PageSize
    <3>5. CASE UNCHANGED festivalIds
      <4>1. Ordered(q)' = Ordered(q) /\ (Ambiguous(q)' <=> Ambiguous(q))
        BY <3>1, <3>5, ListStays
      <4> QED BY <3>1, <3>2, <3>3, <3>4, <4>1 DEF WalkFits, WalkIsComplete, Settled
    <3>6. CASE festivalIds' # festivalIds
      <4>1. walk.shown = <<>>
        BY <2>5, <3>1, <3>6 DEF GetKodierWocheCategoryIds, WalkInv
      <4> QED BY <3>1, <3>2, <3>3, <3>4, <4>1 DEF WalkFits, WalkIsComplete
    <3> QED BY <3>5, <3>6
  <2>6. CASE ListListings \/ GetUserFavorites
    BY <2>6, PageShown DEF ListListings, GetUserFavorites
  <2>7. CASE FindExpired
    BY <2>3, <2>7 DEF FindExpired, table
  <2>8. CASE DeleteExpired
    BY <2>2, <2>8 DEF DeleteExpired, WalkFits
  <2>9. ASSUME NEW i \in DOMAIN listing, Edit(i) \/ ToggleFavorite(i) PROVE WalkFits'
    BY <2>2, <2>9 DEF Edit, ToggleFavorite, Change, WalkFits
  <2>10. CASE SeedCategories
    BY <2>2, <2>10 DEF SeedCategories, Change, WalkFits
  <2>11. CASE Tick
    BY <2>2, <2>11 DEF Tick, WalkFits
  <2>12. CASE UNCHANGED browsingVars
    BY <2>3, <2>12 DEF browsingVars, table
  <2> QED
    BY <2>4, <2>5, <2>6, <2>7, <2>8, <2>9, <2>10, <2>11, <2>12 DEF BrowsingNext
<1>3. WalkFits => WalkIsComplete
  BY DEF WalkFits
<1> QED
  BY <1>1, <1>2, <1>3, WalkKept, PTL DEF BrowsingSpec
=============================================================================
