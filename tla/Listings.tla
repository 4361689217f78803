------------------------------ MODULE Listings ------------------------------
(***************************************************************************)
(* Listings of the core service: creation, editing, submission and         *)
(* moderation (listings.service.ts), with the slug, the cities, the        *)
(* intervals and the tags that belong to a listing.                        *)
(*                                                                         *)
(* Requests overlap; an action is the code between two awaits, and an      *)
(* update is one transaction that locks the row with its first write.      *)
(* All titles give the same base slug, so that a slug is the number        *)
(* appended to it.  In a behaviour the requests carry the data of one      *)
(* focus, the other data keep their defaults.                              *)
(***************************************************************************)
EXTENDS Integers, FiniteSets

CONSTANTS
    Requests,   \* concurrent requests
    Listings,   \* listings that can be created
    Cities,
    MaxRequests \* bound: requests in a behaviour

None == "none"      \* no listing, no city
NoSlug == -1        \* the update carries no slug

ASSUME ListingsAssumption == MaxRequests \in Nat /\ None \notin Listings

VARIABLES
    focus,      \* "review", "slug", "cities" or "dates": what the requests are about
    row,        \* the listings that exist: [id -> columns and related rows]
    made,       \* ids given out
    pc, target, candidate,  \* each request: control, its listing, slug tried
    dated,      \* each request: the publication date it read was set
    look,       \* history: the content is "new", "seen" by an admin or "raced"
    stale,      \* history: the user edited what this admin looked at
    manual,     \* history: an admin's update set the review columns
    explicit,   \* history: the event's dates were given, not derived
    overlap,    \* history: two requests worked on this listing at once
    left        \* what remains of MaxRequests

histVars == <<look, stale, manual, explicit>>
vars == <<focus, row, made, pc, target, candidate, dated, look, stale, manual,
          explicit, overlap, left>>

Foci == {"review", "slug", "cities", "dates"}
Statuses == {"PENDING", "APPROVED", "REJECTED", "DELETED"}
ModerationStatuses == {"PENDING", "APPROVED", "REJECTED", "CHANGES_REQUESTED", "ARCHIVED"}
Pc == {"idle", "checkSlug", "insert", "tags", "update", "view", "decide", "submit"}

-----------------------------------------------------------------------------
(* What the requests carry                                                 *)

Flags == {"yes", "no", "unset"}

\* At most two cities, none of them twice.
CityRefs ==
    {refs \in UNION {[1..n -> [city : Cities, flag : Flags]] : n \in 0..2} :
        \A i, j \in DOMAIN refs : refs[i].city = refs[j].city => i = j}

CityChoices == IF focus = "cities" THEN CityRefs ELSE {<<>>}

\* Two intervals of a day of three hours.
Spans == {<<1, 2>>, <<2, 3>>}

\* A date of the request: undefined, null or an hour.
Undefined == -1
Null == 0
Hour == 2

\* Absent intervals and dates that are left undefined.
NoDates == [given |-> FALSE, intervals |-> {}, start |-> Undefined, end |-> Undefined]

DateChoices ==
    IF focus = "dates"
    THEN {d \in [given : BOOLEAN, intervals : SUBSET Spans,
                 start : {Undefined, Null, Hour}, end : {Undefined, Null, Hour}] :
             d.intervals # {} => d.given}
    ELSE {NoDates}

\* Who creates or updates: administrators matter to the review only.
Admins == IF focus = "review" THEN BOOLEAN ELSE {FALSE}

TagChoices == IF focus = "slug" THEN BOOLEAN ELSE {FALSE}

-----------------------------------------------------------------------------
(* Data derived from a request                                             *)

FirstFlagged(refs) == {i \in DOMAIN refs : /\ refs[i].flag = "yes"
                                           /\ \A j \in 1..(i - 1) : refs[j].flag # "yes"}

\* Slip: the first city, whichever is flagged.
PrimaryFirst(refs) == IF refs = <<>> THEN None ELSE refs[1].city

\* The city flagged as primary, or else the first.
PrimaryCity(refs) ==
    IF refs = <<>> THEN None
    ELSE IF FirstFlagged(refs) = {} THEN refs[1].city
    ELSE refs[CHOOSE i \in FirstFlagged(refs) : TRUE].city

\* The references that are stored as primary: by default, the first.
FlaggedCities(refs) ==
    {refs[i].city : i \in {j \in DOMAIN refs :
        refs[j].flag = "yes" \/ (refs[j].flag = "unset" /\ j = 1)}}

SyncCities(x, refs) ==
    [x EXCEPT !.cities = {refs[i].city : i \in DOMAIN refs},
              !.flagged = FlaggedCities(refs),
              !.primary = PrimaryCity(refs)]

Earliest(spans) == IF spans = {} THEN Null
                   ELSE CHOOSE t \in {s[1] : s \in spans} : \A s \in spans : t <= s[1]

Latest(spans) == IF spans = {} THEN Null
                 ELSE CHOOSE t \in {s[2] : s \in spans} : \A s \in spans : t >= s[2]

\* The event's dates come from the intervals if neither is in the request.
Derives(d) == d.given /\ d.start = Undefined /\ d.end = Undefined

SyncDates(x, d) ==
    [x EXCEPT !.intervals = IF d.given THEN d.intervals ELSE @,
              !.start = IF d.start # Undefined THEN d.start
                        ELSE IF Derives(d) THEN Earliest(d.intervals) ELSE @,
              !.end = IF d.end # Undefined THEN d.end
                      ELSE IF Derives(d) THEN Latest(d.intervals) ELSE @]

GivesDates(d) == d.start # Undefined \/ d.end # Undefined

\* Administrators' listings are approved and published at once.
NewListing(admin, slug) ==
    [slug |-> slug, owner |-> IF admin THEN "admin" ELSE "user",
     status |-> IF admin THEN "APPROVED" ELSE "PENDING",
     mod |-> IF admin THEN "APPROVED" ELSE "PENDING",
     archived |-> FALSE, dated |-> admin, tags |-> FALSE,
     cities |-> {}, flagged |-> {}, primary |-> None,
     intervals |-> {}, start |-> Null, end |-> Null]

-----------------------------------------------------------------------------
(* Requests and slugs                                                      *)

Init ==
    /\ focus \in Foci
    /\ row = <<>>
    /\ made = {}
    /\ pc = [r \in Requests |-> "idle"]
    /\ target = [r \in Requests |-> None]
    /\ candidate = [r \in Requests |-> NoSlug]
    /\ dated = [r \in Requests |-> FALSE]
    /\ look = [l \in Listings |-> "new"]
    /\ stale = [r \in Requests |-> FALSE]
    /\ manual = [l \in Listings |-> FALSE]
    /\ explicit = [l \in Listings |-> FALSE]
    /\ overlap = {}
    /\ left = MaxRequests

Existing == DOMAIN row

Begin(r, label, l, slug) ==
    /\ pc[r] = "idle"
    /\ left > 0
    /\ left' = left - 1
    /\ pc' = [pc EXCEPT ![r] = label]
    /\ target' = [target EXCEPT ![r] = l]
    /\ candidate' = [candidate EXCEPT ![r] = slug]
    /\ stale' = [stale EXCEPT ![r] = FALSE]
    /\ overlap' = overlap \cup {k \in {l} : k # None /\ \E q \in Requests : target[q] = k}
    /\ UNCHANGED <<focus, row, made, dated, look, manual, explicit>>

Done(r) ==
    /\ pc' = [pc EXCEPT ![r] = "idle"]
    /\ target' = [target EXCEPT ![r] = None]
    /\ candidate' = [candidate EXCEPT ![r] = NoSlug]
    /\ dated' = [dated EXCEPT ![r] = FALSE]

BeginCreate(r) == Begin(r, "checkSlug", None, 0)

BeginUpdate(r) ==
    \E l \in Existing :
        \/ Begin(r, "update", l, NoSlug)
        \/ focus = "slug" /\ Begin(r, "checkSlug", l, 0)

\* Slip: the listing's own slug counts as taken.
SlugTakenByAny(r) == \E l \in Existing : row[l].slug = candidate[r]

\* By another listing.
SlugTaken(r) == \E l \in Existing \ {target[r]} : row[l].slug = candidate[r]

\* ensureUniqueSlug: one query per candidate.
CheckSlug(r) ==
    /\ pc[r] = "checkSlug"
    /\ IF SlugTaken(r)
       THEN candidate' = [candidate EXCEPT ![r] = @ + 1] /\ UNCHANGED pc
       ELSE /\ pc' = [pc EXCEPT ![r] = IF target[r] = None THEN "insert" ELSE "update"]
            /\ UNCHANGED candidate
    /\ UNCHANGED <<focus, row, made, target, dated, histVars, overlap, left>>

\* Another listing took the slug since: the database's unique key refuses it.
SlugConflict(r) ==
    /\ pc[r] \in {"insert", "update"}
    /\ \E l \in Existing \ {target[r]} : row[l].slug = candidate[r]
    /\ Done(r)
    /\ UNCHANGED <<focus, row, made, histVars, overlap, left>>

-----------------------------------------------------------------------------
(* Creation                                                                *)

CreateListing(r) ==
    /\ pc[r] = "insert"
    /\ \A l \in Existing : row[l].slug # candidate[r]
    /\ \E l \in Listings \ made, admin \in Admins, refs \in CityChoices,
          d \in DateChoices, tags \in TagChoices :
          /\ row' = [k \in Existing \cup {l} |->
                       IF k = l
                       THEN SyncDates(SyncCities(NewListing(admin, candidate[r]), refs), d)
                       ELSE row[k]]
          /\ made' = made \cup {l}
          /\ look' = [look EXCEPT ![l] = IF admin THEN "seen" ELSE "new"]
          /\ explicit' = [explicit EXCEPT ![l] = GivesDates(d)]
          /\ IF tags
             THEN /\ pc' = [pc EXCEPT ![r] = "tags"]
                  /\ target' = [target EXCEPT ![r] = l]
                  /\ candidate' = [candidate EXCEPT ![r] = NoSlug]
                  /\ UNCHANGED dated
             ELSE Done(r)
    /\ UNCHANGED <<focus, stale, manual, overlap, left>>

\* A transaction of its own; a listing that is gone is refused.
SyncListingTags(r) ==
    /\ pc[r] = "tags"
    /\ row' = [l \in Existing |-> IF l = target[r] THEN [row[l] EXCEPT !.tags = TRUE]
                                  ELSE row[l]]
    /\ Done(r)
    /\ UNCHANGED <<focus, made, histVars, overlap, left>>

-----------------------------------------------------------------------------
(* Update                                                                  *)

Touched(r) == row[target[r]]

\* Slip: an edit by the user leaves the verdict.
UserEditKeepsVerdict(x) == x

\* Whatever a user edits has to be reviewed again.
UserEdit(x) == [x EXCEPT !.status = "PENDING", !.mod = "PENDING"]

\* The slug, cities, dates and tags of a request, or what the listing has.
Edited(r, refs, d, tags) ==
    LET x == [Touched(r) EXCEPT
                 !.slug = IF candidate[r] = NoSlug THEN @ ELSE candidate[r],
                 !.tags = IF focus = "slug" THEN tags ELSE @]
    IN  SyncDates(IF focus = "cities" THEN SyncCities(x, refs) ELSE x, d)

Writable(r) ==
    /\ pc[r] = "update"
    /\ target[r] \in Existing
    /\ \A l \in Existing \ {target[r]} : row[l].slug # candidate[r]

UpdateByUser(r) ==
    LET l == target[r]
    IN  /\ Writable(r)
        /\ Touched(r).owner = "user"
        /\ \E refs \in CityChoices, d \in DateChoices, tags \in TagChoices :
              /\ row' = [row EXCEPT ![l] = UserEdit(Edited(r, refs, d, tags))]
              /\ explicit' = [explicit EXCEPT ![l] = GivesDates(d) \/ (@ /\ ~Derives(d))]
        /\ look' = [look EXCEPT ![l] = "new"]
        /\ stale' = [q \in Requests |-> stale[q] \/ (q # r /\ target[q] = l)]
        /\ Done(r)
        /\ UNCHANGED <<focus, made, manual, overlap, left>>

\* What an administrator may set in the listing, one column per request here.
SetByAdmin(x) ==
    {[x EXCEPT !.mod = m] : m \in ModerationStatuses}
    \cup {[x EXCEPT !.archived = b] : b \in BOOLEAN}
    \cup {[x EXCEPT !.dated = b] : b \in BOOLEAN}

Decided(r, l) == look' = [look EXCEPT ![l] = IF stale[r] THEN "raced" ELSE "seen"]

UpdateByAdmin(r) ==
    LET l == target[r]
    IN  /\ Writable(r)
        /\ TRUE \in Admins
        /\ \/ \E x \in SetByAdmin(Touched(r)) : row' = [row EXCEPT ![l] = x] /\ UNCHANGED look
           \/ /\ \E s \in Statuses : row' = [row EXCEPT ![l].status = s]
              /\ Decided(r, l)
        /\ manual' = [manual EXCEPT ![l] = TRUE]
        /\ Done(r)
        /\ UNCHANGED <<focus, made, stale, explicit, overlap, left>>

\* The listing is gone, or it is not the user's.
UpdateRefused(r) ==
    /\ pc[r] = "update"
    /\ target[r] \in Existing => Touched(r).owner = "admin"
    /\ Done(r)
    /\ UNCHANGED <<focus, row, made, histVars, overlap, left>>

-----------------------------------------------------------------------------
(* Submission and moderation: a read, then a write                         *)

SubmitListingForReview(r) ==
    focus = "review" /\ \E l \in Existing : Begin(r, "submit", l, NoSlug)

Resubmit(r) ==
    /\ pc[r] = "submit"
    /\ target[r] \in Existing
    /\ row' = [row EXCEPT ![target[r]] = [@ EXCEPT !.status = "PENDING", !.mod = "PENDING"]]
    /\ Done(r)
    /\ UNCHANGED <<focus, made, histVars, overlap, left>>

\* A moderator looks at the listing and sends a verdict.
View(r) ==
    focus = "review" /\ \E l \in Existing : Begin(r, "view", l, NoSlug)

ReadPublishAt(r) ==
    /\ pc[r] = "view"
    /\ target[r] \in Existing
    /\ dated' = [dated EXCEPT ![r] = Touched(r).dated]
    /\ pc' = [pc EXCEPT ![r] = "decide"]
    /\ UNCHANGED <<focus, row, made, target, candidate, histVars, overlap, left>>

\* Slip: the publication gets no date.
ApproveUndated(r, x) ==
    {[x EXCEPT !.mod = "APPROVED", !.status = s, !.archived = FALSE] : s \in Statuses}

\* With another status to publish it in than APPROVED, or that.
Approve(r, x) ==
    {[x EXCEPT !.mod = "APPROVED", !.status = s, !.archived = FALSE,
               !.dated = @ \/ (~dated[r] /\ s = "APPROVED")] : s \in Statuses}

Reject(x) == [x EXCEPT !.mod = "REJECTED", !.status = "REJECTED"]

RequestChanges(x) == [x EXCEPT !.mod = "CHANGES_REQUESTED", !.status = "PENDING"]

Archive(x) == [x EXCEPT !.mod = "ARCHIVED", !.status = "DELETED", !.archived = TRUE]

\* The general endpoint may also set it back to pending, in any status.
Reopen(x) == {[x EXCEPT !.mod = "PENDING", !.status = s] : s \in Statuses}

ModerateListing(r) ==
    LET l == target[r]
        x == Touched(r)
    IN  /\ pc[r] = "decide"
        /\ l \in Existing
        /\ \E y \in Approve(r, x) \cup {Reject(x), RequestChanges(x), Archive(x)} \cup Reopen(x) :
              row' = [row EXCEPT ![l] = y]
        /\ Decided(r, l)
        /\ Done(r)
        /\ UNCHANGED <<focus, made, stale, manual, explicit, overlap, left>>

ListingGone(r) ==
    /\ pc[r] \in {"submit", "view", "decide"}
    /\ target[r] \notin Existing
    /\ Done(r)
    /\ UNCHANGED <<focus, row, made, histVars, overlap, left>>

\* The daily clean-up deletes a listing whose event is over.
Expire(l) ==
    /\ l \in Existing
    /\ row' = [k \in Existing \ {l} |-> row[k]]
    /\ UNCHANGED <<focus, made, pc, target, candidate, dated, histVars, overlap, left>>

-----------------------------------------------------------------------------
Step(r) ==
    \/ BeginCreate(r) \/ BeginUpdate(r) \/ CheckSlug(r) \/ SlugConflict(r)
    \/ CreateListing(r) \/ SyncListingTags(r)
    \/ UpdateByUser(r) \/ UpdateByAdmin(r) \/ UpdateRefused(r)
    \/ SubmitListingForReview(r) \/ Resubmit(r)
    \/ View(r) \/ ReadPublishAt(r) \/ ModerateListing(r) \/ ListingGone(r)

Next ==
    \/ \E r \in Requests : Step(r)
    \/ \E l \in Listings : Expire(l)

Spec == Init /\ [][Next]_vars

-----------------------------------------------------------------------------
(* Properties                                                              *)

Row == [slug : Nat, owner : {"user", "admin"}, status : Statuses, mod : ModerationStatuses,
        archived : BOOLEAN, dated : BOOLEAN, tags : BOOLEAN, cities : SUBSET Cities,
        flagged : SUBSET Cities, primary : Cities \cup {None}, intervals : SUBSET Spans,
        start : 0..3, end : 0..3]

\* Types; a request that has a listing works on one that was created.
TypeOK ==
    /\ focus \in Foci
    /\ made \subseteq Listings
    /\ Existing \subseteq made
    /\ row \in [Existing -> Row]
    /\ pc \in [Requests -> Pc]
    /\ target \in [Requests -> made \cup {None}]
    /\ candidate \in [Requests -> Nat \cup {NoSlug}]
    /\ \A r \in Requests : pc[r] = "idle" => target[r] = None /\ candidate[r] = NoSlug
    /\ dated \in [Requests -> BOOLEAN]
    /\ look \in [Listings -> {"new", "seen", "raced"}]
    /\ stale \in [Requests -> BOOLEAN]
    /\ manual \in [Listings -> BOOLEAN]
    /\ explicit \in [Listings -> BOOLEAN]
    /\ overlap \subseteq Listings
    /\ left \in 0..MaxRequests

\* Nothing a user has written is shown as approved before an administrator
\* looked at it, in any order of edits, submissions and verdicts.  Only a
\* verdict that the user's edit overtakes approves what nobody saw.
ApprovedWasSeen ==
    \A l \in Existing : row[l].status = "APPROVED" => look[l] # "new"

\* What moderation has approved has a date of publication, though the date is
\* read before the verdict is written; updates by administrators aside.
ApprovedIsDated ==
    \A l \in Existing :
        row[l].mod = "APPROVED" /\ row[l].status = "APPROVED" /\ ~manual[l] => row[l].dated

PrimaryIsListed(x) ==
    /\ x.primary \in x.cities \/ (x.primary = None /\ x.cities = {})
    /\ x.flagged # {} => x.primary \in x.flagged

DatesFollowIntervals(x) == x.start = Earliest(x.intervals) /\ x.end = Latest(x.intervals)

\* What a listing repeats of its related rows agrees with them after any
\* sequence of partial updates: the primary city is one of its cities, and
\* flagged if any is; the dates are those of the intervals until dates are
\* given.
DerivedColumnsAgree ==
    \A l \in Existing :
        PrimaryIsListed(row[l]) /\ (explicit[l] \/ DatesFollowIntervals(row[l]))

\* A listing that is given the same base again keeps its slug or gets one with
\* a smaller number, unless it is updated twice at once.
SlugNeverGrows ==
    [][\A l \in Existing \cap DOMAIN row' :
          row'[l].slug <= row[l].slug \/ l \in overlap]_vars
=============================================================================
