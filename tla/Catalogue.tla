----------------------------- MODULE Catalogue -----------------------------
(***************************************************************************)
(* The catalogue of one city as the app lists it: the tree of categories   *)
(* assigned to the city, or the tiles, and the Redis cache in front of     *)
(* either list (categories.service.ts, sub-services.service.ts,            *)
(* tiles.service.ts).                                                      *)
(*                                                                         *)
(* Requests overlap; an action is the code between two awaits, less the    *)
(* search for a free slug, which Listings has.  Some operations clear the  *)
(* cache after they have written, some do not.  A category of the view     *)
(* type SUB_SERVICES links tiles, which then leave the main list.          *)
(* The behaviour is about categories or about tiles, as focus says.        *)
(***************************************************************************)
EXTENDS Integers

CONSTANTS
    Calls,        \* concurrent requests
    Categories, Tiles,
    Admins,       \* city administrators, who request categories
    MaxRequests,  \* bound: requests in a behaviour
    MaxFailures   \* bound: failed calls and crashes

None == "none"

ASSUME CatalogueAssumption ==
    None \notin Categories \cup Tiles /\ MaxRequests \in Nat /\ MaxFailures \in Nat

VARIABLES
    focus,     \* "categories" or "tiles"
    db,        \* the tables
    cache,     \* the cached list
    place, target,    \* each request: control, its category or tile
    snapshot, found,  \* each reader: rows read first, list made of them
    search,           \* each reader: it asks for a search term
    outdated,         \* history: the tables changed since the reader read
    behind,           \* history: they changed by an operation that keeps the cache
    withdrawn,        \* history: categories taken from the city since approved, or
                      \* whose assignment failed
    left, failures    \* what remains of the bounds

readVars  == <<snapshot, found, search>>
boundVars == <<left, failures>>
catalogueVars ==
    <<focus, db, cache, place, target, readVars, outdated, behind, withdrawn, boundVars>>

Places == {"idle", "categories", "lookup", "links", "tiles", "store", "map", "invalidate",
           "delete", "change", "unassign", "assign", "drop", "link"}
RequestStatus == {"PENDING", "APPROVED", "REJECTED"}

-----------------------------------------------------------------------------
(* What a list shows                                                       *)

AssignedTo(d) == {c \in d.cats : d.assigned[c] = "on"}

\* The query: of the assigned categories the active ones whose parent, if
\* any, is active and assigned.
Fetched(d, ids) ==
    {c \in d.cats \cap ids : /\ c \in d.active
                             /\ \/ d.parent[c] = None
                                \/ d.parent[c] \in d.active \cap ids}

\* Slip: whatever the query has found.
AllFetched(d, S) == S

\* A child without its parent is dropped, again and again: what stays is the
\* largest set that has the parents of its members.
WithoutOrphans(d, S) ==
    {c \in S : \E X \in SUBSET S :
        c \in X /\ \A x \in X : d.parent[x] = None \/ d.parent[x] \in X}

\* What has no parent in the list is a root of the tree, the others hang
\* below theirs.
Roots(d, S) == {c \in S : d.parent[c] \notin S}

\* A set with the roots and with what hangs below its members.
Closed(d, S, X) == \A c \in S : d.parent[c] \in X => c \in X

Tree(d, S, roots) ==
    {c \in S : \A X \in SUBSET S : roots \subseteq X /\ Closed(d, S, X) => c \in X}

CityTree(d, ids) ==
    LET S == WithoutOrphans(d, Fetched(d, ids)) IN Tree(d, S, Roots(d, S))

Linked(d) == {t \in Tiles : d.links[t] = "on"}

TileList(d, linked) == (d.tiles \cap d.live) \ linked

List == IF focus = "categories" THEN CityTree(db, AssignedTo(db)) ELSE TileList(db, Linked(db))

-----------------------------------------------------------------------------
(* Requests, tables and cache                                              *)

Acyclic(parent) ==
    \A c \in Categories : parent[c] # c /\ (parent[c] # None => parent[parent[c]] = None)

\* A catalogue in use: categories of up to two levels, or tiles.
InitialTables ==
    {[cats |-> C, active |-> C, parent |-> p,
      assigned |-> [c \in Categories |-> IF c \in A THEN "on" ELSE None],
      asked |-> {}, tiles |-> T, live |-> T,
      links |-> [t \in Tiles |-> None]] :
        C \in (SUBSET Categories) \ {{}},
        p \in {q \in [Categories -> Categories \cup {None}] : Acyclic(q)},
        A \in SUBSET Categories, T \in SUBSET Tiles}

NoCache == [list |-> {}, raced |-> FALSE, search |-> FALSE, full |-> FALSE]

CatalogueInit ==
    /\ focus \in {"categories", "tiles"}
    /\ db \in InitialTables
    /\ \A c \in Categories : db.assigned[c] = "on" \/ db.parent[c] # None => c \in db.cats
    /\ \A c \in db.cats : db.parent[c] = None \/ db.parent[c] \in db.cats
    /\ IF focus = "categories" THEN db.tiles = {}
       ELSE db.cats = Categories /\ \A c \in Categories : db.assigned[c] = None /\ db.parent[c] = None
    /\ cache = NoCache
    /\ place = [r \in Calls |-> "idle"]
    /\ target = [r \in Calls |-> None]
    /\ snapshot = [r \in Calls |-> {}]
    /\ found = [r \in Calls |-> {}]
    /\ search = [r \in Calls |-> FALSE]
    /\ outdated = [r \in Calls |-> FALSE]
    /\ behind = FALSE
    /\ withdrawn = {}
    /\ left = MaxRequests
    /\ failures = MaxFailures

Move(r, label, x) ==
    /\ place' = [place EXCEPT ![r] = label]
    /\ target' = [target EXCEPT ![r] = x]

\* A request begins.
Begin(r) == place[r] = "idle" /\ left > 0 /\ left' = left - 1 /\ UNCHANGED failures

\* A request goes on.
At(r, label) == place[r] = label /\ UNCHANGED boundVars

Reading == {"categories", "lookup", "tiles", "store"}

\* A table is written; whoever has read before has read something older.
Write(d) ==
    /\ db' = d
    /\ outdated' = [q \in Calls |-> outdated[q] \/ place[q] \in Reading]
    /\ UNCHANGED <<focus, cache, readVars>>

ReadOnly == UNCHANGED <<focus, db, cache, outdated, behind, withdrawn>>

\* Slip: the operation forgets the cache.
ThenForget(r) == Move(r, "idle", None) /\ UNCHANGED <<behind, withdrawn>>

\* An operation that clears the cache next, or one that leaves it.
ThenInvalidate(r) == Move(r, "invalidate", None) /\ UNCHANGED <<behind, withdrawn>>

LeaveCache(r) == Move(r, "idle", None) /\ behind' = cache.full

\* A reader has answered.
EndRead(r) ==
    /\ Move(r, "idle", None)
    /\ snapshot' = [snapshot EXCEPT ![r] = {}]
    /\ found' = [found EXCEPT ![r] = {}]
    /\ search' = [search EXCEPT ![r] = FALSE]
    /\ outdated' = [outdated EXCEPT ![r] = FALSE]

\* What a request was to change is gone.
Refused(r) == Move(r, "idle", None) /\ ReadOnly /\ UNCHANGED readVars

InvalidateCache(r) ==
    /\ At(r, "invalidate")
    /\ cache' = NoCache
    /\ behind' = FALSE
    /\ Move(r, "idle", None)
    /\ UNCHANGED <<focus, db, readVars, outdated, withdrawn>>

ExpireCache ==
    /\ cache.full
    /\ cache' = NoCache
    /\ behind' = FALSE
    /\ UNCHANGED <<focus, db, place, target, readVars, outdated, withdrawn, boundVars>>

\* A call fails, an error of Redis is swallowed, or the service crashes.
Fail(r) ==
    /\ place[r] # "idle"
    /\ failures > 0
    /\ failures' = failures - 1
    /\ EndRead(r)
    /\ behind' = (behind \/ (cache.full /\ place[r] \in {"invalidate", "map"}))
    /\ withdrawn' = IF place[r] = "assign" THEN withdrawn \cup {target[r]} ELSE withdrawn
    /\ UNCHANGED <<focus, db, cache, left>>

-----------------------------------------------------------------------------
(* Readers                                                                 *)

\* The assignments come first, the categories next, the cache last.
ListCityCategories(r) ==
    /\ focus = "categories"
    /\ Begin(r)
    /\ snapshot' = [snapshot EXCEPT ![r] = AssignedTo(db)]
    /\ \E s \in BOOLEAN : search' = [search EXCEPT ![r] = s]
    /\ outdated' = [outdated EXCEPT ![r] = FALSE]
    /\ Move(r, "categories", None)
    /\ UNCHANGED <<focus, db, cache, found, behind, withdrawn>>

\* A search keeps the trees below some of the roots.
ReadCategories(r) ==
    /\ At(r, "categories")
    /\ LET S == WithoutOrphans(db, Fetched(db, snapshot[r]))
       IN  \E roots \in IF search[r] THEN SUBSET Roots(db, S) ELSE {Roots(db, S)} :
              found' = [found EXCEPT ![r] = Tree(db, S, roots)]
    /\ Move(r, "lookup", None)
    /\ ReadOnly
    /\ UNCHANGED <<snapshot, search>>

\* The cache comes first.
ListTiles(r) ==
    /\ focus = "tiles"
    /\ Begin(r)
    /\ Move(r, "lookup", None)
    /\ ReadOnly
    /\ UNCHANGED readVars

GetCache(r) ==
    /\ At(r, "lookup")
    /\ IF cache.full
       THEN EndRead(r)
       ELSE /\ Move(r, IF focus = "categories" THEN "store" ELSE "links", None)
            /\ UNCHANGED <<readVars, outdated>>
    /\ UNCHANGED <<focus, db, cache, behind, withdrawn>>

ReadLinks(r) ==
    /\ At(r, "links")
    /\ snapshot' = [snapshot EXCEPT ![r] = Linked(db)]
    /\ outdated' = [outdated EXCEPT ![r] = FALSE]
    /\ Move(r, "tiles", None)
    /\ UNCHANGED <<focus, db, cache, found, search, behind, withdrawn>>

ReadTiles(r) ==
    /\ At(r, "tiles")
    /\ found' = [found EXCEPT ![r] = TileList(db, snapshot[r])]
    /\ Move(r, "store", None)
    /\ ReadOnly
    /\ UNCHANGED <<snapshot, search>>

SetCache(r) ==
    /\ At(r, "store")
    /\ cache' = [list |-> found[r], raced |-> outdated[r], search |-> search[r], full |-> TRUE]
    /\ behind' = FALSE
    /\ EndRead(r)
    /\ UNCHANGED <<focus, db, withdrawn>>

-----------------------------------------------------------------------------
(* Categories                                                              *)

CreateCategory(r) ==
    /\ focus = "categories"
    /\ Begin(r)
    /\ \E c \in Categories \ db.cats, p \in db.cats \cup {None} :
          /\ Write([db EXCEPT !.cats = @ \cup {c}, !.active = @ \cup {c}, !.parent[c] = p])
          /\ \/ Move(r, "map", c) /\ UNCHANGED <<behind, withdrawn>>
             \/ ThenInvalidate(r)

\* The new category is assigned to the city, active or not.
MapCategory(r) ==
    /\ At(r, "map")
    /\ IF target[r] \in db.cats
       THEN /\ \E s \in {"on", "off"} :
                  Write(IF db.assigned[target[r]] = None
                        THEN [db EXCEPT !.assigned[target[r]] = s] ELSE db)
            /\ ThenInvalidate(r)
       ELSE Refused(r)

\* Any parent that exists will do, a descendant or the category itself too.
UpdateCategory(r) ==
    /\ focus = "categories"
    /\ Begin(r)
    /\ \E c \in db.cats :
          \/ Write([db EXCEPT !.active = IF c \in @ THEN @ \ {c} ELSE @ \cup {c}])
          \/ \E p \in db.cats \cup {None} : Write([db EXCEPT !.parent[c] = p])
    /\ ThenInvalidate(r)

\* A category no listing is in; listings are not modelled, a refusal changes
\* nothing.
DeleteCategory(r) ==
    /\ focus = "categories"
    /\ Begin(r)
    /\ \E c \in db.cats : Move(r, "delete", c)
    /\ ReadOnly
    /\ UNCHANGED readVars

\* Assignments and requests go with a category, its children become roots.
WithoutCategory(d, c) ==
    [d EXCEPT !.cats = @ \ {c}, !.active = @ \ {c},
              !.parent = [x \in Categories |-> IF x = c \/ @[x] = c THEN None ELSE @[x]],
              !.assigned[c] = None, !.asked = {q \in @ : q.cat # c}]

RemoveCategory(r) ==
    /\ At(r, "delete")
    /\ IF target[r] \in db.cats
       THEN Write(WithoutCategory(db, target[r])) /\ ThenInvalidate(r)
       ELSE Refused(r)

-----------------------------------------------------------------------------
(* Assignments to the city                                                 *)

\* Slip: an assignment that is switched off stays so.
AssignIfNew(d, c) == IF d.assigned[c] = None THEN [d EXCEPT !.assigned[c] = "on"] ELSE d

Assign(d, c) == [d EXCEPT !.assigned[c] = "on"]

AssignCategoryToCity(r) ==
    /\ focus = "categories"
    /\ Begin(r)
    /\ \E c \in db.cats : Write(Assign(db, c))
    /\ LeaveCache(r)
    /\ UNCHANGED withdrawn

RemoveCategoryFromCity(r) ==
    /\ focus = "categories"
    /\ Begin(r)
    /\ \E c \in AssignedTo(db) : Move(r, "unassign", c)
    /\ ReadOnly
    /\ UNCHANGED readVars

Unassign(r) ==
    LET c == target[r]
    IN  /\ At(r, "unassign")
        /\ IF db.assigned[c] # None
           THEN /\ Write([db EXCEPT !.assigned[c] = "off"])
                /\ withdrawn' = withdrawn \cup {c}
                /\ LeaveCache(r)
           ELSE Refused(r)

UpdateCityCategoryDisplayName(r) ==
    /\ focus = "categories"
    /\ Begin(r)
    /\ \E c \in {x \in db.cats : db.assigned[x] # None} : Move(r, "change", c)
    /\ ReadOnly
    /\ UNCHANGED readVars

ChangeCityCategory(r) ==
    LET c == target[r]
    IN  /\ At(r, "change")
        /\ IF db.assigned[c] # None
           THEN \E s \in {"on", "off"} :
                   /\ Write([db EXCEPT !.assigned[c] = s])
                   /\ withdrawn' = IF s = "off" THEN withdrawn \cup {c} ELSE withdrawn
                   /\ Move(r, "invalidate", None)
                   /\ UNCHANGED behind
           ELSE Refused(r)

\* One request per category, administrator and status.
RequestCityCategory(r) ==
    /\ focus = "categories"
    /\ Begin(r)
    /\ \E c \in db.cats, a \in Admins :
          db' = [db EXCEPT !.asked = @ \cup {[cat |-> c, by |-> a, status |-> "PENDING"]}]
    /\ Move(r, "idle", None)
    /\ UNCHANGED <<focus, cache, readVars, outdated, behind, withdrawn>>

\* A status the administrator already has for the category is refused by the
\* unique key.
HandleCategoryRequest(r) ==
    /\ focus = "categories"
    /\ Begin(r)
    /\ \E q \in db.asked, s \in RequestStatus :
          LET p == [q EXCEPT !.status = s]
          IN  /\ p \notin db.asked \ {q}
              /\ db' = [db EXCEPT !.asked = (@ \ {q}) \cup {p}]
              /\ IF s = "APPROVED"
                 THEN Move(r, "assign", q.cat) /\ withdrawn' = withdrawn \ {q.cat}
                 ELSE Move(r, "idle", None) /\ UNCHANGED withdrawn
    /\ UNCHANGED <<focus, cache, readVars, outdated, behind>>

AssignApproved(r) ==
    LET c == target[r]
    IN  /\ At(r, "assign")
        /\ IF c \in db.cats
           THEN Write(Assign(db, c)) /\ LeaveCache(r) /\ UNCHANGED withdrawn
           ELSE Refused(r)

-----------------------------------------------------------------------------
(* Tiles and sub-services                                                  *)

CreateTile(r) ==
    /\ focus = "tiles"
    /\ Begin(r)
    /\ \E t \in Tiles \ db.tiles :
          /\ db.links[t] = None
          /\ \/ Write([db EXCEPT !.tiles = @ \cup {t}])
             \/ Write([db EXCEPT !.tiles = @ \cup {t}, !.live = @ \cup {t}])
    /\ ThenInvalidate(r)

UpdateTile(r) ==
    /\ focus = "tiles"
    /\ Begin(r)
    /\ \E t \in db.tiles : Write([db EXCEPT !.live = IF t \in @ THEN @ \ {t} ELSE @ \cup {t}])
    /\ ThenInvalidate(r)

DeleteTile(r) ==
    /\ focus = "tiles"
    /\ Begin(r)
    /\ \E t \in db.tiles : Move(r, "drop", t)
    /\ ReadOnly
    /\ UNCHANGED readVars

\* The links to the tile stay.
DropTile(r) ==
    LET t == target[r]
    IN  /\ At(r, "drop")
        /\ IF t \in db.tiles
           THEN Write([db EXCEPT !.tiles = @ \ {t}, !.live = @ \ {t}]) /\ ThenInvalidate(r)
           ELSE Refused(r)

CreateSubService(r) ==
    /\ focus = "tiles"
    /\ Begin(r)
    /\ \E t \in db.tiles : Move(r, "link", t)
    /\ ReadOnly
    /\ UNCHANGED readVars

\* An assignment that exists is returned as it is.
LinkTile(r) ==
    LET t == target[r]
    IN  /\ At(r, "link")
        /\ IF db.links[t] = None
           THEN Write([db EXCEPT !.links[t] = "on"]) /\ LeaveCache(r) /\ UNCHANGED withdrawn
           ELSE Refused(r)

UpdateSubService(r) ==
    /\ focus = "tiles"
    /\ Begin(r)
    /\ \E t \in {x \in Tiles : db.links[x] # None}, s \in {"on", "off"} :
          Write([db EXCEPT !.links[t] = s])
    /\ LeaveCache(r)
    /\ UNCHANGED withdrawn

DeleteTileSubService(r) ==
    /\ focus = "tiles"
    /\ Begin(r)
    /\ \E t \in {x \in Tiles : db.links[x] # None} : Write([db EXCEPT !.links[t] = None])
    /\ LeaveCache(r)
    /\ UNCHANGED withdrawn

-----------------------------------------------------------------------------
CallStep(r) ==
    \/ InvalidateCache(r) \/ Fail(r)
    \/ ListCityCategories(r) \/ ReadCategories(r) \/ ListTiles(r) \/ GetCache(r)
    \/ ReadLinks(r) \/ ReadTiles(r) \/ SetCache(r)
    \/ CreateCategory(r) \/ MapCategory(r) \/ UpdateCategory(r)
    \/ DeleteCategory(r) \/ RemoveCategory(r)
    \/ AssignCategoryToCity(r) \/ RemoveCategoryFromCity(r) \/ Unassign(r)
    \/ UpdateCityCategoryDisplayName(r) \/ ChangeCityCategory(r)
    \/ RequestCityCategory(r) \/ HandleCategoryRequest(r) \/ AssignApproved(r)
    \/ CreateTile(r) \/ UpdateTile(r) \/ DeleteTile(r) \/ DropTile(r)
    \/ CreateSubService(r) \/ LinkTile(r) \/ UpdateSubService(r) \/ DeleteTileSubService(r)

CatalogueNext == (\E r \in Calls : CallStep(r)) \/ ExpireCache

CatalogueSpec == CatalogueInit /\ [][CatalogueNext]_catalogueVars

-----------------------------------------------------------------------------
(* Properties                                                              *)

\* What the tables may hold.
Tables ==
    [cats : SUBSET Categories, active : SUBSET Categories,
     parent : [Categories -> Categories \cup {None}],
     assigned : [Categories -> {"on", "off", None}],
     asked : SUBSET [cat : Categories, by : Admins, status : RequestStatus],
     tiles : SUBSET Tiles, live : SUBSET Tiles, links : [Tiles -> {"on", "off", None}]]

\* Parents, assignments and requests are those of categories that exist.
Consistent(d) ==
    /\ d.active \subseteq d.cats /\ d.live \subseteq d.tiles
    /\ \A c \in Categories : /\ d.parent[c] \in d.cats \cup {None}
                             /\ d.assigned[c] # None => c \in d.cats
    /\ \A q \in d.asked : q.cat \in d.cats

CatalogueTypeOK ==
    /\ focus \in {"categories", "tiles"}
    /\ db \in Tables /\ Consistent(db)
    /\ cache \in [list : SUBSET (Categories \cup Tiles), raced : BOOLEAN,
                  search : BOOLEAN, full : BOOLEAN]
    /\ place \in [Calls -> Places]
    /\ target \in [Calls -> Categories \cup Tiles \cup {None}]
    /\ snapshot \in [Calls -> SUBSET (Categories \cup Tiles)]
    /\ found \in [Calls -> SUBSET (Categories \cup Tiles)]
    /\ search \in [Calls -> BOOLEAN]
    /\ outdated \in [Calls -> BOOLEAN]
    /\ behind \in BOOLEAN
    /\ withdrawn \subseteq Categories
    /\ left \in 0..MaxRequests
    /\ failures \in 0..MaxFailures

\* The state is well typed; a cached list is what the tables say, though readers
\* fill the cache with what they read some awaits ago: unless it is of a search, an operation
\* that clears the cache is about to do so or failed to, one that keeps it
\* has written, or the reader was overtaken.
CacheIsFresh ==
    /\ CatalogueTypeOK
    /\ cache.full /\ ~cache.search /\ ~cache.raced /\ ~behind
           /\ (\A r \in Calls : place[r] \notin {"invalidate", "map"})
       => cache.list = List

\* The category with its parents up to a root, if there is one.
Chain(d, c) ==
    {x \in Categories \cup {None} :
        \A X \in SUBSET (Categories \cup {None}) :
            c \in X /\ (\A y \in X \ {None} : d.parent[y] \in X) => x \in X}

\* The tree of a city shows a category exactly if it and all its parents are
\* active and assigned and lead to a root.
TreeShowsWholeChains ==
    focus = "categories" =>
        \A c \in db.cats :
            c \in CityTree(db, AssignedTo(db)) <=>
                /\ None \in Chain(db, c)
                /\ Chain(db, c) \ {None} \subseteq db.active \cap AssignedTo(db)

\* A category whose request was approved is assigned to the city, unless it
\* was taken from the city since, or the second step is still to come or failed.
ApprovedIsAssigned ==
    \A q \in db.asked : q.status = "APPROVED" =>
        \/ db.assigned[q.cat] = "on"
        \/ q.cat \in withdrawn
        \/ \E r \in Calls : place[r] = "assign" /\ target[r] = q.cat

\* What the description of the endpoint says: a search is the option of a
\* request, and the list is of the city's categories.
SearchIsNotCached == cache.full => ~cache.search
=============================================================================
