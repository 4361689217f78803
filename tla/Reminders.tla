------------------------------ MODULE Reminders ------------------------------
(***************************************************************************)
(* Reminders of favourite events (core service): the run the scheduler     *)
(* requests every so often, which sends each user a push notification 24   *)
(* hours and 2 hours before an event he has marked, the favourites it      *)
(* works on, and the clean-up after an account is deleted                  *)
(* (apps/core/src/modules/core/core.service.ts).                           *)
(*                                                                         *)
(* Runs overlap when one outlives the lock.  Every action is the code      *)
(* between two awaits.  An event's start is known by the window of the run *)
(* it lies in: not yet in one ("far"), 24 to 25 hours ahead ("H24"),       *)
(* between the windows ("mid"), 2 to 3 hours ahead ("H2"), or neither any  *)
(* more ("past"), so that an event has at most one reminder due at a time. *)
(***************************************************************************)
EXTENDS Integers, FiniteSets

CONSTANTS
    Users, Listings,
    Runs,        \* concurrent invocations of processFavoriteEventReminders
    OptOut,      \* users who have switched notifications off
    LockTTL,     \* 300 seconds in the code
    MaxTriggers, \* bound: requests of the scheduler
    MaxFaults,   \* bound: failed calls plus crashes
    MaxChanges,  \* bound: what users and moderators do
    None

ASSUME RemindersAssumption ==
    /\ OptOut \subseteq Users
    /\ LockTTL \in Nat \ {0}
    /\ MaxTriggers \in Nat
    /\ MaxFaults \in Nat
    /\ MaxChanges \in Nat
    /\ None \notin Users \X Listings

VARIABLES
    favorites,  \* user_favorites: pairs of a user and a listing
    reminders,  \* listing_reminders: the unique keys of its rows
    listings,   \* listings that exist
    visible,    \* listings that are approved, public and not archived
    phase,      \* where each event's start lies relative to now
    account,    \* each user's account: active, or how far its clean-up is
    lock,       \* what remains of the TTL of core:favorite-reminders:lock
    lease,      \* history: runs whose lock has not been lost
    pc, seen, todo, cur, prefs,   \* the runs' control and local variables
    asked,      \* history: the reminders a run found due
    sent,       \* history: notifications emitted for each key
    triggers, faults, changes     \* what remains of the bounds

coreVars  == <<favorites, reminders, listings, visible, phase, account>>
lockVars  == <<lock, lease>>
runVars   == <<pc, seen, todo, cur, prefs, asked>>
boundVars == <<triggers, faults, changes>>
vars == <<favorites, reminders, listings, visible, phase, account, lock,
          lease, pc, seen, todo, cur, prefs, asked, sent, triggers, faults,
          changes>>

Phases == <<"far", "H24", "mid", "H2", "past">>
Types  == {"H24", "H2"}
Keys   == Users \X Listings \X Types
Pc == {"idle", "lock", "fetch", "next", "prefs", "check", "create", "emit",
       "release"}

\* The reminder a run owes the owner of a favourite, by the clock of the run.
Key(r, f) == <<f[1], f[2], seen[r][f[2]]>>
InWindow(r, f) == seen[r][f[2]] \in Types

Init ==
    /\ favorites = {}
    /\ reminders = {}
    /\ listings = Listings
    /\ visible = Listings
    /\ phase = [l \in Listings |-> "far"]
    /\ account = [u \in Users |-> "active"]
    /\ lock = 0
    /\ lease = {}
    /\ pc = [r \in Runs |-> "idle"]
    /\ seen = [r \in Runs |-> [l \in Listings |-> "far"]]
    /\ todo = [r \in Runs |-> {}]
    /\ cur = [r \in Runs |-> None]
    /\ prefs = [r \in Runs |-> [u \in Users |-> "unknown"]]
    /\ asked = [r \in Runs |-> {}]
    /\ sent = [k \in Keys |-> 0]
    /\ triggers = MaxTriggers
    /\ faults = MaxFaults
    /\ changes = MaxChanges

Fault == faults > 0 /\ faults' = faults - 1 /\ UNCHANGED <<triggers, changes>>
Change == changes > 0 /\ changes' = changes - 1 /\ UNCHANGED <<triggers, faults>>

Goto(r, label) == pc' = [pc EXCEPT ![r] = label]

-----------------------------------------------------------------------------
(* One run                                                                 *)

\* The scheduler's request carries triggeredAt, by which the windows are
\* computed however late the run is.
Trigger(r) ==
    /\ pc[r] = "idle"
    /\ triggers > 0
    /\ triggers' = triggers - 1
    /\ seen' = [seen EXCEPT ![r] = phase]
    /\ Goto(r, "lock")
    /\ UNCHANGED <<coreVars, lockVars, todo, cur, prefs, asked, sent, faults,
                   changes>>

AcquireLock(r) ==
    /\ pc[r] = "lock"
    /\ lock = 0
    /\ lock' = LockTTL
    /\ lease' = lease \cup {r}
    /\ Goto(r, "fetch")
    /\ UNCHANGED <<coreVars, seen, todo, cur, prefs, asked, sent, boundVars>>

\* The run's variables go with it.
Forget(r) ==
    /\ Goto(r, "idle")
    /\ seen' = [seen EXCEPT ![r] = [l \in Listings |-> "far"]]
    /\ todo' = [todo EXCEPT ![r] = {}]
    /\ cur' = [cur EXCEPT ![r] = None]
    /\ prefs' = [prefs EXCEPT ![r] = [u \in Users |-> "unknown"]]
    /\ asked' = [asked EXCEPT ![r] = {}]

\* Another run holds the lock, or the call of Redis fails, its reply possibly
\* after the key was set: all make the run report that it has sent nothing.
LockBusy(r) ==
    /\ pc[r] = "lock"
    /\ \/ lock > 0 /\ UNCHANGED <<lock, boundVars>>
       \/ Fault /\ lock' \in {lock, IF lock = 0 THEN LockTTL ELSE lock}
    /\ Forget(r)
    /\ UNCHANGED <<coreVars, lease, sent>>

\* All favourites are read at once, with their listings; those of listings
\* that are not visible are skipped.
FetchFavorites(r) ==
    /\ pc[r] = "fetch"
    /\ todo' = [todo EXCEPT ![r] = {f \in favorites : f[2] \in visible}]
    /\ asked' = [asked EXCEPT ![r] = {Key(r, f) : f \in
                    {g \in todo'[r] : InWindow(r, g) /\ g[1] \notin OptOut}}]
    /\ Goto(r, "next")
    /\ UNCHANGED <<coreVars, lockVars, seen, cur, prefs, sent, boundVars>>

NextFavorite(r) ==
    /\ pc[r] = "next"
    /\ \E f \in todo[r] :
          /\ cur' = [cur EXCEPT ![r] = f]
          /\ todo' = [todo EXCEPT ![r] = @ \ {f}]
    /\ Goto(r, "prefs")
    /\ UNCHANGED <<coreVars, lockVars, seen, prefs, asked, sent, boundVars>>

Done(r) ==
    /\ pc[r] = "next"
    /\ todo[r] = {}
    /\ Goto(r, "release")
    /\ UNCHANGED <<coreVars, lockVars, seen, todo, cur, prefs, asked, sent,
                   boundVars>>

\* Slip: the first answer is cached for every user of the run.
CheckPrefsOnce(r) ==
    LET u == cur[r][1]
        answer == IF prefs[r][u] # "unknown" THEN prefs[r][u]
                  ELSE IF u \in OptOut /\ account[u] = "active" THEN "off"
                  ELSE "on"
    IN  /\ pc[r] = "prefs"
        /\ prefs' = [prefs EXCEPT ![r] = [v \in Users |-> answer]]
        /\ Goto(r, IF answer = "on" /\ InWindow(r, cur[r])
                   THEN "check" ELSE "next")
        /\ UNCHANGED <<coreVars, lockVars, seen, todo, cur, asked, sent,
                       boundVars>>

\* Whether the current user wants notifications: unless the users service
\* says no, he does.  It is asked once per run and user; a failed request and
\* a deleted account count as yes.  Then the occurrence is compared with the
\* windows.
CheckPrefs(r) ==
    LET u == cur[r][1]
        Decide(answer) ==
            /\ prefs' = [prefs EXCEPT ![r][u] = answer]
            /\ Goto(r, IF answer = "on" /\ InWindow(r, cur[r])
                       THEN "check" ELSE "next")
    IN  /\ pc[r] = "prefs"
        /\ \/ /\ prefs[r][u] # "unknown"
              /\ Decide(prefs[r][u])
              /\ UNCHANGED boundVars
           \/ /\ prefs[r][u] = "unknown"
              /\ Decide(IF u \in OptOut /\ account[u] = "active"
                        THEN "off" ELSE "on")
              /\ UNCHANGED boundVars
           \/ /\ prefs[r][u] = "unknown"
              /\ Fault
              /\ Decide("on")
        /\ UNCHANGED <<coreVars, lockVars, seen, todo, cur, asked, sent>>

CheckReminder(r) ==
    /\ pc[r] = "check"
    /\ Goto(r, IF Key(r, cur[r]) \in reminders THEN "next" ELSE "create")
    /\ UNCHANGED <<coreVars, lockVars, seen, todo, cur, prefs, asked, sent,
                   boundVars>>

\* Slip: the row is upserted.
UpsertReminder(r) ==
    /\ pc[r] = "create"
    /\ cur[r][2] \in listings
    /\ reminders' = reminders \cup {Key(r, cur[r])}
    /\ Goto(r, "emit")
    /\ UNCHANGED <<favorites, listings, visible, phase, account, lockVars,
                   seen, todo, cur, prefs, asked, sent, boundVars>>

\* The key is unique and refers to the listing.
CreateReminder(r) ==
    /\ pc[r] = "create"
    /\ Key(r, cur[r]) \notin reminders
    /\ cur[r][2] \in listings
    /\ reminders' = reminders \cup {Key(r, cur[r])}
    /\ Goto(r, "emit")
    /\ UNCHANGED <<favorites, listings, visible, phase, account, lockVars,
                   seen, todo, cur, prefs, asked, sent, boundVars>>

\* A violated constraint, like any database error, ends the whole run.
CreateRejected(r) ==
    /\ pc[r] = "create"
    /\ Key(r, cur[r]) \in reminders \/ cur[r][2] \notin listings
    /\ Goto(r, "release")
    /\ UNCHANGED <<coreVars, lockVars, seen, todo, cur, prefs, asked, sent,
                   boundVars>>

\* Slip: an error skips the favourite instead of ending the run.
DatabaseFailureSkipped(r) ==
    /\ pc[r] \in {"fetch", "check", "create"}
    /\ Fault
    /\ Goto(r, "next")
    /\ UNCHANGED <<coreVars, lockVars, seen, todo, cur, prefs, asked, sent>>

DatabaseFails(r) ==
    /\ pc[r] \in {"fetch", "check", "create"}
    /\ Fault
    /\ Goto(r, "release")
    /\ UNCHANGED <<coreVars, lockVars, seen, todo, cur, prefs, asked, sent>>

EmitNotification(r) ==
    /\ pc[r] = "emit"
    /\ sent' = [sent EXCEPT ![Key(r, cur[r])] = @ + 1]
    /\ Goto(r, "next")
    /\ UNCHANGED <<coreVars, lockVars, seen, todo, cur, prefs, asked,
                   boundVars>>

\* finally: the key is deleted, whoever holds it by now; an error of Redis
\* is swallowed and leaves it to its TTL.
ReleaseLock(r) ==
    /\ pc[r] = "release"
    /\ \/ lock' = 0 /\ lease' = {} /\ UNCHANGED boundVars
       \/ Fault /\ lease' = lease \ {r} /\ UNCHANGED lock
    /\ Forget(r)
    /\ UNCHANGED <<coreVars, sent>>

Crash(r) ==
    /\ pc[r] # "idle"
    /\ Fault
    /\ lease' = lease \ {r}
    /\ Forget(r)
    /\ UNCHANGED <<coreVars, lock, sent>>

-----------------------------------------------------------------------------
(* Users, moderators, the clean-up handlers and time                       *)

\* A guest or a user marks an event; the core service does not ask whether
\* the account still exists.
AddFavorite(u, l) ==
    /\ l \in listings
    /\ <<u, l>> \notin favorites
    /\ Change
    /\ favorites' = favorites \cup {<<u, l>>}
    /\ UNCHANGED <<reminders, listings, visible, phase, account, lockVars,
                   runVars, sent>>

RemoveFavorite(u, l) ==
    /\ <<u, l>> \in favorites
    /\ Change
    /\ favorites' = favorites \ {<<u, l>>}
    /\ UNCHANGED <<reminders, listings, visible, phase, account, lockVars,
                   runVars, sent>>

\* A moderator approves or archives a listing, or its author edits it.
ModerateListing(l) ==
    /\ l \in listings
    /\ Change
    /\ visible' = IF l \in visible THEN visible \ {l} ELSE visible \cup {l}
    /\ UNCHANGED <<favorites, reminders, listings, phase, account, lockVars,
                   runVars, sent>>

\* cleanupExpiredEventListings, for an event that is over: favourites and
\* reminders of the listing are deleted with it.
DeleteExpired(l) ==
    /\ l \in listings
    /\ phase[l] = "past"
    /\ listings' = listings \ {l}
    /\ visible' = visible \ {l}
    /\ favorites' = {f \in favorites : f[2] # l}
    /\ reminders' = {k \in reminders : k[2] # l}
    /\ UNCHANGED <<phase, account, lockVars, runVars, sent, boundVars>>

\* permanentDeleteAccount of the users service emits USER_DELETED.
DeleteAccount(u) ==
    /\ account[u] = "active"
    /\ Change
    /\ account' = [account EXCEPT ![u] = "deleted"]
    /\ UNCHANGED <<favorites, reminders, listings, visible, phase, lockVars,
                   runVars, sent>>

\* cleanupUserData deletes the favourites, then the reminders.  A lost event
\* or a failed call leaves the rest where it is.
CleanUpFavorites(u) ==
    /\ account[u] = "deleted"
    /\ favorites' = {f \in favorites : f[1] # u}
    /\ account' = [account EXCEPT ![u] = "cleaning"]
    /\ UNCHANGED <<reminders, listings, visible, phase, lockVars, runVars,
                   sent, boundVars>>

CleanUpReminders(u) ==
    /\ account[u] = "cleaning"
    /\ reminders' = {k \in reminders : k[1] # u}
    /\ account' = [account EXCEPT ![u] = "cleaned"]
    /\ UNCHANGED <<favorites, listings, visible, phase, lockVars, runVars,
                   sent, boundVars>>

CleanUpFails(u) ==
    /\ account[u] \in {"deleted", "cleaning"}
    /\ Fault
    /\ account' = [account EXCEPT ![u] = "abandoned"]
    /\ UNCHANGED <<favorites, reminders, listings, visible, phase, lockVars,
                   runVars, sent>>

\* The lock grows older.
Tick ==
    /\ lock > 0
    /\ lock' = lock - 1
    /\ lease' = IF lock = 1 THEN {} ELSE lease
    /\ UNCHANGED <<coreVars, runVars, sent, boundVars>>

\* An event comes nearer.
Approach(l) ==
    /\ \E i \in 1..4 : /\ phase[l] = Phases[i]
                       /\ phase' = [phase EXCEPT ![l] = Phases[i + 1]]
    /\ UNCHANGED <<favorites, reminders, listings, visible, account, lockVars,
                   runVars, sent, boundVars>>

-----------------------------------------------------------------------------
Step(r) ==
    \/ AcquireLock(r) \/ LockBusy(r) \/ FetchFavorites(r) \/ NextFavorite(r)
    \/ Done(r) \/ CheckPrefs(r) \/ CheckReminder(r) \/ CreateReminder(r)
    \/ CreateRejected(r) \/ DatabaseFails(r) \/ EmitNotification(r)
    \/ ReleaseLock(r)

Next ==
    \/ \E r \in Runs : Trigger(r) \/ Step(r) \/ Crash(r)
    \/ \E u \in Users, l \in Listings : AddFavorite(u, l) \/ RemoveFavorite(u, l)
    \/ \E u \in Users : \/ DeleteAccount(u) \/ CleanUpFavorites(u)
                        \/ CleanUpReminders(u) \/ CleanUpFails(u)
    \/ \E l \in Listings : ModerateListing(l) \/ DeleteExpired(l) \/ Approach(l)
    \/ Tick

Spec == Init /\ [][Next]_vars

-----------------------------------------------------------------------------
(* Properties                                                              *)

\* Types; a run works on a favourite between fetching it and asking for the
\* next one.
TypeOK ==
    /\ favorites \subseteq Users \X Listings
    /\ reminders \subseteq Keys
    /\ listings \subseteq Listings
    /\ visible \subseteq listings
    /\ phase \in [Listings -> {"far", "H24", "mid", "H2", "past"}]
    /\ account \in [Users -> {"active", "deleted", "cleaning", "cleaned",
                              "abandoned"}]
    /\ lock \in 0..LockTTL
    /\ lease \subseteq Runs
    /\ pc \in [Runs -> Pc]
    /\ seen \in [Runs -> [Listings -> {"far", "H24", "mid", "H2", "past"}]]
    /\ todo \in [Runs -> SUBSET (Users \X Listings)]
    /\ cur \in [Runs -> (Users \X Listings) \cup {None}]
    /\ \A r \in Runs : pc[r] \in {"prefs", "check", "create", "emit"} =>
                           cur[r] \in Users \X Listings
    /\ \A r \in Runs : pc[r] \in {"check", "create", "emit"} =>
                           InWindow(r, cur[r])
    /\ prefs \in [Runs -> [Users -> {"unknown", "on", "off"}]]
    /\ asked \in [Runs -> SUBSET Keys]
    /\ sent \in [Keys -> Nat]
    /\ triggers \in 0..MaxTriggers
    /\ faults \in 0..MaxFaults
    /\ changes \in 0..MaxChanges

\* A user whose account was not deleted gets each reminder at most once,
\* although runs overlap when one outlives the lock, read the same favourites
\* and check for the row before they create it, and although favourites come
\* and go.
AtMostOnce ==
    \A k \in Keys : account[k[1]] = "active" => sent[k] <= 1

\* A run that reaches the end of its list has seen to every reminder it found
\* due: the row is there, unless the listing or the account went meanwhile.
\* A run that cannot do so, because a row it wants to create appears under
\* its hands, must not end as if it had.
FinishedRunsServeAll ==
    [][\A r \in Runs : Done(r) =>
          \A k \in asked[r] : \/ k \in reminders
                              \/ k[2] \notin listings
                              \/ account[k[1]] # "active"]_vars

\* A user who has switched notifications off is not reminded, whatever was
\* cached for other users of the run; only a failed request may let one slip.
OptOutRespected ==
    \A k \in Keys : /\ k[1] \in OptOut
                    /\ account[k[1]] = "active"
                    /\ faults = MaxFaults
                    => sent[k] = 0

\* The runs use their lock the way RedisLock allows, so that two of them work
\* at once only when one has lost it.
Working(r) == pc[r] \notin {"idle", "lock"}
Lock == INSTANCE RedisLock WITH
            Clients <- Runs, TTL <- LockTTL, key <- lock, lease <- lease,
            inside <- {r \in Runs : Working(r)}
LockUse == Lock!LockSpec
=============================================================================
