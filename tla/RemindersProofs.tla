--------------------------- MODULE RemindersProofs ---------------------------
(***************************************************************************)
(* Proofs about the reminders, for any number of users, listings and runs  *)
(* and any values of the TTL and the bounds.                               *)
(***************************************************************************)
EXTENDS Reminders, TLAPS

\* Every reachable state is well typed; a run that has looked at the windows
\* works on a favourite whose reminder is due.
THEOREM TypeCorrect == Spec => []TypeOK
<1>1. Init => TypeOK
  BY RemindersAssumption DEF Init, TypeOK, Pc
<1>2. TypeOK /\ [Next]_vars => TypeOK'
  <2> SUFFICES ASSUME TypeOK, [Next]_vars
               PROVE  TypeOK'
    OBVIOUS
  <2> USE RemindersAssumption DEF TypeOK, Pc, InWindow, Key, Goto, Fault, Change,
          Types, Keys, coreVars, lockVars, runVars, boundVars
  <2>1. ASSUME NEW r \in Runs, Trigger(r) PROVE TypeOK'
    BY <2>1, SMTT(30) DEF Trigger
  <2>2. ASSUME NEW r \in Runs, AcquireLock(r) PROVE TypeOK'
    BY <2>2, SMTT(30) DEF AcquireLock
  <2>3. ASSUME NEW r \in Runs, LockBusy(r) PROVE TypeOK'
    BY <2>3, SMTT(30) DEF LockBusy, Forget
  <2>4. ASSUME NEW r \in Runs, FetchFavorites(r) PROVE TypeOK'
    <3>1. /\ favorites \subseteq Users \X Listings
          /\ seen \in [Runs -> [Listings ->
                                   {"far", "H24", "mid", "H2", "past"}]]
      OBVIOUS
    <3>2. todo' \in [Runs -> SUBSET (Users \X Listings)]
      BY <2>4 DEF FetchFavorites
    <3>3. todo'[r] \subseteq Users \X Listings
      BY <3>2
    <3>4. \A f \in todo'[r] : InWindow(r, f) => Key(r, f) \in Keys
      BY <3>1, <3>3
    <3>5. asked' \in [Runs -> SUBSET Keys]
      BY <2>4, <3>4 DEF FetchFavorites
    <3>6. pc' = [pc EXCEPT ![r] = "next"] /\ pc[r] = "fetch"
          /\ UNCHANGED <<coreVars, lockVars, seen, cur, prefs, sent, boundVars>>
      BY <2>4 DEF FetchFavorites
    <3> QED
      BY <3>2, <3>5, <3>6
  <2>5. ASSUME NEW r \in Runs, NextFavorite(r) \/ Done(r) PROVE TypeOK'
    <3>1. CASE NextFavorite(r)
      BY <3>1, SMTT(30) DEF NextFavorite
    <3>2. CASE Done(r)
      BY <3>2, SMTT(30) DEF Done
    <3> QED
      BY <2>5, <3>1, <3>2
  <2>6. ASSUME NEW r \in Runs, CheckPrefs(r) PROVE TypeOK'
    <3>1. cur[r] \in Users \X Listings /\ cur[r][1] \in Users
      BY <2>6 DEF CheckPrefs
    <3>2. PICK answer \in {"on", "off"} :
            /\ prefs' = [prefs EXCEPT ![r][cur[r][1]] = answer]
            /\ pc' = [pc EXCEPT ![r] =
                        IF answer = "on" /\ InWindow(r, cur[r])
                        THEN "check" ELSE "next"]
      BY <2>6, <3>1, SMTT(30) DEF CheckPrefs
    <3>3. prefs' \in [Runs -> [Users -> {"unknown", "on", "off"}]]
      BY <3>1, <3>2
    <3>4. /\ UNCHANGED <<coreVars, lockVars, seen, todo, cur, asked, sent>>
          /\ triggers' \in 0..MaxTriggers
          /\ faults' \in 0..MaxFaults
          /\ changes' \in 0..MaxChanges
      BY <2>6 DEF CheckPrefs
    <3>5. pc' \in [Runs -> Pc]
      BY <3>2
    <3>6. \A s \in Runs : pc'[s] \in {"check", "create", "emit"} =>
                              InWindow(s, cur[s])
      BY <3>2
    <3>7. \A s \in Runs : pc'[s] \in {"prefs", "check", "create", "emit"} =>
                              cur[s] \in Users \X Listings
      BY <3>1, <3>2
    <3> QED
      BY <3>3, <3>4, <3>5, <3>6, <3>7
  <2>7. ASSUME NEW r \in Runs, CheckReminder(r) PROVE TypeOK'
    BY <2>7, SMTT(30) DEF CheckReminder
  <2>8. ASSUME NEW r \in Runs, CreateReminder(r) PROVE TypeOK'
    BY <2>8, SMTT(30) DEF CreateReminder
  <2>9. ASSUME NEW r \in Runs, CreateRejected(r) \/ DatabaseFails(r)
        PROVE  TypeOK'
    <3>1. CASE CreateRejected(r)
      BY <3>1, SMTT(30) DEF CreateRejected
    <3>2. CASE DatabaseFails(r)
      BY <3>2, SMTT(30) DEF DatabaseFails
    <3> QED
      BY <2>9, <3>1, <3>2
  <2>10. ASSUME NEW r \in Runs, EmitNotification(r) PROVE TypeOK'
    BY <2>10, SMTT(30) DEF EmitNotification
  <2>11. ASSUME NEW r \in Runs, ReleaseLock(r) \/ Crash(r) PROVE TypeOK'
    <3>1. CASE ReleaseLock(r)
      BY <3>1, SMTT(30) DEF ReleaseLock, Forget
    <3>2. CASE Crash(r)
      BY <3>2, SMTT(30) DEF Crash, Forget
    <3> QED
      BY <2>11, <3>1, <3>2
  <2>12. ASSUME NEW u \in Users, NEW l \in Listings,
                AddFavorite(u, l) \/ RemoveFavorite(u, l)
         PROVE  TypeOK'
    BY <2>12, SMTT(30) DEF AddFavorite, RemoveFavorite
  <2>13. ASSUME NEW u \in Users,
                \/ DeleteAccount(u) \/ CleanUpFavorites(u)
                \/ CleanUpReminders(u) \/ CleanUpFails(u)
         PROVE  TypeOK'
    BY <2>13, SMTT(30)
    DEF DeleteAccount, CleanUpFavorites, CleanUpReminders, CleanUpFails
  <2>14. ASSUME NEW l \in Listings, ModerateListing(l) \/ DeleteExpired(l)
         PROVE  TypeOK'
    BY <2>14, SMTT(30) DEF ModerateListing, DeleteExpired
  <2>15. ASSUME NEW l \in Listings, Approach(l) PROVE TypeOK'
    BY <2>15, SMTT(30) DEF Approach, Phases
  <2>16. ASSUME Tick PROVE TypeOK'
    BY <2>16, SMTT(30) DEF Tick
  <2>17. ASSUME UNCHANGED vars PROVE TypeOK'
    BY <2>17 DEF vars
  <2> QED
    BY <2>1, <2>2, <2>3, <2>4, <2>5, <2>6, <2>7, <2>8, <2>9, <2>10, <2>11,
       <2>12, <2>13, <2>14, <2>15, <2>16, <2>17 DEF Next, Step
<1> QED
  BY <1>1, <1>2, PTL DEF Spec

-----------------------------------------------------------------------------
\* The strengthening of AtMostOnce, for the accounts that are still there: a
\* notification that was sent, or that a run is about to send, has its row
\* (or the event is over and gone); it is about to be sent by one run, and
\* not yet sent.
Answered(k) == k \in reminders \/ k[2] \notin listings

Emitting(r, k) == pc[r] = "emit" /\ Key(r, cur[r]) = k

RowFirst ==
    \A k \in Keys : account[k[1]] = "active" =>
        /\ sent[k] <= 1
        /\ sent[k] = 1 => Answered(k)
        /\ \A r \in Runs : Emitting(r, k) => Answered(k) /\ sent[k] = 0
        /\ \A r, s \in Runs : Emitting(r, k) /\ Emitting(s, k) => r = s

\* A count that is at most one is zero or one.
LEMMA ZeroOrOne == \A n \in Nat : n <= 1 => n \in {0, 1}
OBVIOUS

\* The row is created under its unique key before anything is sent, and by
\* one run; later steps take rows away only with the account or the listing.
LEMMA RowFirstStep ==
    ASSUME TypeOK, RowFirst, [Next]_vars
    PROVE  RowFirst'
<1> USE RemindersAssumption DEF TypeOK, Pc, Goto, Fault, Change, Types, Keys,
        coreVars, lockVars, runVars, boundVars
<1>1. ASSUME UNCHANGED <<account, reminders, listings, sent>>,
             \A r \in Runs, k \in Keys : Emitting(r, k)' => Emitting(r, k)
      PROVE  RowFirst'
  BY <1>1 DEF RowFirst, Answered
<1>2. ASSUME NEW r \in Runs,
             \/ Trigger(r) \/ AcquireLock(r) \/ LockBusy(r)
             \/ FetchFavorites(r) \/ NextFavorite(r) \/ Done(r)
             \/ CheckPrefs(r) \/ CheckReminder(r) \/ CreateRejected(r)
             \/ DatabaseFails(r) \/ ReleaseLock(r) \/ Crash(r)
      PROVE  RowFirst'
  <2>1. UNCHANGED <<account, reminders, listings, sent>>
    BY <1>2 DEF Trigger, AcquireLock, LockBusy, FetchFavorites, NextFavorite,
                Done, CheckPrefs, CheckReminder, CreateRejected,
                DatabaseFails, ReleaseLock, Crash
  <2>2. pc'[r] # "emit"
    BY <1>2 DEF Trigger, AcquireLock, LockBusy, FetchFavorites, NextFavorite,
                Done, CheckPrefs, CheckReminder, CreateRejected,
                DatabaseFails, ReleaseLock, Crash, Forget
  <2>3. \A s \in Runs \ {r} :
          pc'[s] = pc[s] /\ cur'[s] = cur[s] /\ seen'[s] = seen[s]
    BY <1>2 DEF Trigger, AcquireLock, LockBusy, FetchFavorites, NextFavorite,
                Done, CheckPrefs, CheckReminder, CreateRejected,
                DatabaseFails, ReleaseLock, Crash, Forget
  <2> QED
    BY <2>1, <2>2, <2>3, <1>1 DEF Emitting, Key
<1>3. ASSUME NEW r \in Runs, CreateReminder(r) PROVE RowFirst'
  <2>0. PICK key \in Keys : key = Key(r, cur[r])
    BY <1>3 DEF CreateReminder, Key, InWindow
  <2>1. ~Answered(key) /\ Answered(key)'
    BY <1>3, <2>0 DEF CreateReminder, Answered, Key
  <2>2. UNCHANGED <<account, sent>> /\ sent \in [Keys -> Nat]
    BY <1>3 DEF CreateReminder
  <2>3. \A k \in Keys : Answered(k) => Answered(k)'
    BY <1>3 DEF CreateReminder, Answered
  <2>4. \A s \in Runs, k \in Keys : Emitting(s, k)' =>
          Emitting(s, k) \/ (s = r /\ k = key)
    BY <1>3, <2>0 DEF CreateReminder, Emitting, Key
  <2> HIDE DEF Answered, Emitting, Key
  <2> SUFFICES ASSUME NEW k \in Keys, account[k[1]] = "active"
               PROVE  /\ sent[k] <= 1
                      /\ sent[k] = 1 => Answered(k)'
                      /\ \A s \in Runs : Emitting(s, k)' =>
                            Answered(k)' /\ sent[k] = 0
                      /\ \A s, t \in Runs :
                            Emitting(s, k)' /\ Emitting(t, k)' => s = t
    BY <2>2 DEF RowFirst
  <2>5. /\ sent[k] \in {0, 1}
        /\ sent[k] = 1 => Answered(k)
        /\ \A s \in Runs : Emitting(s, k) => Answered(k) /\ sent[k] = 0
        /\ \A s, t \in Runs : Emitting(s, k) /\ Emitting(t, k) => s = t
    <3>1. sent[k] \in Nat /\ sent[k] <= 1
      BY <2>2 DEF RowFirst
    <3>2. sent[k] \in {0, 1}
      BY <3>1, ZeroOrOne, Zenon
    <3> QED
      BY <3>2 DEF RowFirst
  <2>6. CASE k = key
    <3>1. ~Answered(k)
      BY <2>1, <2>6
    <3>2. sent[k] # 1 /\ \A s \in Runs : ~Emitting(s, k)
      BY <2>5, <3>1, Zenon
    <3>3. sent[k] = 0
      BY <2>5, <3>2, Zenon
    <3>4. Answered(k)'
      BY <2>1, <2>6
    <3>5. \A s \in Runs : Emitting(s, k)' => s = r
      BY <2>4, <3>2
    <3> QED
      BY <3>2, <3>3, <3>4, <3>5
  <2>7. CASE k # key
    BY <2>3, <2>4, <2>5, <2>7
  <2> QED
    BY <2>6, <2>7
<1>4. ASSUME NEW r \in Runs, EmitNotification(r) PROVE RowFirst'
  <2> DEFINE key == Key(r, cur[r])
  <2>1. key \in Keys /\ Emitting(r, key)
    BY <1>4 DEF EmitNotification, Emitting, Key, InWindow
  <2>2. sent' = [sent EXCEPT ![key] = @ + 1] /\ UNCHANGED account
    BY <1>4 DEF EmitNotification
  <2>3. \A k \in Keys : Answered(k)' <=> Answered(k)
    BY <1>4 DEF EmitNotification, Answered
  <2>4. \A s \in Runs, k \in Keys : Emitting(s, k)' => Emitting(s, k) /\ s # r
    BY <1>4 DEF EmitNotification, Emitting, Key
  <2>5. sent \in [Keys -> Nat]
    OBVIOUS
  <2> HIDE DEF Answered, Emitting, key
  <2> SUFFICES ASSUME NEW k \in Keys, account[k[1]] = "active"
               PROVE  /\ sent'[k] <= 1
                      /\ sent'[k] = 1 => Answered(k)'
                      /\ \A s \in Runs : Emitting(s, k)' =>
                            Answered(k)' /\ sent'[k] = 0
                      /\ \A s, t \in Runs :
                            Emitting(s, k)' /\ Emitting(t, k)' => s = t
    BY <2>2 DEF RowFirst
  <2>6. /\ sent[k] \in Nat /\ sent[k] <= 1
        /\ sent[k] = 1 => Answered(k)
        /\ \A s \in Runs : Emitting(s, k) => Answered(k) /\ sent[k] = 0
        /\ \A s, t \in Runs : Emitting(s, k) /\ Emitting(t, k) => s = t
    BY <2>5 DEF RowFirst
  <2>7. CASE k = key
    <3>1. sent'[k] = 1
      BY <2>1, <2>2, <2>5, <2>6, <2>7
    <3>2. \A s \in Runs : ~Emitting(s, k)'
      BY <2>1, <2>4, <2>6, <2>7
    <3> QED
      BY <2>1, <2>3, <2>6, <2>7, <3>1, <3>2
  <2>8. CASE k # key
    BY <2>2, <2>3, <2>4, <2>5, <2>6, <2>8
  <2> QED
    BY <2>7, <2>8
<1>5. ASSUME NEW u \in Users, NEW l \in Listings,
             AddFavorite(u, l) \/ RemoveFavorite(u, l)
      PROVE  RowFirst'
  BY <1>5, <1>1 DEF AddFavorite, RemoveFavorite, Emitting, Key
<1>6. ASSUME NEW u \in Users,
             \/ DeleteAccount(u) \/ CleanUpFavorites(u)
             \/ CleanUpReminders(u) \/ CleanUpFails(u)
      PROVE  RowFirst'
  <2>1. UNCHANGED <<pc, cur, seen, listings, sent>>
    BY <1>6 DEF DeleteAccount, CleanUpFavorites, CleanUpReminders, CleanUpFails
  <2>2. \A k \in Keys : account'[k[1]] = "active" =>
          account[k[1]] = "active" /\ (k \in reminders => k \in reminders')
    BY <1>6 DEF DeleteAccount, CleanUpFavorites, CleanUpReminders, CleanUpFails
  <2> QED
    BY <2>1, <2>2 DEF RowFirst, Answered, Emitting, Key
<1>7. ASSUME NEW l \in Listings,
             ModerateListing(l) \/ DeleteExpired(l) \/ Approach(l)
      PROVE  RowFirst'
  <2>1. UNCHANGED <<pc, cur, seen, account, sent>>
    BY <1>7 DEF ModerateListing, DeleteExpired, Approach
  <2>2. \A k \in Keys : Answered(k) => Answered(k)'
    BY <1>7 DEF ModerateListing, DeleteExpired, Approach, Answered
  <2>3. \A r \in Runs, k \in Keys : Emitting(r, k)' <=> Emitting(r, k)
    BY <2>1 DEF Emitting, Key
  <2> HIDE DEF Answered, Emitting
  <2> QED
    BY <2>1, <2>2, <2>3 DEF RowFirst
<1>8. ASSUME Tick \/ UNCHANGED vars PROVE RowFirst'
  BY <1>8, <1>1 DEF Tick, vars, Emitting, Key
<1> QED
  BY <1>2, <1>3, <1>4, <1>5, <1>6, <1>7, <1>8 DEF Next, Step

\* A user is reminded of an event at most once per window, however runs
\* overlap: the row with its unique key comes before the notification, and
\* only one run can create it.
THEOREM NoDoubleReminder == Spec => []AtMostOnce
<1>1. Init => RowFirst
  BY DEF Init, RowFirst, Emitting
<1>2. TypeOK /\ RowFirst /\ [Next]_vars => RowFirst'
  BY RowFirstStep
<1>3. RowFirst => AtMostOnce
  BY DEF RowFirst, AtMostOnce
<1> QED
  BY <1>1, <1>2, <1>3, TypeCorrect, PTL DEF Spec
-----------------------------------------------------------------------------
\* Who has a lease works: a run that is idle or asks for the lock has none.
LeaseWorks == \A r \in lease : Working(r)

\* What a step does to the lock, seen from outside.
LEMMA LockStep ==
    ASSUME TypeOK, LeaseWorks, [Next]_vars
    PROVE  LeaseWorks' /\ [Lock!LockNext]_Lock!lockVars
<1> USE RemindersAssumption DEF TypeOK, LeaseWorks, Working, Pc, Goto, Fault,
        Change, coreVars, lockVars, runVars, boundVars, Lock!lockVars
<1>1. ASSUME NEW r \in Runs, AcquireLock(r)
      PROVE  LeaseWorks' /\ Lock!Acquire(r)
  BY <1>1 DEF AcquireLock, Lock!Acquire
<1>2. ASSUME NEW r \in Runs, Trigger(r)
      PROVE  LeaseWorks' /\ UNCHANGED Lock!lockVars
  BY <1>2 DEF Trigger
<1>3. ASSUME NEW r \in Runs, LockBusy(r)
      PROVE  LeaseWorks' /\ (Lock!AcquireLost \/ UNCHANGED Lock!lockVars)
  <2>1. LeaseWorks' /\ UNCHANGED <<lease, {s \in Runs : Working(s)}>>
    BY <1>3 DEF LockBusy, Forget
  <2>2. lock' = lock \/ (lock = 0 /\ lock' = LockTTL)
    BY <1>3 DEF LockBusy
  <2> QED
    BY <2>1, <2>2 DEF Lock!AcquireLost
<1>4. ASSUME NEW r \in Runs,
             \/ FetchFavorites(r) \/ NextFavorite(r) \/ Done(r)
             \/ CheckReminder(r) \/ CreateReminder(r) \/ CreateRejected(r)
             \/ DatabaseFails(r) \/ EmitNotification(r)
      PROVE  LeaseWorks' /\ UNCHANGED Lock!lockVars
  BY <1>4 DEF FetchFavorites, NextFavorite, Done, CheckReminder,
              CreateReminder, CreateRejected, DatabaseFails, EmitNotification
<1>5. ASSUME NEW r \in Runs, CheckPrefs(r)
      PROVE  LeaseWorks' /\ UNCHANGED Lock!lockVars
  <2>1. /\ pc[r] = "prefs" /\ UNCHANGED <<lock, lease>>
        /\ \/ pc' = [pc EXCEPT ![r] = "check"]
           \/ pc' = [pc EXCEPT ![r] = "next"]
    BY <1>5 DEF CheckPrefs
  <2> QED
    BY <2>1
<1>6. ASSUME NEW r \in Runs, ReleaseLock(r)
      PROVE  LeaseWorks' /\ (Lock!Release(r) \/ Lock!Abandon(r))
  BY <1>6 DEF ReleaseLock, Forget, Lock!Release, Lock!Abandon
<1>7. ASSUME NEW r \in Runs, Crash(r)
      PROVE  LeaseWorks' /\ (Lock!Abandon(r) \/ UNCHANGED Lock!lockVars)
  <2>1. CASE Working(r)
    BY <1>7, <2>1 DEF Crash, Forget, Lock!Abandon
  <2>2. CASE ~Working(r)
    <3>1. r \notin lease
      BY <2>2
    <3> QED
      BY <1>7, <2>2, <3>1 DEF Crash, Forget
  <2> QED
    BY <2>1, <2>2
<1>8. ASSUME NEW u \in Users,
             \/ DeleteAccount(u) \/ CleanUpFavorites(u)
             \/ CleanUpReminders(u) \/ CleanUpFails(u)
             \/ \E l \in Listings : AddFavorite(u, l) \/ RemoveFavorite(u, l)
      PROVE  LeaseWorks' /\ UNCHANGED Lock!lockVars
  BY <1>8 DEF DeleteAccount, CleanUpFavorites, CleanUpReminders, CleanUpFails,
              AddFavorite, RemoveFavorite
<1>9. ASSUME NEW l \in Listings,
             ModerateListing(l) \/ DeleteExpired(l) \/ Approach(l)
      PROVE  LeaseWorks' /\ UNCHANGED Lock!lockVars
  BY <1>9 DEF ModerateListing, DeleteExpired, Approach
<1>10. ASSUME Tick PROVE LeaseWorks' /\ Lock!Expire
  BY <1>10 DEF Tick, Lock!Expire
<1>11. ASSUME UNCHANGED vars PROVE LeaseWorks' /\ UNCHANGED Lock!lockVars
  BY <1>11 DEF vars
<1> HIDE DEF Lock!lockVars, LeaseWorks
<1> QED
  BY <1>1, <1>2, <1>3, <1>4, <1>5, <1>6, <1>7, <1>8, <1>9, <1>10, <1>11
  DEF Next, Step, Lock!LockNext

\* The runs use their lock the way RedisLock allows, whatever crashes and
\* however long they take.
THEOREM RunsFollowLock == Spec => LockUse
<1>1. Init => LeaseWorks /\ Lock!LockInit
  BY DEF Init, LeaseWorks, Working, Lock!LockInit
<1>2. TypeOK /\ LeaseWorks /\ [Next]_vars
        => LeaseWorks' /\ [Lock!LockNext]_Lock!lockVars
  BY LockStep
<1> QED
  BY <1>1, <1>2, TypeCorrect, PTL DEF Spec, LockUse, Lock!LockSpec
-----------------------------------------------------------------------------
\* Users who have switched notifications off.  As long as no call failed, no run
\* has them down as willing, works towards a notification for them, or has sent one.
OptOutInv ==
    faults = MaxFaults =>
        \A u \in OptOut : account[u] = "active" =>
            /\ \A r \in Runs : prefs[r][u] # "on"
            /\ \A r \in Runs : pc[r] \in {"check", "create", "emit"} => cur[r][1] # u
            /\ \A k \in Keys : k[1] = u => sent[k] = 0

\* A step that asks nobody and sends nothing, and starts work for nobody.
LEMMA QuietKeepsOptOut ==
    ASSUME TypeOK, OptOutInv,
           faults' = faults \/ faults' = faults - 1,
           \A u \in Users : account'[u] = "active" => account[u] = "active",
           \A r \in Runs, u \in Users : prefs'[r][u] = "on" => prefs[r][u] = "on",
           \A r \in Runs : pc'[r] \in {"check", "create", "emit"}
                             => pc[r] \in {"check", "create", "emit"} /\ cur'[r] = cur[r],
           UNCHANGED sent
    PROVE  OptOutInv'
<1>1. faults' = MaxFaults => faults = MaxFaults
  BY RemindersAssumption DEF TypeOK
<1>2. OptOut \subseteq Users
  BY RemindersAssumption
<1> QED
  BY <1>1, <1>2 DEF OptOutInv

\* The question whether a user wants to be notified is the one step that lets a
\* run go on towards a notification.
LEMMA AskingKeepsOptOut ==
    ASSUME TypeOK, OptOutInv, NEW r \in Runs, CheckPrefs(r)
    PROVE  OptOutInv'
<1> DEFINE u == cur[r][1]
<1>1. u \in Users /\ cur[r] \in Users \X Listings
  BY DEF CheckPrefs, TypeOK
<1>2. UNCHANGED <<account, cur, sent>>
  BY DEF CheckPrefs, coreVars
<1>3. CASE Fault
  <2>1. faults' # MaxFaults
    BY <1>3, RemindersAssumption DEF Fault, TypeOK
  <2> QED
    BY <2>1 DEF OptOutInv
<1>4. CASE ~Fault
  <2>1. PICK answer \in {"on", "off"} :
          /\ prefs' = [prefs EXCEPT ![r][u] = answer]
          /\ pc' = [pc EXCEPT ![r] = IF answer = "on" /\ InWindow(r, cur[r])
                                    THEN "check" ELSE "next"]
          /\ answer = "on" => prefs[r][u] = "on" \/ u \notin OptOut \/ account[u] # "active"
          /\ UNCHANGED faults
    BY <1>1, <1>4 DEF CheckPrefs, Goto, TypeOK, boundVars
  <2> SUFFICES ASSUME faults = MaxFaults, NEW v \in OptOut, account[v] = "active"
               PROVE  /\ \A s \in Runs : prefs'[s][v] # "on"
                      /\ \A s \in Runs : pc'[s] \in {"check", "create", "emit"} => cur[s][1] # v
                      /\ \A k \in Keys : k[1] = v => sent[k] = 0
    BY <1>2, <2>1 DEF OptOutInv
  <2>2. /\ v \in Users
        /\ \A s \in Runs : prefs[s][v] # "on"
        /\ \A s \in Runs : pc[s] \in {"check", "create", "emit"} => cur[s][1] # v
        /\ \A k \in Keys : k[1] = v => sent[k] = 0
    BY RemindersAssumption DEF OptOutInv
  <2>3. u = v => answer = "off"
    BY <2>1, <2>2
  <2>4. \A s \in Runs : prefs'[s][v] # "on"
    BY <1>1, <2>1, <2>2, <2>3 DEF TypeOK
  <2>5. \A s \in Runs : pc'[s] \in {"check", "create", "emit"} => cur[s][1] # v
    BY <2>1, <2>2, <2>3 DEF TypeOK
  <2> QED
    BY <2>2, <2>4, <2>5
<1> QED
  BY <1>3, <1>4

\* A user who has switched notifications off is not reminded unless a call failed,
\* however many runs overlap.
THEOREM OptOutIsRespected == Spec => []OptOutRespected
<1>1. Init => OptOutInv
  BY RemindersAssumption DEF Init, OptOutInv
<1>2. TypeOK /\ OptOutInv /\ [Next]_vars => OptOutInv'
  <2> SUFFICES ASSUME TypeOK, OptOutInv, [Next]_vars
               PROVE  OptOutInv'
    OBVIOUS
  <2> USE DEF coreVars, lockVars, runVars, boundVars
  <2>1. ASSUME NEW r \in Runs,
               \/ Trigger(r) \/ AcquireLock(r) \/ LockBusy(r) \/ FetchFavorites(r)
               \/ NextFavorite(r) \/ Done(r) \/ CreateRejected(r) \/ DatabaseFails(r)
               \/ ReleaseLock(r) \/ Crash(r)
        PROVE  OptOutInv'
    <3>1. /\ faults' = faults \/ faults' = faults - 1
          /\ UNCHANGED <<account, sent>>
      BY <2>1 DEF Trigger, AcquireLock, LockBusy, FetchFavorites, NextFavorite, Done,
                  CreateRejected, DatabaseFails, ReleaseLock, Crash, Fault
    <3>2. prefs' = prefs \/ prefs' = [prefs EXCEPT ![r] = [u \in Users |-> "unknown"]]
      BY <2>1 DEF Trigger, AcquireLock, LockBusy, FetchFavorites, NextFavorite, Done,
                  CreateRejected, DatabaseFails, ReleaseLock, Crash, Forget
    <3>3. PICK next \in Pc \ {"check", "create", "emit"} : pc' = [pc EXCEPT ![r] = next]
      BY <2>1 DEF Trigger, AcquireLock, LockBusy, FetchFavorites, NextFavorite, Done,
                  CreateRejected, DatabaseFails, ReleaseLock, Crash, Forget, Goto, Pc
    <3>4. \A s \in Runs \ {r} : cur'[s] = cur[s]
      BY <2>1 DEF Trigger, AcquireLock, LockBusy, FetchFavorites, NextFavorite, Done,
                  CreateRejected, DatabaseFails, ReleaseLock, Crash, Forget, TypeOK
    <3>5. \A s \in Runs, u \in Users : prefs'[s][u] = "on" => prefs[s][u] = "on"
      <4> SUFFICES ASSUME NEW s \in Runs, NEW u \in Users, prefs'[s][u] = "on"
                   PROVE  prefs[s][u] = "on"
        OBVIOUS
      <4>1. prefs'[s] = prefs[s] \/ prefs'[s] = [v \in Users |-> "unknown"]
        BY <3>2 DEF TypeOK
      <4> QED
        BY <4>1
    <3>6. \A s \in Runs : pc'[s] \in {"check", "create", "emit"}
                             => pc[s] \in {"check", "create", "emit"} /\ cur'[s] = cur[s]
      BY <3>3, <3>4 DEF TypeOK
    <3> QED
      BY <3>1, <3>5, <3>6, QuietKeepsOptOut
  <2>2. ASSUME NEW r \in Runs, CheckPrefs(r) PROVE OptOutInv'
    BY <2>2, AskingKeepsOptOut
  <2>3. ASSUME NEW r \in Runs, CheckReminder(r) \/ CreateReminder(r) PROVE OptOutInv'
    <3>1. UNCHANGED <<account, prefs, cur, sent, faults>> /\ pc[r] \in {"check", "create"}
      BY <2>3 DEF CheckReminder, CreateReminder
    <3>2. \A s \in Runs \ {r} : pc'[s] = pc[s]
      BY <2>3 DEF CheckReminder, CreateReminder, Goto, TypeOK
    <3> QED
      BY <3>1, <3>2, QuietKeepsOptOut
  <2>4. ASSUME NEW r \in Runs, EmitNotification(r) PROVE OptOutInv'
    <3>1. /\ UNCHANGED <<account, prefs, cur, faults>> /\ pc[r] = "emit"
          /\ pc' = [pc EXCEPT ![r] = "next"]
          /\ \A k \in Keys : k # Key(r, cur[r]) => sent'[k] = sent[k]
      BY <2>4 DEF EmitNotification, Goto, TypeOK
    <3>2. Key(r, cur[r])[1] = cur[r][1]
      BY DEF Key
    <3> QED
      BY <3>1, <3>2 DEF OptOutInv, TypeOK
  <2>5. ASSUME \/ \E u \in Users, l \in Listings : AddFavorite(u, l) \/ RemoveFavorite(u, l)
               \/ \E u \in Users : \/ DeleteAccount(u) \/ CleanUpFavorites(u)
                                   \/ CleanUpReminders(u) \/ CleanUpFails(u)
               \/ \E l \in Listings : ModerateListing(l) \/ DeleteExpired(l) \/ Approach(l)
               \/ Tick \/ UNCHANGED vars
        PROVE  OptOutInv'
    <3>1. /\ faults' = faults \/ faults' = faults - 1
          /\ UNCHANGED <<pc, cur, prefs, sent>>
      BY <2>5 DEF AddFavorite, RemoveFavorite, DeleteAccount, CleanUpFavorites,
                  CleanUpReminders, CleanUpFails, ModerateListing, DeleteExpired, Approach,
                  Tick, vars, Fault, Change
    <3>2. \A u \in Users : account'[u] = "active" => account[u] = "active"
      BY <2>5 DEF AddFavorite, RemoveFavorite, DeleteAccount, CleanUpFavorites,
                  CleanUpReminders, CleanUpFails, ModerateListing, DeleteExpired, Approach,
                  Tick, vars, TypeOK
    <3> QED
      BY <3>1, <3>2, QuietKeepsOptOut
  <2> QED
    BY <2>1, <2>2, <2>3, <2>4, <2>5 DEF Next, Step
<1>3. OptOutInv => OptOutRespected
  BY DEF OptOutInv, OptOutRespected
<1> QED
  BY <1>1, <1>2, <1>3, TypeCorrect, PTL DEF Spec

-----------------------------------------------------------------------------
(* What a run found due                                                    *)

\* Nothing is left to do for a reminder: it has its row, or the listing or the
\* account has gone.
Settled(k) == k \in reminders \/ k[2] \notin listings \/ account[k[1]] # "active"

\* A run has a reminder still before it: on its list or in its hands.
Ahead(r, k) ==
    \/ <<k[1], k[2]>> \in todo[r]
    \/ pc[r] \in {"prefs", "check", "create"} /\ cur[r] = <<k[1], k[2]>>

\* A run forgets nobody it found due, and takes a user's word only for himself.
ServeInv ==
    /\ \A r \in Runs, u \in Users : prefs[r][u] = "off" => u \in OptOut
    /\ \A r \in Runs : pc[r] \in {"next", "prefs", "check", "create", "emit"} =>
          \A k \in asked[r] :
              /\ k[1] \notin OptOut /\ k[3] = seen[r][k[2]] /\ k[3] \in Types
              /\ Settled(k) \/ Ahead(r, k)

\* A row is only deleted together with the listing or after the account.
LEMMA SettledStays ==
    ASSUME TypeOK, [Next]_vars, NEW k \in Keys, Settled(k)
    PROVE  Settled(k)'
<1> USE DEF Settled, TypeOK, coreVars
<1>1. k[1] \in Users
  BY DEF Keys
<1>2. ASSUME NEW r \in Runs, Trigger(r) \/ Step(r) \/ Crash(r) PROVE Settled(k)'
  BY <1>2 DEF Trigger, Step, Crash, AcquireLock, LockBusy, FetchFavorites, NextFavorite, Done,
     CheckPrefs, CheckReminder, CreateReminder, CreateRejected, DatabaseFails,
     EmitNotification, ReleaseLock
<1>3. ASSUME NEW u \in Users, NEW l \in Listings, AddFavorite(u, l) \/ RemoveFavorite(u, l)
      PROVE  Settled(k)'
  BY <1>3 DEF AddFavorite, RemoveFavorite
<1>4. ASSUME NEW u \in Users, \/ DeleteAccount(u) \/ CleanUpFavorites(u)
                              \/ CleanUpReminders(u) \/ CleanUpFails(u)
      PROVE  Settled(k)'
  BY <1>1, <1>4 DEF DeleteAccount, CleanUpFavorites, CleanUpReminders, CleanUpFails
<1>5. ASSUME NEW l \in Listings, ModerateListing(l) \/ DeleteExpired(l) \/ Approach(l)
      PROVE  Settled(k)'
  BY <1>5 DEF ModerateListing, DeleteExpired, Approach
<1>6. ASSUME Tick \/ UNCHANGED vars PROVE Settled(k)'
  BY <1>6 DEF Tick, vars
<1> QED
  BY <1>2, <1>3, <1>4, <1>5, <1>6 DEF Next

\* What is ahead of a run, or settled, becomes settled or stays ahead; steps of
\* other runs and of users do not reach into a run.
LEMMA OthersKeepServing ==
    ASSUME TypeOK, ServeInv, [Next]_vars, NEW r \in Runs,
           UNCHANGED <<pc[r], seen[r], todo[r], cur[r], asked[r], prefs[r]>>
    PROVE  /\ \A u \in Users : prefs'[r][u] = "off" => u \in OptOut
           /\ pc'[r] \in {"next", "prefs", "check", "create", "emit"} =>
                 \A k \in asked'[r] :
                     /\ k[1] \notin OptOut /\ k[3] = seen'[r][k[2]] /\ k[3] \in Types
                     /\ Settled(k)' \/ Ahead(r, k)'
<1>1. \A k \in asked[r] : Settled(k) => Settled(k)'
  BY SettledStays DEF TypeOK
<1> QED
  BY <1>1 DEF ServeInv, Ahead

\* A reminder a run found due is the one it owes for its favourite.
LEMMA DueIsOwed ==
    ASSUME NEW r \in Runs, NEW k \in Keys, NEW f,
           f = <<k[1], k[2]>>, k[3] = seen[r][k[2]], k[3] \in Types
    PROVE  k = Key(r, f) /\ InWindow(r, f) /\ f[1] = k[1]
<1>1. f[1] = k[1] /\ f[2] = k[2]
  OBVIOUS
<1>2. k = <<k[1], k[2], k[3]>>
  BY DEF Keys
<1> QED
  BY <1>1, <1>2 DEF Key, InWindow

\* The step of a run itself.
LEMMA RunKeepsServing ==
    ASSUME TypeOK, TypeOK', ServeInv, [Next]_vars, NEW r \in Runs,
           Trigger(r) \/ Step(r) \/ Crash(r)
    PROVE  ServeInv'
<1> DEFINE Serves(s) ==
        /\ \A u \in Users : prefs'[s][u] = "off" => u \in OptOut
        /\ pc'[s] \in {"next", "prefs", "check", "create", "emit"} =>
              \A k \in asked'[s] :
                  /\ k[1] \notin OptOut /\ k[3] = seen'[s][k[2]] /\ k[3] \in Types
                  /\ Settled(k)' \/ Ahead(s, k)'
<1>1. \A s \in Runs \ {r} : Serves(s)
  <2> SUFFICES ASSUME NEW s \in Runs \ {r} PROVE Serves(s)
    OBVIOUS
  <2>1. UNCHANGED <<pc[s], seen[s], todo[s], cur[s], asked[s], prefs[s]>>
    BY DEF Trigger, Step, Crash, AcquireLock, LockBusy, FetchFavorites, NextFavorite, Done,
       CheckPrefs, CheckReminder, CreateReminder, CreateRejected, DatabaseFails,
       EmitNotification, ReleaseLock, Forget, Goto, TypeOK
  <2> QED
    BY <2>1, OthersKeepServing
<1>2. Serves(r)
  <2>1. \A k \in asked[r] : Settled(k) => Settled(k)'
    BY SettledStays DEF TypeOK
  <2> USE DEF Goto, TypeOK
  <2>2. CASE \/ Trigger(r) \/ LockBusy(r) \/ Done(r) \/ CreateRejected(r) \/ DatabaseFails(r)
             \/ ReleaseLock(r) \/ Crash(r) \/ AcquireLock(r)
    <3>1. pc'[r] \notin {"next", "prefs", "check", "create", "emit"}
      BY <2>2 DEF Trigger, LockBusy, Done, CreateRejected, DatabaseFails, ReleaseLock,
         Crash, AcquireLock, Forget
    <3>2. prefs'[r] = prefs[r] \/ prefs'[r] = [u \in Users |-> "unknown"]
      BY <2>2 DEF Trigger, LockBusy, Done, CreateRejected, DatabaseFails, ReleaseLock,
         Crash, AcquireLock, Forget
    <3> QED
      BY <3>1, <3>2 DEF ServeInv
  <2>3. CASE FetchFavorites(r)
    <3>1. /\ todo'[r] = {f \in favorites : f[2] \in visible} /\ prefs' = prefs
          /\ asked'[r] = {Key(r, f) : f \in {g \in todo'[r] : InWindow(r, g) /\ g[1] \notin OptOut}}
          /\ seen' = seen
      BY <2>3 DEF FetchFavorites
    <3>2. ASSUME NEW k \in asked'[r]
          PROVE  /\ k[1] \notin OptOut /\ k[3] = seen'[r][k[2]] /\ k[3] \in Types
                 /\ <<k[1], k[2]>> \in todo'[r]
      <4>1. PICK f \in todo'[r] : InWindow(r, f) /\ f[1] \notin OptOut /\ k = Key(r, f)
        BY <3>1
      <4>2. f \in Users \X Listings
        BY <3>1
      <4>3. k = <<f[1], f[2], seen[r][f[2]]>>
        BY <4>1 DEF Key
      <4>4. k[1] = f[1] /\ k[2] = f[2] /\ k[3] = seen[r][f[2]]
        BY <4>3
      <4>5. <<k[1], k[2]>> = f
        BY <4>2, <4>4
      <4>6. k[3] = seen'[r][k[2]]
        BY <3>1, <4>4
      <4> QED
        BY <4>1, <4>4, <4>5, <4>6 DEF InWindow
    <3> QED
      BY <3>1, <3>2 DEF ServeInv, Ahead
  <2>4. CASE NextFavorite(r)
    <3>1. PICK f \in todo[r] : cur'[r] = f /\ todo'[r] = todo[r] \ {f}
      BY <2>4 DEF NextFavorite
    <3>2. /\ pc[r] = "next" /\ pc'[r] = "prefs"
          /\ UNCHANGED <<prefs, seen, asked>>
      BY <2>4 DEF NextFavorite
    <3>3. ASSUME NEW k \in asked[r], Ahead(r, k) PROVE Ahead(r, k)'
      <4>1. <<k[1], k[2]>> \in todo[r]
        BY <3>2, <3>3 DEF Ahead
      <4> QED
        BY <3>1, <3>2, <4>1 DEF Ahead
    <3> QED
      BY <2>1, <3>2, <3>3 DEF ServeInv
  <2>5. CASE CheckPrefs(r)
    <3>1. cur[r] \in Users \X Listings /\ cur[r][1] \in Users
      BY <2>5 DEF CheckPrefs
    <3>2. PICK answer \in {"on", "off"} :
            /\ prefs' = [prefs EXCEPT ![r][cur[r][1]] = answer]
            /\ pc' = [pc EXCEPT ![r] = IF answer = "on" /\ InWindow(r, cur[r])
                                      THEN "check" ELSE "next"]
            /\ answer = "off" => cur[r][1] \in OptOut
      BY <2>5, <3>1 DEF CheckPrefs, ServeInv
    <3>3. \A u \in Users : prefs'[r][u] = "off" => u \in OptOut
      BY <3>1, <3>2 DEF ServeInv
    <3>4. UNCHANGED <<seen, todo, cur, asked>> /\ pc[r] = "prefs"
      BY <2>5 DEF CheckPrefs
    <3>5. ASSUME NEW k \in asked[r], cur[r] = <<k[1], k[2]>>
          PROVE  pc'[r] = "check"
      <4>1. /\ k \in Keys /\ k[1] \notin OptOut
            /\ k[3] = seen[r][k[2]] /\ k[3] \in Types
        BY <3>4, <3>5 DEF ServeInv
      <4>2. InWindow(r, cur[r]) /\ cur[r][1] = k[1]
        BY <3>5, <4>1, DueIsOwed
      <4> QED
        BY <3>2, <4>1, <4>2
    <3>6. ASSUME NEW k \in asked[r], Ahead(r, k) PROVE Ahead(r, k)'
      BY <3>4, <3>5, <3>6 DEF Ahead
    <3> QED
      BY <2>1, <3>3, <3>4, <3>6 DEF ServeInv
  <2>6. CASE CheckReminder(r)
    <3>1. /\ UNCHANGED <<seen, todo, cur, asked, prefs, reminders>> /\ pc[r] = "check"
          /\ pc'[r] = IF Key(r, cur[r]) \in reminders THEN "next" ELSE "create"
      BY <2>6 DEF CheckReminder, coreVars
    <3>2. ASSUME NEW k \in asked[r], cur[r] = <<k[1], k[2]>> PROVE k = Key(r, cur[r])
      BY <3>1, <3>2, DueIsOwed DEF ServeInv
    <3>3. ASSUME NEW k \in asked[r], Ahead(r, k) PROVE Settled(k)' \/ Ahead(r, k)'
      BY <3>1, <3>2, <3>3 DEF Ahead, Settled
    <3> QED
      BY <2>1, <3>1, <3>3 DEF ServeInv
  <2>7. CASE CreateReminder(r)
    <3>1. /\ UNCHANGED <<seen, todo, cur, asked, prefs>> /\ pc[r] = "create"
          /\ pc'[r] = "emit" /\ Key(r, cur[r]) \in reminders'
      BY <2>7 DEF CreateReminder
    <3>2. ASSUME NEW k \in asked[r], cur[r] = <<k[1], k[2]>> PROVE k = Key(r, cur[r])
      BY <3>1, <3>2, DueIsOwed DEF ServeInv
    <3>3. ASSUME NEW k \in asked[r], Ahead(r, k) PROVE Settled(k)' \/ Ahead(r, k)'
      BY <3>1, <3>2, <3>3 DEF Ahead, Settled
    <3> QED
      BY <2>1, <3>1, <3>3 DEF ServeInv
  <2>8. CASE EmitNotification(r)
    BY <2>1, <2>8 DEF EmitNotification, ServeInv, Ahead
  <2> QED
    BY <2>2, <2>3, <2>4, <2>5, <2>6, <2>7, <2>8 DEF Step
<1> QED
  BY <1>1, <1>2 DEF ServeInv

\* A run that reaches the end of its list has seen to every reminder it found due,
\* however many runs, users and moderators interfere.
THEOREM RunsServeAll == Spec => FinishedRunsServeAll
<1>1. Init => ServeInv
  BY DEF Init, ServeInv
<1>2. TypeOK /\ TypeOK' /\ ServeInv /\ [Next]_vars => ServeInv'
  <2> SUFFICES ASSUME TypeOK, TypeOK', ServeInv, [Next]_vars
               PROVE  ServeInv'
    OBVIOUS
  <2>1. CASE \E r \in Runs : Trigger(r) \/ Step(r) \/ Crash(r)
    BY <2>1, RunKeepsServing
  <2>2. CASE ~\E r \in Runs : Trigger(r) \/ Step(r) \/ Crash(r)
    <3>1. UNCHANGED runVars
      BY <2>2 DEF Next, AddFavorite, RemoveFavorite, DeleteAccount, CleanUpFavorites,
         CleanUpReminders, CleanUpFails, ModerateListing, DeleteExpired, Approach, Tick, vars,
         runVars
    <3>2. \A r \in Runs : UNCHANGED <<pc[r], seen[r], todo[r], cur[r], asked[r], prefs[r]>>
      BY <3>1 DEF runVars
    <3> QED
      BY <3>2, OthersKeepServing DEF ServeInv
  <2> QED
    BY <2>1, <2>2
<1>3. TypeOK /\ ServeInv /\ [Next]_vars =>
         [\A r \in Runs : Done(r) =>
             \A k \in asked[r] : \/ k \in reminders
                                 \/ k[2] \notin listings
                                 \/ account[k[1]] # "active"]_vars
  BY DEF ServeInv, Settled, Ahead, Done
<1> QED
  BY <1>1, <1>2, <1>3, TypeCorrect, PTL DEF Spec, FinishedRunsServeAll
=============================================================================
