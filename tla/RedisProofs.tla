----------------------------- MODULE RedisProofs -----------------------------
(***************************************************************************)
(* Proofs about what the services keep in Redis: the lock that a scheduler *)
(* takes there, for any number of clients and any TTL, the saga of a       *)
(* registration, for any number of requests, e-mails and faults, and the   *)
(* cached lists of a catalogue, for any sets of categories, tiles and      *)
(* requests.                                                               *)
(***************************************************************************)
EXTENDS RedisLock, Registration, Catalogue, TLAPS

-----------------------------------------------------------------------------
(* The lock                                                                *)

\* However clients acquire, release, crash and outlive their key, and
\* although acquireLock may set the key without telling, at most one client
\* has a lease, and only while the key exists.
THEOREM LeaseIsExclusive ==
    ASSUME TTL \in Nat \ {0}
    PROVE  LockSpec => []LeaseSafe
<1>1. LockInit => LeaseSafe
  BY DEF LockInit, LeaseSafe
<1>2. LeaseSafe /\ [LockNext]_lockVars => LeaseSafe'
  <2> SUFFICES ASSUME LeaseSafe, [LockNext]_lockVars
               PROVE  LeaseSafe'
    OBVIOUS
  <2> USE DEF LeaseSafe
  <2>1. ASSUME NEW c \in Clients, Acquire(c) PROVE LeaseSafe'
    BY <2>1 DEF Acquire
  <2>2. ASSUME NEW c \in Clients, Release(c) \/ Abandon(c) PROVE LeaseSafe'
    BY <2>2 DEF Release, Abandon
  <2>3. ASSUME AcquireLost PROVE LeaseSafe'
    BY <2>3 DEF AcquireLost
  <2>4. ASSUME Expire PROVE LeaseSafe'
    BY <2>4 DEF Expire
  <2>5. ASSUME UNCHANGED lockVars PROVE LeaseSafe'
    BY <2>5 DEF lockVars
  <2> QED
    BY <2>1, <2>2, <2>3, <2>4, <2>5 DEF LockNext
<1> QED
  BY <1>1, <1>2, PTL DEF LockSpec

-----------------------------------------------------------------------------
(* What the orchestrator makes of a saga                                   *)

\* A saga stays typed when its current step changes.
LEMMA SetCurrentTyped ==
    ASSUME NEW s \in Sagas, NEW st \in Status
    PROVE  /\ SetCurrent(s, st) \in Sagas
           /\ SetCurrent(s, st).current = s.current
           /\ SetCurrent(s, st).status = s.status
BY DEF SetCurrent, Sagas

\* Only the second of the steps completes a saga.
LEMMA ExecutedTyped ==
    ASSUME NEW s \in Sagas, s.current <= 1
    PROVE  /\ Executed(s) \in Sagas
           /\ Executed(s).current = s.current + 1
           /\ s.current = 0 => Executed(s).status = s.status
           /\ Executed(s).steps = SetCurrent(s, "COMPLETED").steps
<1> DEFINE done == SetCurrent(s, "COMPLETED")
<1>1. done \in Sagas /\ done.current = s.current /\ done.status = s.status
  BY SetCurrentTyped DEF Status
<1>2. Executed(s) = [done EXCEPT !.current = @ + 1,
                                 !.status = IF s.current + 1 >= 2 THEN "COMPLETED" ELSE @]
  BY DEF Executed
<1> HIDE DEF done
<1>3. PICK steps \in [1..2 -> Status] :
        done = [current |-> s.current, steps |-> steps, status |-> s.status]
  BY <1>1 DEF Sagas
<1>4. Executed(s) = [current |-> s.current + 1, steps |-> steps,
                     status |-> IF s.current + 1 >= 2 THEN "COMPLETED" ELSE s.status]
  BY <1>2, <1>3
<1>5. s.current + 1 \in 0..2
  BY DEF Sagas
<1>6. /\ Executed(s) \in Sagas
      /\ Executed(s).current = s.current + 1
      /\ s.current = 0 => Executed(s).status = s.status
  BY <1>1, <1>4, <1>5 DEF Sagas, Status
<1>7. Executed(s).steps = done.steps
  BY <1>3, <1>4
<1> QED
  BY <1>6, <1>7 DEF done

\* A saga that has failed, or is compensated, is not completed.
LEMMA FailedTyped ==
    ASSUME NEW s \in Sagas
    PROVE  /\ Failed(s) \in Sagas /\ Compensating(s) \in Sagas /\ Compensated(s) \in Sagas
           /\ Failed(s).status = "COMPENSATING" /\ Compensating(s).status = s.status
           /\ Compensated(s).status = "COMPENSATED"
<1>1. Failed(s) \in Sagas /\ Failed(s).status = "COMPENSATING"
  <2>1. SetCurrent(s, "FAILED") \in Sagas
    BY SetCurrentTyped DEF Status
  <2> QED
    BY <2>1 DEF Failed, Sagas, Status
<1>2. Compensating(s) \in Sagas /\ Compensating(s).status = s.status
  BY DEF Compensating, Sagas, Status
<1>3. Compensated(s) \in Sagas /\ Compensated(s).status = "COMPENSATED"
  BY DEF Compensated, Sagas, Status
<1> QED
  BY <1>1, <1>2, <1>3

\* A saga whose first step has been executed and whose second has failed has
\* the first one to compensate.
LEMMA FirstStepIsCompensated ==
    /\ NewSaga \in Sagas /\ NewSaga.current = 0 /\ NewSaga.status = "PENDING"
    /\ Executed(NewSaga) \in Sagas /\ Failed(Executed(NewSaga)) \in Sagas
    /\ 1 \in ToCompensate(Failed(Executed(NewSaga)))
<1>1. NewSaga \in Sagas /\ NewSaga.current = 0 /\ NewSaga.status = "PENDING"
  BY DEF NewSaga, Sagas, Status
<1>2. SetCurrent(NewSaga, "COMPLETED").steps[1] = "COMPLETED"
  BY DEF SetCurrent, NewSaga
<1> DEFINE s == Executed(NewSaga)
<1>3. s \in Sagas /\ s.current = 1 /\ s.steps[1] = "COMPLETED"
  BY <1>1, <1>2, ExecutedTyped
<1> HIDE DEF s
<1>4. Failed(s).current = 1 /\ Failed(s).steps[1] = "COMPLETED"
  <2>1. SetCurrent(s, "FAILED") = [s EXCEPT !.steps[2] = "FAILED"]
    BY <1>3 DEF SetCurrent
  <2> QED
    BY <1>3, <2>1 DEF Failed, Sagas
<1> QED
  BY <1>1, <1>3, <1>4, FailedTyped DEF ToCompensate, s

-----------------------------------------------------------------------------
(* Whoever is registered has all he asked for                              *)

\* Where a request has created its user and not deleted him.
HasUser == {"step1", "send", "wait", "step2", "fail", "compensate", "deleteUser", "emit"}

\* Where only requests with a city get.
InSaga == {"createSaga", "step1", "send", "wait", "step2", "fail", "compensate",
           "deleteUser", "markCompensated", "failOuter"}

\* A request on its way has the user, and past the reply the assignment, that its
\* answer will promise; only it could take the user away again.
OnItsWay ==
    \A r \in Requests :
        /\ pc[r] \in HasUser => r \in users
        /\ pc[r] \in InSaga \/ message[r] # "none" => r \in WithCity
        /\ message[r] = "success" => r \in assigned
        /\ pc[r] = "step2" \/ (pc[r] = "emit" /\ r \in WithCity) => r \in assigned
        /\ result[r] # "none" => pc[r] = "done"
        /\ r \in emitted => result[r] = "registered"

\* The saga follows the request: it counts no more steps than were taken, and is
\* completed when the request has only to tell it.
SagaFollows ==
    \A r \in Requests : saga[r] # NoSaga =>
        /\ pc[r] \in {"createUser", "step1"} => saga[r].current = 0
        /\ pc[r] \in {"send", "wait", "step2"} => saga[r].current <= 1
        /\ saga[r].status = "COMPLETED" => pc[r] \in {"emit", "done"}
        /\ pc[r] \notin {"idle", "check", "createSaga"}

CompleteInv == RegisteredIsComplete /\ OnItsWay /\ SagaFollows

\* As long as only the core service is slow: where the saga stands when it is
\* looked at, and that a request which will report a failure has no user.
Undisturbed ==
    faults = MaxFaults => \A r \in Requests :
        /\ pc[r] \in {"idle", "check", "createSaga", "createUser", "markCompensated",
                      "failOuter"} => r \notin users
        /\ pc[r] \in {"createUser", "step1"} /\ r \in WithCity => saga[r] = NewSaga
        /\ pc[r] \in {"send", "wait", "step2", "fail"} => saga[r] = Executed(NewSaga)
        /\ pc[r] = "compensate" => saga[r] = Failed(Executed(NewSaga))
        /\ pc[r] = "deleteUser" \/ pc[r] = "markCompensated" => saga[r] # NoSaga

FailureInv == Undisturbed /\ FailureLeavesNoUser

\* Nothing on the way to an answer, by one request, by the core service or by
\* another request, takes away what the answer promises.
LEMMA CompleteStep == CompleteInv /\ [Next]_vars => CompleteInv'
<1> SUFFICES ASSUME CompleteInv, [Next]_vars
             PROVE  CompleteInv'
  OBVIOUS
<1> USE RegistrationAssumption
    DEF CompleteInv, RegisteredIsComplete, OnItsWay, SagaFollows, TypeOK, Goto, Answer,
        Fault, SaveSaga, NotFound, Pc, Results, HasUser, InSaga
<1>1. ASSUME NEW r \in Requests, Register(r) \/ CheckEmail(r) PROVE CompleteInv'
  BY <1>1 DEF Register, CheckEmail
<1>2. ASSUME NEW r \in Requests, CreateSaga(r) PROVE CompleteInv'
  BY <1>2, FirstStepIsCompensated DEF CreateSaga
<1>3. ASSUME NEW r \in Requests, CreateUser(r) \/ CreateUserFails(r) PROVE CompleteInv'
  BY <1>3 DEF CreateUser, CreateUserFails
<1>4. ASSUME NEW r \in Requests, ExecuteStep1(r) PROVE CompleteInv'
  BY <1>4, ExecutedTyped DEF ExecuteStep1
<1>5. ASSUME NEW r \in Requests, SendAssignment(r) \/ CreateUserCityAssignment(r)
      PROVE  CompleteInv'
  BY <1>5 DEF SendAssignment, CreateUserCityAssignment
<1>6. ASSUME NEW r \in Requests, ReceiveReply(r) \/ Timeout(r) PROVE CompleteInv'
  BY <1>6 DEF ReceiveReply, Timeout
<1>7. ASSUME NEW r \in Requests, ExecuteStep2(r) PROVE CompleteInv'
  BY <1>7, ExecutedTyped DEF ExecuteStep2
<1>8. ASSUME NEW r \in Requests, FailStep(r) \/ FailOuter(r) PROVE CompleteInv'
  BY <1>8, FailedTyped DEF FailStep, FailOuter
<1>9. ASSUME NEW r \in Requests, Compensate(r) \/ MarkCompensated(r) PROVE CompleteInv'
  BY <1>9, FailedTyped DEF Compensate, MarkCompensated
<1>10. ASSUME NEW r \in Requests, DeleteUser(r) PROVE CompleteInv'
  BY <1>10 DEF DeleteUser
<1>11. ASSUME NEW r \in Requests, EmitUserCreated(r) PROVE CompleteInv'
  BY <1>11 DEF EmitUserCreated
<1>12. ASSUME NEW r \in Requests, Crash(r) PROVE CompleteInv'
  BY <1>12 DEF Crash
<1>13. CASE UNCHANGED vars
  BY <1>13 DEF vars
<1> QED
  BY <1>1, <1>2, <1>3, <1>4, <1>5, <1>6, <1>7, <1>8, <1>9, <1>10, <1>11, <1>12, <1>13
  DEF Next, Step

\* It holds of every behaviour.
LEMMA CompleteInvariant == Spec => []CompleteInv
<1>1. Init => CompleteInv
  BY RegistrationAssumption
  DEF Init, CompleteInv, RegisteredIsComplete, OnItsWay, SagaFollows, TypeOK, Pc, Results,
      HasUser, InSaga
<1> QED
  BY <1>1, CompleteStep, PTL DEF Spec

\* Whoever is told that he is registered, and whom the other services are told of,
\* has his account and his city, whatever is lost or fails and however many
\* requests share an e-mail; a saga recorded as completed is.
THEOREM RegistrationIsComplete == Spec => []RegisteredIsComplete
<1>1. CompleteInv => RegisteredIsComplete
  BY DEF CompleteInv
<1> QED
  BY <1>1, CompleteInvariant, PTL

-----------------------------------------------------------------------------
(* A failure leaves no account                                             *)

\* While nothing has failed, the saga of a request is exactly as far as the
\* request, so that the compensation finds the user to delete.
LEMMA FailureStep == CompleteInv /\ FailureInv /\ [Next]_vars => FailureInv'
<1> SUFFICES ASSUME CompleteInv, FailureInv, [Next]_vars
             PROVE  FailureInv'
  OBVIOUS
<1> USE RegistrationAssumption, NoSagaAssumption
    DEF CompleteInv, FailureInv, Undisturbed, FailureLeavesNoUser, RegisteredIsComplete,
        TypeOK, Goto, Answer, Fault, SaveSaga, NotFound, Pc, Results
<1>1. ASSUME NEW r \in Requests, Register(r) \/ CheckEmail(r) PROVE FailureInv'
  BY <1>1 DEF Register, CheckEmail, OnItsWay
<1>2. ASSUME NEW r \in Requests, CreateSaga(r) PROVE FailureInv'
  BY <1>2, FirstStepIsCompensated DEF CreateSaga
<1>3. ASSUME NEW r \in Requests, CreateUser(r) \/ CreateUserFails(r) PROVE FailureInv'
  BY <1>3 DEF CreateUser, CreateUserFails, OnItsWay
<1>4. ASSUME NEW r \in Requests, ExecuteStep1(r) PROVE FailureInv'
  BY <1>4, FirstStepIsCompensated DEF ExecuteStep1, OnItsWay, InSaga
<1>5. ASSUME NEW r \in Requests, SendAssignment(r) \/ CreateUserCityAssignment(r)
      PROVE  FailureInv'
  BY <1>5 DEF SendAssignment, CreateUserCityAssignment
<1>6. ASSUME NEW r \in Requests, ReceiveReply(r) \/ Timeout(r) PROVE FailureInv'
  BY <1>6 DEF ReceiveReply, Timeout
<1>7. ASSUME NEW r \in Requests, ExecuteStep2(r) PROVE FailureInv'
  BY <1>7, FirstStepIsCompensated DEF ExecuteStep2
<1>8. ASSUME NEW r \in Requests, FailStep(r) \/ FailOuter(r) PROVE FailureInv'
  BY <1>8, FirstStepIsCompensated, FailedTyped DEF FailStep, FailOuter
<1>9. ASSUME NEW r \in Requests, Compensate(r) \/ MarkCompensated(r) PROVE FailureInv'
  BY <1>9, FirstStepIsCompensated, FailedTyped DEF Compensate, MarkCompensated
<1>10. ASSUME NEW r \in Requests, DeleteUser(r) PROVE FailureInv'
  BY <1>10 DEF DeleteUser
<1>11. ASSUME NEW r \in Requests, EmitUserCreated(r) PROVE FailureInv'
  BY <1>11 DEF EmitUserCreated
<1>12. ASSUME NEW r \in Requests, Crash(r) PROVE FailureInv'
  BY <1>12 DEF Crash
<1>13. CASE UNCHANGED vars
  BY <1>13 DEF vars
<1> QED
  BY <1>1, <1>2, <1>3, <1>4, <1>5, <1>6, <1>7, <1>8, <1>9, <1>10, <1>11, <1>12, <1>13
  DEF Next, Step

\* As long as only the core service is slow, a request that reports a failure
\* leaves no account, for any number of requests for the same e-mail.
THEOREM FailureLeavesNothing == Spec => []FailureLeavesNoUser
<1>1. Init => FailureInv
  BY DEF Init, FailureInv, Undisturbed, FailureLeavesNoUser
<1>2. FailureInv => FailureLeavesNoUser
  BY DEF FailureInv
<1> QED
  BY <1>1, <1>2, FailureStep, CompleteInvariant, PTL DEF Spec

-----------------------------------------------------------------------------
(* The catalogue                                                           *)

\* What a request is about is of the kind its operation works on.
TargetsFit ==
    \A r \in Calls :
        /\ place[r] \in {"map", "delete", "change", "unassign", "assign"} => target[r] \in Categories
        /\ place[r] \in {"drop", "link"} => target[r] \in Tiles

\* A reader that was not overtaken holds what the tables say,
ReadersKnow ==
    \A r \in Calls :
        /\ place[r] = "categories" => focus = "categories"
        /\ place[r] \in {"links", "tiles"} => focus = "tiles"
        /\ ~outdated[r] /\ ~search[r] =>
              /\ place[r] = "categories" => snapshot[r] = AssignedTo(db)
              /\ place[r] = "lookup" /\ focus = "categories" => found[r] = List
              /\ place[r] = "tiles" => snapshot[r] = Linked(db)
              /\ place[r] = "store" => found[r] = List

\* and a list in the cache is stale only while a request that made it so is
\* about to clear it, or has failed to.
WillClear(r) == place[r] = "invalidate" \/ (place[r] = "map" /\ target[r] \in db.cats)

StaleIsKnown ==
    cache.full /\ ~cache.search /\ ~cache.raced /\ ~behind /\ (\A r \in Calls : ~WillClear(r))
        => cache.list = List

CatalogueInv == CatalogueTypeOK /\ TargetsFit /\ ReadersKnow /\ StaleIsKnown

\* Lists do not depend on who has asked for a category.
LEMMA ListsIgnoreRequests ==
    ASSUME NEW d \in Tables, NEW A, NEW e, e = [d EXCEPT !.asked = A]
    PROVE  /\ AssignedTo(e) = AssignedTo(d) /\ Linked(e) = Linked(d)
           /\ \A ids : CityTree(e, ids) = CityTree(d, ids) /\ TileList(e, ids) = TileList(d, ids)
<1>1. /\ e.cats = d.cats /\ e.active = d.active /\ e.parent = d.parent
      /\ e.assigned = d.assigned /\ e.tiles = d.tiles /\ e.live = d.live /\ e.links = d.links
  BY DEF Tables
<1>2. AssignedTo(e) = AssignedTo(d) /\ Linked(e) = Linked(d)
  BY <1>1 DEF AssignedTo, Linked
<1>3. ASSUME NEW ids PROVE CityTree(e, ids) = CityTree(d, ids) /\ TileList(e, ids) = TileList(d, ids)
  <2>1. Fetched(e, ids) = Fetched(d, ids)
    BY <1>1 DEF Fetched
  <2>2. ASSUME NEW S PROVE WithoutOrphans(e, S) = WithoutOrphans(d, S)
    BY <1>1 DEF WithoutOrphans
  <2>3. ASSUME NEW S PROVE Roots(e, S) = Roots(d, S)
    BY <1>1 DEF Roots
  <2>4. ASSUME NEW S, NEW roots PROVE Tree(e, S, roots) = Tree(d, S, roots)
    BY <1>1 DEF Tree, Closed
  <2>5. CityTree(e, ids) = CityTree(d, ids)
    BY <2>1, <2>2, <2>3, <2>4 DEF CityTree
  <2> QED BY <1>1, <2>5 DEF TileList
<1> QED BY <1>2, <1>3

\* A list is made of categories, or of tiles.
LEMMA ListsTyped ==
    ASSUME NEW d \in Tables, NEW ids
    PROVE  /\ \A roots : Tree(d, WithoutOrphans(d, Fetched(d, ids)), roots) \subseteq Categories
           /\ CityTree(d, ids) \subseteq Categories
           /\ TileList(d, ids) \subseteq Tiles
           /\ AssignedTo(d) \subseteq Categories /\ Linked(d) \subseteq Tiles
<1>1. d.cats \subseteq Categories /\ d.tiles \subseteq Tiles
  BY DEF Tables
<1>2. WithoutOrphans(d, Fetched(d, ids)) \subseteq Categories
  BY <1>1 DEF WithoutOrphans, Fetched
<1>3. ASSUME NEW roots PROVE Tree(d, WithoutOrphans(d, Fetched(d, ids)), roots) \subseteq Categories
  BY <1>2 DEF Tree
<1>4. CityTree(d, ids) \subseteq Categories
  BY <1>3 DEF CityTree
<1> QED BY <1>1, <1>3, <1>4 DEF TileList, AssignedTo, Linked

\* A request that writes the tables clears the cache next, or knows better.
WritesTables(r) ==
    \E d \in Tables, label \in Places, x \in Categories \cup Tiles \cup {None} :
        /\ Consistent(d) /\ Write(d) /\ Move(r, label, x)
        /\ \/ label = "invalidate" /\ behind' = behind
           \/ label = "map" /\ x \in d.cats /\ behind' = behind
           \/ label = "idle" /\ behind' = cache.full

\* A request goes on without a write, and leaves no cache to clear.
GoesOn(r) ==
    \E label \in {"idle", "delete", "change", "unassign", "drop", "link"},
       x \in Categories \cup Tiles \cup {None} :
        /\ Move(r, label, x)
        /\ label \in {"delete", "change", "unassign"} => x \in Categories
        /\ label \in {"drop", "link"} => x \in Tiles
        /\ ~WillClear(r)
        /\ UNCHANGED <<focus, db, cache, readVars, outdated, behind>>

\* A request is made, or decided upon.
Asks(r) ==
    \E A \in SUBSET [cat : Categories, by : Admins, status : RequestStatus],
       label \in {"idle", "assign"}, x \in Categories \cup {None} :
        /\ \A q \in A : q.cat \in db.cats
        /\ db' = [db EXCEPT !.asked = A]
        /\ Move(r, label, x) /\ (label = "assign" => x \in Categories)
        /\ place[r] = "idle"
        /\ UNCHANGED <<focus, cache, readVars, outdated, behind>>

\* What remains of the bounds.
BoundsTyped == left' \in 0..MaxRequests /\ failures' \in 0..MaxFailures

\* A request that begins or goes on stays within the bounds.
LEMMA BoundsKept ==
    ASSUME CatalogueTypeOK, NEW r \in Calls
    PROVE  /\ Begin(r) => BoundsTyped /\ place[r] = "idle"
           /\ \A label : At(r, label) => BoundsTyped /\ place[r] = label
           /\ UNCHANGED boundVars => BoundsTyped
           /\ failures > 0 /\ failures' = failures - 1 /\ left' = left => BoundsTyped
BY CatalogueAssumption DEF CatalogueTypeOK, Begin, At, boundVars, BoundsTyped

\* A write is known to those who have read, and to those who use the cache.
LEMMA WritesKeep ==
    ASSUME CatalogueInv, NEW r \in Calls, WritesTables(r), withdrawn' \subseteq Categories, BoundsTyped
    PROVE  CatalogueInv'
<1>0. CatalogueTypeOK /\ TargetsFit /\ ReadersKnow /\ StaleIsKnown
  BY DEF CatalogueInv
<1>1. PICK d \in Tables, label \in Places, x \in Categories \cup Tiles \cup {None} :
          /\ Consistent(d) /\ Write(d) /\ Move(r, label, x)
          /\ \/ label = "invalidate" /\ behind' = behind
             \/ label = "map" /\ x \in d.cats /\ behind' = behind
             \/ label = "idle" /\ behind' = cache.full
  BY DEF WritesTables
<1>2. /\ db' = d /\ outdated' = [q \in Calls |-> outdated[q] \/ place[q] \in Reading]
      /\ UNCHANGED <<focus, cache, snapshot, found, search>>
      /\ place' = [place EXCEPT ![r] = label] /\ target' = [target EXCEPT ![r] = x]
  BY <1>1 DEF Write, Move, readVars
<1>3. /\ place'[r] = label /\ target'[r] = x
      /\ \A q \in Calls : q # r => place'[q] = place[q] /\ target'[q] = target[q]
      /\ place' \in [Calls -> Places] /\ target' \in [Calls -> Categories \cup Tiles \cup {None}]
  BY <1>0, <1>2 DEF CatalogueTypeOK
<1>4. CatalogueTypeOK'
  <2>1. outdated' \in [Calls -> BOOLEAN]
    BY <1>0, <1>2 DEF CatalogueTypeOK
  <2>2. behind' \in BOOLEAN
    BY <1>0, <1>1 DEF CatalogueTypeOK
  <2>3. db' \in Tables /\ Consistent(db')
    BY <1>1, <1>2
  <2> QED BY <1>0, <1>2, <1>3, <2>1, <2>2, <2>3 DEF CatalogueTypeOK, BoundsTyped
<1>5. TargetsFit'
  <2>1. label = "map" => x \in Categories
    BY <1>1 DEF Tables
  <2> QED BY <1>0, <1>1, <1>3, <2>1 DEF TargetsFit
<1>6. ReadersKnow'
  <2> SUFFICES ASSUME NEW q \in Calls
               PROVE  /\ place'[q] = "categories" => focus' = "categories"
                      /\ place'[q] \in {"links", "tiles"} => focus' = "tiles"
                      /\ ~outdated'[q] => place'[q] \notin Reading
    BY DEF ReadersKnow, Reading
  <2>1. CASE q = r
    BY <1>1, <1>3, <2>1 DEF Reading
  <2>2. CASE q # r
    BY <1>0, <1>2, <1>3, <2>2 DEF ReadersKnow
  <2> QED BY <2>1, <2>2
<1>7. StaleIsKnown'
  <2> SUFFICES ASSUME cache'.full, ~behind', \A q \in Calls : ~(WillClear(q)')
               PROVE  FALSE
    BY DEF StaleIsKnown
  <2>1. ~(WillClear(r)')
    OBVIOUS
  <2> QED BY <1>1, <1>2, <1>3, <2>1 DEF WillClear
<1> QED BY <1>4, <1>5, <1>6, <1>7 DEF CatalogueInv

\* Nor is the list changed by who writes nothing,
LEMMA GoesOnKeeps ==
    ASSUME CatalogueInv, NEW r \in Calls, GoesOn(r), withdrawn' \subseteq Categories, BoundsTyped
    PROVE  CatalogueInv'
<1>0. CatalogueTypeOK /\ TargetsFit /\ ReadersKnow /\ StaleIsKnown
  BY DEF CatalogueInv
<1>1. PICK label \in {"idle", "delete", "change", "unassign", "drop", "link"},
           x \in Categories \cup Tiles \cup {None} :
        /\ Move(r, label, x)
        /\ label \in {"delete", "change", "unassign"} => x \in Categories
        /\ label \in {"drop", "link"} => x \in Tiles
        /\ ~WillClear(r)
        /\ UNCHANGED <<focus, db, cache, readVars, outdated, behind>>
  BY DEF GoesOn
<1>2. /\ UNCHANGED <<focus, db, cache, snapshot, found, search, outdated, behind>>
      /\ place' = [place EXCEPT ![r] = label] /\ target' = [target EXCEPT ![r] = x]
  BY <1>1 DEF Move, readVars
<1>3. /\ place'[r] = label /\ target'[r] = x
      /\ \A q \in Calls : q # r => place'[q] = place[q] /\ target'[q] = target[q]
      /\ place' \in [Calls -> Places] /\ target' \in [Calls -> Categories \cup Tiles \cup {None}]
  BY <1>0, <1>1, <1>2 DEF CatalogueTypeOK, Places
<1>4. CatalogueTypeOK'
  BY <1>0, <1>2, <1>3 DEF CatalogueTypeOK, BoundsTyped
<1>5. TargetsFit'
  BY <1>0, <1>1, <1>3 DEF TargetsFit
<1>a. List' = List /\ AssignedTo(db)' = AssignedTo(db) /\ Linked(db)' = Linked(db)
  BY <1>2 DEF List, CityTree, AssignedTo, Fetched, WithoutOrphans, Roots, Tree, Closed, TileList, Linked
<1>6. ReadersKnow'
  BY <1>0, <1>1, <1>2, <1>3, <1>a DEF ReadersKnow
<1>7. StaleIsKnown'
  <2>1. \A q \in Calls : WillClear(q) => WillClear(q)'
    BY <1>1, <1>2, <1>3 DEF WillClear
  <2> QED BY <1>0, <1>2, <1>a, <2>1 DEF StaleIsKnown
<1> QED BY <1>4, <1>5, <1>6, <1>7 DEF CatalogueInv

\* or only a request for a category.
LEMMA AsksKeeps ==
    ASSUME CatalogueInv, NEW r \in Calls, Asks(r), withdrawn' \subseteq Categories, BoundsTyped
    PROVE  CatalogueInv'
<1>0. CatalogueTypeOK /\ TargetsFit /\ ReadersKnow /\ StaleIsKnown
  BY DEF CatalogueInv
<1>1. PICK A \in SUBSET [cat : Categories, by : Admins, status : RequestStatus],
           label \in {"idle", "assign"}, x \in Categories \cup {None} :
        /\ \A q \in A : q.cat \in db.cats
        /\ db' = [db EXCEPT !.asked = A]
        /\ Move(r, label, x) /\ (label = "assign" => x \in Categories)
        /\ place[r] = "idle"
        /\ UNCHANGED <<focus, cache, readVars, outdated, behind>>
  BY DEF Asks
<1>2. /\ UNCHANGED <<focus, cache, snapshot, found, search, outdated, behind>>
      /\ place' = [place EXCEPT ![r] = label] /\ target' = [target EXCEPT ![r] = x]
  BY <1>1 DEF Move, readVars
<1>3. /\ place'[r] = label /\ target'[r] = x
      /\ \A q \in Calls : q # r => place'[q] = place[q] /\ target'[q] = target[q]
      /\ place' \in [Calls -> Places] /\ target' \in [Calls -> Categories \cup Tiles \cup {None}]
  BY <1>0, <1>1, <1>2 DEF CatalogueTypeOK, Places
<1>b. db \in Tables /\ Consistent(db)
  BY <1>0 DEF CatalogueTypeOK
<1>c. /\ db' \in Tables /\ db'.cats = db.cats /\ db'.active = db.active /\ db'.parent = db.parent
      /\ db'.assigned = db.assigned /\ db'.tiles = db.tiles /\ db'.live = db.live /\ db'.asked = A
  BY <1>1, <1>b DEF Tables
<1>d. Consistent(db')
  BY <1>1, <1>b, <1>c DEF Consistent
<1>4. CatalogueTypeOK'
  BY <1>0, <1>2, <1>3, <1>c, <1>d DEF CatalogueTypeOK, BoundsTyped
<1>5. TargetsFit'
  BY <1>0, <1>1, <1>3 DEF TargetsFit
<1>a. List' = List /\ AssignedTo(db)' = AssignedTo(db) /\ Linked(db)' = Linked(db)
  BY <1>1, <1>2, <1>b, ListsIgnoreRequests DEF List
<1>6. ReadersKnow'
  BY <1>0, <1>1, <1>2, <1>3, <1>a DEF ReadersKnow
<1>7. StaleIsKnown'
  <2>1. \A q \in Calls : WillClear(q) => WillClear(q)'
    BY <1>1, <1>2, <1>3, <1>c DEF WillClear
  <2> QED BY <1>0, <1>2, <1>a, <2>1 DEF StaleIsKnown
<1> QED BY <1>4, <1>5, <1>6, <1>7 DEF CatalogueInv

\* The operations that write the tables do so consistently.
LEMMA OperationsWrite ==
    ASSUME CatalogueTypeOK, TargetsFit, NEW r \in Calls,
           \/ CreateCategory(r) \/ UpdateCategory(r) \/ AssignCategoryToCity(r)
           \/ CreateTile(r) \/ UpdateTile(r) \/ UpdateSubService(r) \/ DeleteTileSubService(r)
    PROVE  WritesTables(r) /\ withdrawn' = withdrawn /\ BoundsTyped
<1> DEFINE Fits(d) == d \in Tables /\ Consistent(d)
<1> USE DEF Places, ThenInvalidate, LeaveCache
<1>0. Fits(db)
  BY DEF CatalogueTypeOK
<1>1. CASE CreateCategory(r)
  <2>1. PICK c \in Categories \ db.cats, p \in db.cats \cup {None} :
            /\ Write([db EXCEPT !.cats = @ \cup {c}, !.active = @ \cup {c}, !.parent[c] = p])
            /\ \/ Move(r, "map", c) /\ UNCHANGED <<behind, withdrawn>>
               \/ ThenInvalidate(r)
    BY <1>1 DEF CreateCategory
  <2>2. PICK d : d = [db EXCEPT !.cats = @ \cup {c}, !.active = @ \cup {c}, !.parent[c] = p]
    OBVIOUS
  <2>3. Fits(d) /\ c \in d.cats
    BY <1>0, <2>2 DEF Tables, Consistent
  <2>4. WritesTables(r) /\ withdrawn' = withdrawn
    BY <2>1, <2>2, <2>3 DEF WritesTables
  <2> QED BY <1>1, <2>4, BoundsKept DEF CreateCategory
<1>2. CASE UpdateCategory(r)
  <2>1. PICK c \in db.cats :
          \/ Write([db EXCEPT !.active = IF c \in @ THEN @ \ {c} ELSE @ \cup {c}])
          \/ \E p \in db.cats \cup {None} : Write([db EXCEPT !.parent[c] = p])
    BY <1>2 DEF UpdateCategory
  <2>2. Fits([db EXCEPT !.active = IF c \in @ THEN @ \ {c} ELSE @ \cup {c}])
    BY <1>0, <2>1 DEF Tables, Consistent
  <2>3. ASSUME NEW p \in db.cats \cup {None} PROVE Fits([db EXCEPT !.parent[c] = p])
    BY <1>0, <2>1 DEF Tables, Consistent
  <2>4. PICK d : Fits(d) /\ Write(d)
    BY <2>1, <2>2, <2>3
  <2>5. Move(r, "invalidate", None) /\ UNCHANGED <<behind, withdrawn>>
    BY <1>2 DEF UpdateCategory
  <2>6. WritesTables(r)
    BY <2>4, <2>5 DEF WritesTables
  <2> QED BY <1>2, <2>5, <2>6, BoundsKept DEF UpdateCategory
<1>3. CASE AssignCategoryToCity(r)
  <2>1. PICK c \in db.cats : Write(Assign(db, c))
    BY <1>3 DEF AssignCategoryToCity
  <2>2. Fits(Assign(db, c))
    BY <1>0, <2>1 DEF Assign, Tables, Consistent
  <2>3. Move(r, "idle", None) /\ behind' = cache.full /\ withdrawn' = withdrawn
    BY <1>3 DEF AssignCategoryToCity
  <2>4. WritesTables(r)
    BY <2>1, <2>2, <2>3 DEF WritesTables
  <2> QED BY <1>3, <2>3, <2>4, BoundsKept DEF AssignCategoryToCity
<1>4. CASE CreateTile(r)
  <2>1. PICK t \in Tiles \ db.tiles :
             \/ Write([db EXCEPT !.tiles = @ \cup {t}])
             \/ Write([db EXCEPT !.tiles = @ \cup {t}, !.live = @ \cup {t}])
    BY <1>4 DEF CreateTile
  <2>2. Fits([db EXCEPT !.tiles = @ \cup {t}])
    BY <1>0, <2>1 DEF Tables, Consistent
  <2>3. Fits([db EXCEPT !.tiles = @ \cup {t}, !.live = @ \cup {t}])
    BY <1>0, <2>1 DEF Tables, Consistent
  <2>4. PICK d : Fits(d) /\ Write(d)
    BY <2>1, <2>2, <2>3
  <2>5. Move(r, "invalidate", None) /\ UNCHANGED <<behind, withdrawn>>
    BY <1>4 DEF CreateTile
  <2>6. WritesTables(r)
    BY <2>4, <2>5 DEF WritesTables
  <2> QED BY <1>4, <2>5, <2>6, BoundsKept DEF CreateTile
<1>5. CASE UpdateTile(r)
  <2>1. PICK t \in db.tiles : Write([db EXCEPT !.live = IF t \in @ THEN @ \ {t} ELSE @ \cup {t}])
    BY <1>5 DEF UpdateTile
  <2>2. Fits([db EXCEPT !.live = IF t \in @ THEN @ \ {t} ELSE @ \cup {t}])
    BY <1>0, <2>1 DEF Tables, Consistent
  <2>5. Move(r, "invalidate", None) /\ UNCHANGED <<behind, withdrawn>>
    BY <1>5 DEF UpdateTile
  <2>6. WritesTables(r)
    BY <2>1, <2>2, <2>5 DEF WritesTables
  <2> QED BY <1>5, <2>5, <2>6, BoundsKept DEF UpdateTile
<1>6. CASE UpdateSubService(r) \/ DeleteTileSubService(r)
  <2>1. PICK t \in Tiles, s \in {"on", "off", None} : Write([db EXCEPT !.links[t] = s])
    BY <1>6 DEF UpdateSubService, DeleteTileSubService
  <2>2. Fits([db EXCEPT !.links[t] = s])
    BY <1>0, <2>1 DEF Tables, Consistent
  <2>3. /\ Move(r, "idle", None) /\ behind' = cache.full /\ withdrawn' = withdrawn
        /\ Begin(r)
    BY <1>6 DEF UpdateSubService, DeleteTileSubService
  <2>4. WritesTables(r)
    BY <2>1, <2>2, <2>3 DEF WritesTables
  <2> QED BY <2>3, <2>4, BoundsKept
<1> QED BY <1>1, <1>2, <1>3, <1>4, <1>5, <1>6

\* So do the second steps, unless what they were to change is gone.
LEMMA SecondStepsWrite ==
    ASSUME CatalogueTypeOK, TargetsFit, NEW r \in Calls,
           \/ MapCategory(r) \/ RemoveCategory(r) \/ Unassign(r) \/ ChangeCityCategory(r)
           \/ AssignApproved(r) \/ DropTile(r) \/ LinkTile(r)
    PROVE  (WritesTables(r) \/ GoesOn(r)) /\ withdrawn' \subseteq Categories /\ BoundsTyped
<1> DEFINE Fits(d) == d \in Tables /\ Consistent(d)
           c == target[r]
<1> USE DEF Places, ThenInvalidate, LeaveCache
<1>0. Fits(db) /\ withdrawn \subseteq Categories
  BY DEF CatalogueTypeOK
<1>a. ASSUME Refused(r), place[r] # "invalidate", place[r] = "map" => c \notin db.cats
      PROVE  GoesOn(r) /\ withdrawn' \subseteq Categories
  BY <1>0, <1>a DEF Refused, ReadOnly, GoesOn, WillClear
<1>b. ASSUME NEW d, Fits(d), Write(d), ThenInvalidate(r)
      PROVE  WritesTables(r) /\ withdrawn' \subseteq Categories
  BY <1>0, <1>b DEF WritesTables
<1>c. ASSUME NEW d, Fits(d), Write(d), LeaveCache(r)
      PROVE  WritesTables(r)
  BY <1>c DEF WritesTables
<1>1. CASE MapCategory(r)
  <2>1. place[r] = "map" /\ c \in Categories /\ BoundsTyped
    BY <1>1, BoundsKept DEF MapCategory, TargetsFit, At
  <2>2. CASE c \in db.cats
    <3>1. PICK s \in {"on", "off"} :
              Write(IF db.assigned[c] = None THEN [db EXCEPT !.assigned[c] = s] ELSE db)
      BY <1>1, <2>2 DEF MapCategory
    <3>2. Fits([db EXCEPT !.assigned[c] = s])
      BY <1>0, <2>1, <2>2, <3>1 DEF Tables, Consistent
    <3>3. PICK d : Fits(d) /\ Write(d)
      BY <1>0, <3>1, <3>2
    <3> QED BY <1>1, <1>b, <2>1, <2>2, <3>3 DEF MapCategory
  <2>3. CASE c \notin db.cats
    BY <1>1, <1>a, <2>1, <2>3 DEF MapCategory
  <2> QED BY <2>2, <2>3
<1>2. CASE RemoveCategory(r)
  <2>1. place[r] = "delete" /\ c \in Categories /\ BoundsTyped
    BY <1>2, BoundsKept DEF RemoveCategory, TargetsFit, At
  <2>2. CASE c \in db.cats
    <3>1. PICK d : d = WithoutCategory(db, c)
      OBVIOUS
    <3>2. /\ d.cats = db.cats \ {c} /\ d.active = db.active \ {c}
          /\ d.parent = [x \in Categories |-> IF x = c \/ db.parent[x] = c THEN None ELSE db.parent[x]]
          /\ d.assigned = [db.assigned EXCEPT ![c] = None]
          /\ d.asked = {q \in db.asked : q.cat # c}
          /\ d.tiles = db.tiles /\ d.live = db.live /\ d.links = db.links
      BY <1>0, <3>1 DEF WithoutCategory, Tables
    <3>3. d \in Tables
      BY <1>0, <3>1, <3>2 DEF WithoutCategory, Tables
    <3>4. Consistent(d)
      BY <1>0, <2>1, <3>2 DEF Tables, Consistent
    <3> QED BY <1>2, <1>b, <2>1, <2>2, <3>1, <3>3, <3>4 DEF RemoveCategory
  <2>3. CASE c \notin db.cats
    BY <1>2, <1>a, <2>1, <2>3 DEF RemoveCategory
  <2> QED BY <2>2, <2>3
<1>3. CASE Unassign(r)
  <2>1. place[r] = "unassign" /\ c \in Categories /\ BoundsTyped
    BY <1>3, BoundsKept DEF Unassign, TargetsFit, At
  <2>2. CASE db.assigned[c] # None
    <3>1. Fits([db EXCEPT !.assigned[c] = "off"])
      BY <1>0, <2>1, <2>2 DEF Tables, Consistent
    <3>2. /\ Write([db EXCEPT !.assigned[c] = "off"]) /\ LeaveCache(r)
          /\ withdrawn' = withdrawn \cup {c}
      BY <1>3, <2>2 DEF Unassign
    <3> QED BY <1>0, <1>c, <2>1, <3>1, <3>2
  <2>3. CASE db.assigned[c] = None
    BY <1>3, <1>a, <2>1, <2>3 DEF Unassign
  <2> QED BY <2>2, <2>3
<1>4. CASE ChangeCityCategory(r)
  <2>1. place[r] = "change" /\ c \in Categories /\ BoundsTyped
    BY <1>4, BoundsKept DEF ChangeCityCategory, TargetsFit, At
  <2>2. CASE db.assigned[c] # None
    <3>1. PICK s \in {"on", "off"} :
              /\ Write([db EXCEPT !.assigned[c] = s])
              /\ withdrawn' = IF s = "off" THEN withdrawn \cup {c} ELSE withdrawn
              /\ Move(r, "invalidate", None)
              /\ UNCHANGED behind
      BY <1>4, <2>2 DEF ChangeCityCategory
    <3>2. Fits([db EXCEPT !.assigned[c] = s])
      BY <1>0, <2>1, <2>2, <3>1 DEF Tables, Consistent
    <3>3. withdrawn' \subseteq Categories
      BY <1>0, <2>1, <3>1
    <3>4. WritesTables(r)
      BY <3>1, <3>2 DEF WritesTables
    <3> QED BY <2>1, <3>3, <3>4
  <2>3. CASE db.assigned[c] = None
    BY <1>4, <1>a, <2>1, <2>3 DEF ChangeCityCategory
  <2> QED BY <2>2, <2>3
<1>5. CASE AssignApproved(r)
  <2>1. place[r] = "assign" /\ c \in Categories /\ BoundsTyped
    BY <1>5, BoundsKept DEF AssignApproved, TargetsFit, At
  <2>2. CASE c \in db.cats
    <3>1. Fits(Assign(db, c))
      BY <1>0, <2>1, <2>2 DEF Assign, Tables, Consistent
    <3>2. Write(Assign(db, c)) /\ LeaveCache(r) /\ withdrawn' = withdrawn
      BY <1>5, <2>2 DEF AssignApproved
    <3> QED BY <1>0, <1>c, <2>1, <3>1, <3>2
  <2>3. CASE c \notin db.cats
    BY <1>5, <1>a, <2>1, <2>3 DEF AssignApproved
  <2> QED BY <2>2, <2>3
<1>6. CASE DropTile(r)
  <2>1. place[r] = "drop" /\ c \in Tiles /\ BoundsTyped
    BY <1>6, BoundsKept DEF DropTile, TargetsFit, At
  <2>2. CASE c \in db.tiles
    <3>1. Fits([db EXCEPT !.tiles = @ \ {c}, !.live = @ \ {c}])
      BY <1>0, <2>1 DEF Tables, Consistent
    <3> QED BY <1>6, <1>b, <2>1, <2>2, <3>1 DEF DropTile
  <2>3. CASE c \notin db.tiles
    BY <1>6, <1>a, <2>1, <2>3 DEF DropTile
  <2> QED BY <2>2, <2>3
<1>7. CASE LinkTile(r)
  <2>1. place[r] = "link" /\ c \in Tiles /\ BoundsTyped
    BY <1>7, BoundsKept DEF LinkTile, TargetsFit, At
  <2>2. CASE db.links[c] = None
    <3>1. Fits([db EXCEPT !.links[c] = "on"])
      BY <1>0, <2>1 DEF Tables, Consistent
    <3>2. Write([db EXCEPT !.links[c] = "on"]) /\ LeaveCache(r) /\ withdrawn' = withdrawn
      BY <1>7, <2>2 DEF LinkTile
    <3> QED BY <1>0, <1>c, <2>1, <3>1, <3>2
  <2>3. CASE db.links[c] # None
    BY <1>7, <1>a, <2>1, <2>3 DEF LinkTile
  <2> QED BY <2>2, <2>3
<1> QED BY <1>1, <1>2, <1>3, <1>4, <1>5, <1>6, <1>7

\* What takes two steps begins without a write.
LEMMA FirstStepsGoOn ==
    ASSUME CatalogueTypeOK, NEW r \in Calls,
           \/ DeleteCategory(r) \/ RemoveCategoryFromCity(r) \/ UpdateCityCategoryDisplayName(r)
           \/ DeleteTile(r) \/ CreateSubService(r)
    PROVE  GoesOn(r) /\ withdrawn' = withdrawn /\ BoundsTyped
<1>1. /\ place[r] = "idle" /\ BoundsTyped
      /\ UNCHANGED <<focus, db, cache, readVars, outdated, behind, withdrawn>>
  BY BoundsKept
  DEF DeleteCategory, RemoveCategoryFromCity, UpdateCityCategoryDisplayName, DeleteTile,
      CreateSubService, ReadOnly
<1>2. \/ \E c \in Categories, label \in {"delete", "change", "unassign"} : Move(r, label, c)
      \/ \E t \in Tiles, label \in {"drop", "link"} : Move(r, label, t)
  BY DEF DeleteCategory, RemoveCategoryFromCity, UpdateCityCategoryDisplayName, DeleteTile,
         CreateSubService, AssignedTo, CatalogueTypeOK, Tables
<1>3. ~WillClear(r)
  BY <1>1 DEF WillClear
<1>4. GoesOn(r)
  BY <1>1, <1>2, <1>3 DEF GoesOn
<1> QED BY <1>1, <1>4

\* Requests for a category are about one that exists.
LEMMA RequestsAsk ==
    ASSUME CatalogueTypeOK, NEW r \in Calls, RequestCityCategory(r) \/ HandleCategoryRequest(r)
    PROVE  Asks(r) /\ withdrawn' \subseteq Categories /\ BoundsTyped
<1> DEFINE Rows == [cat : Categories, by : Admins, status : RequestStatus]
<1>0. /\ db \in Tables /\ withdrawn \subseteq Categories /\ db.cats \subseteq Categories
      /\ db.asked \subseteq Rows /\ \A q \in db.asked : q.cat \in db.cats
  BY DEF CatalogueTypeOK, Tables, Consistent
<1>1. CASE RequestCityCategory(r)
  <2>1. PICK c \in db.cats, a \in Admins :
            db' = [db EXCEPT !.asked = @ \cup {[cat |-> c, by |-> a, status |-> "PENDING"]}]
    BY <1>1 DEF RequestCityCategory
  <2>2. PICK q : q = [cat |-> c, by |-> a, status |-> "PENDING"]
    OBVIOUS
  <2>3. q \in Rows /\ q.cat \in db.cats
    BY <1>0, <2>1, <2>2 DEF RequestStatus
  <2>4. PICK A : A = db.asked \cup {q}
    OBVIOUS
  <2>5. A \in SUBSET Rows /\ db' = [db EXCEPT !.asked = A] /\ \A x \in A : x.cat \in db.cats
    BY <1>0, <2>1, <2>2, <2>3, <2>4
  <2>6. /\ place[r] = "idle" /\ BoundsTyped /\ withdrawn' = withdrawn
        /\ Move(r, "idle", None) /\ UNCHANGED <<focus, cache, readVars, outdated, behind>>
    BY <1>1, BoundsKept DEF RequestCityCategory
  <2>7. Asks(r)
    BY <2>5, <2>6 DEF Asks
  <2> QED BY <1>0, <2>6, <2>7
<1>2. CASE HandleCategoryRequest(r)
  <2>0. PICK q \in db.asked, s \in RequestStatus :
            /\ db' = [db EXCEPT !.asked = (@ \ {q}) \cup {[q EXCEPT !.status = s]}]
            /\ IF s = "APPROVED"
               THEN Move(r, "assign", q.cat) /\ withdrawn' = withdrawn \ {q.cat}
               ELSE Move(r, "idle", None) /\ UNCHANGED withdrawn
    BY <1>2 DEF HandleCategoryRequest
  <2>1. q \in Rows /\ q.cat \in db.cats
    BY <1>0
  <2>2. PICK p : p = [q EXCEPT !.status = s]
    OBVIOUS
  <2>3. p \in Rows /\ p.cat \in db.cats
    BY <2>0, <2>1, <2>2 DEF RequestStatus
  <2>4. PICK A : A = (db.asked \ {q}) \cup {p}
    OBVIOUS
  <2>5. A \in SUBSET Rows /\ db' = [db EXCEPT !.asked = A] /\ \A x \in A : x.cat \in db.cats
    BY <1>0, <2>0, <2>2, <2>3, <2>4
  <2>6. /\ place[r] = "idle" /\ BoundsTyped /\ withdrawn' \subseteq Categories
        /\ UNCHANGED <<focus, cache, readVars, outdated, behind>>
    BY <1>0, <1>2, <2>0, BoundsKept DEF HandleCategoryRequest
  <2>7. \E label \in {"idle", "assign"}, x \in Categories \cup {None} :
            Move(r, label, x) /\ (label = "assign" => x \in Categories)
    BY <1>0, <2>0, <2>1
  <2>8. Asks(r)
    BY <2>5, <2>6, <2>7 DEF Asks
  <2> QED BY <2>6, <2>8
<1> QED BY <1>1, <1>2

\* A step of a reader changes nothing but what the reader knows; it ends with
\* a list in the cache, or fails.
LEMMA ReadersKeep ==
    ASSUME CatalogueInv, NEW r \in Calls,
           \/ ListCityCategories(r) \/ ReadCategories(r) \/ ListTiles(r) \/ GetCache(r)
           \/ ReadLinks(r) \/ ReadTiles(r)
    PROVE  CatalogueInv'
<1>0. CatalogueTypeOK /\ TargetsFit /\ ReadersKnow /\ StaleIsKnown
  BY DEF CatalogueInv
<1> USE <1>0
<1>1. UNCHANGED <<focus, db, cache, behind, withdrawn>> /\ BoundsTyped
  BY BoundsKept DEF ListCityCategories, ReadCategories, ListTiles, GetCache, ReadLinks, ReadTiles, ReadOnly
<1>2. place[r] \in {"idle", "categories", "lookup", "links", "tiles"}
  BY BoundsKept DEF ListCityCategories, ReadCategories, ListTiles, GetCache, ReadLinks, ReadTiles
<1>3. PICK label \in {"categories", "lookup", "links", "tiles", "store", "idle"} : Move(r, label, None)
  BY DEF ListCityCategories, ReadCategories, ListTiles, GetCache, EndRead, ReadLinks, ReadTiles
<1>4. /\ place'[r] = label /\ target'[r] = None
      /\ \A q \in Calls : q # r => place'[q] = place[q] /\ target'[q] = target[q]
      /\ place' \in [Calls -> Places] /\ target' \in [Calls -> Categories \cup Tiles \cup {None}]
  BY <1>3 DEF Move, CatalogueTypeOK, Places
<1>a. List' = List /\ AssignedTo(db)' = AssignedTo(db) /\ Linked(db)' = Linked(db)
  BY <1>1 DEF List, CityTree, AssignedTo, Fetched, WithoutOrphans, Roots, Tree, Closed, TileList, Linked
<1>b. db \in Tables
  BY DEF CatalogueTypeOK
<1>5. /\ snapshot' \in [Calls -> SUBSET (Categories \cup Tiles)]
      /\ search' \in [Calls -> BOOLEAN] /\ outdated' \in [Calls -> BOOLEAN]
      /\ \A q \in Calls : q # r => /\ snapshot'[q] = snapshot[q] /\ search'[q] = search[q]
                                  /\ outdated'[q] = outdated[q]
  <2>1. PICK A \in SUBSET (Categories \cup Tiles) :
            snapshot' = [snapshot EXCEPT ![r] = A] \/ snapshot' = snapshot
    BY <1>b, ListsTyped
    DEF ListCityCategories, ReadCategories, ListTiles, GetCache, EndRead, ReadLinks, ReadTiles,
        ReadOnly, readVars
  <2>2. \/ \E s \in BOOLEAN : search' = [search EXCEPT ![r] = s]
        \/ search' = search
    BY DEF ListCityCategories, ReadCategories, ListTiles, GetCache, EndRead, ReadLinks, ReadTiles,
           ReadOnly, readVars
  <2>3. outdated' = [outdated EXCEPT ![r] = FALSE] \/ outdated' = outdated
    BY DEF ListCityCategories, ReadCategories, ListTiles, GetCache, EndRead, ReadLinks, ReadTiles,
           ReadOnly, readVars
  <2> QED BY <2>1, <2>2, <2>3 DEF CatalogueTypeOK
<1>6. /\ found' \in [Calls -> SUBSET (Categories \cup Tiles)]
      /\ \A q \in Calls : q # r => found'[q] = found[q]
  <2>1. CASE ReadCategories(r)
    <3>1. PICK roots : found' = [found EXCEPT ![r] =
                          Tree(db, WithoutOrphans(db, Fetched(db, snapshot[r])), roots)]
      BY <2>1 DEF ReadCategories
    <3>2. PICK T : T = Tree(db, WithoutOrphans(db, Fetched(db, snapshot[r])), roots)
      OBVIOUS
    <3>3. T \subseteq Categories
      BY <1>b, <3>2, ListsTyped
    <3> QED BY <3>1, <3>2, <3>3 DEF CatalogueTypeOK
  <2>2. CASE ReadTiles(r)
    <3>1. found' = [found EXCEPT ![r] = TileList(db, snapshot[r])]
      BY <2>2 DEF ReadTiles
    <3>2. TileList(db, snapshot[r]) \subseteq Tiles
      BY <1>b, ListsTyped
    <3> QED BY <3>1, <3>2 DEF CatalogueTypeOK
  <2>3. CASE ListCityCategories(r) \/ ListTiles(r) \/ GetCache(r) \/ ReadLinks(r)
    BY <2>3 DEF ListCityCategories, ListTiles, GetCache, EndRead, ReadLinks, readVars, CatalogueTypeOK
  <2> QED BY <2>1, <2>2, <2>3
<1>7. CatalogueTypeOK'
  BY <1>1, <1>4, <1>5, <1>6 DEF CatalogueTypeOK, BoundsTyped
<1>8. TargetsFit'
  BY <1>3, <1>4 DEF TargetsFit
<1>9. StaleIsKnown'
  <2>1. \A q \in Calls : WillClear(q) => WillClear(q)'
    BY <1>1, <1>2, <1>4 DEF WillClear
  <2> QED BY <1>1, <1>a, <2>1 DEF StaleIsKnown
<1>10. ReadersKnow'
  <2> DEFINE Knows ==
        /\ place'[r] = "categories" => focus = "categories"
        /\ place'[r] \in {"links", "tiles"} => focus = "tiles"
        /\ ~outdated'[r] /\ ~search'[r] =>
              /\ place'[r] = "categories" => snapshot'[r] = AssignedTo(db)
              /\ place'[r] = "lookup" /\ focus = "categories" => found'[r] = List
              /\ place'[r] = "tiles" => snapshot'[r] = Linked(db)
              /\ place'[r] = "store" => found'[r] = List
  <2>1. ASSUME Knows PROVE ReadersKnow'
    BY <1>1, <1>4, <1>5, <1>6, <1>a, <2>1 DEF ReadersKnow
  <2>2. CASE ListCityCategories(r)
    <3>1. place'[r] = "categories" /\ snapshot'[r] = AssignedTo(db) /\ focus = "categories"
      BY <2>2 DEF ListCityCategories, Move, CatalogueTypeOK
    <3> QED BY <2>1, <3>1
  <2>3. CASE ReadCategories(r)
    <3>1. /\ place'[r] = "lookup" /\ place[r] = "categories"
          /\ outdated'[r] = outdated[r] /\ search'[r] = search[r]
      BY <2>3, BoundsKept DEF ReadCategories, ReadOnly, Move, CatalogueTypeOK
    <3>2. focus = "categories" /\ (~outdated[r] /\ ~search[r] => snapshot[r] = AssignedTo(db))
      BY <3>1 DEF ReadersKnow
    <3>3. ~search[r] => found'[r] = CityTree(db, snapshot[r])
      BY <2>3 DEF ReadCategories, CityTree, CatalogueTypeOK
    <3>4. ~outdated'[r] /\ ~search'[r] => found'[r] = List
      BY <3>1, <3>2, <3>3 DEF List
    <3> QED BY <2>1, <3>1, <3>2, <3>4
  <2>4. CASE ListTiles(r)
    <3>1. place'[r] = "lookup" /\ focus = "tiles"
      BY <2>4 DEF ListTiles, Move, CatalogueTypeOK
    <3> QED BY <2>1, <3>1
  <2>5. CASE GetCache(r)
    <3>1. CASE cache.full
      <4>1. place'[r] = "idle"
        BY <2>5, <3>1 DEF GetCache, EndRead, Move, CatalogueTypeOK
      <4> QED BY <2>1, <4>1
    <3>2. CASE ~cache.full
      <4>1. /\ place[r] = "lookup" /\ place'[r] = IF focus = "categories" THEN "store" ELSE "links"
            /\ UNCHANGED <<snapshot, found, search, outdated>>
        BY <2>5, <3>2, BoundsKept DEF GetCache, Move, readVars, CatalogueTypeOK
      <4>2. focus \in {"categories", "tiles"}
        BY DEF CatalogueTypeOK
      <4> QED BY <2>1, <4>1, <4>2 DEF ReadersKnow
    <3> QED BY <3>1, <3>2
  <2>6. CASE ReadLinks(r)
    <3>1. place'[r] = "tiles" /\ place[r] = "links" /\ snapshot'[r] = Linked(db)
      BY <2>6, BoundsKept DEF ReadLinks, Move, CatalogueTypeOK
    <3> QED BY <2>1, <3>1 DEF ReadersKnow
  <2>7. CASE ReadTiles(r)
    <3>1. /\ place'[r] = "store" /\ place[r] = "tiles"
          /\ outdated'[r] = outdated[r] /\ search'[r] = search[r]
          /\ found'[r] = TileList(db, snapshot[r])
      BY <2>7, BoundsKept DEF ReadTiles, ReadOnly, Move, CatalogueTypeOK
    <3>2. focus = "tiles" /\ (~outdated[r] /\ ~search[r] => snapshot[r] = Linked(db))
      BY <3>1 DEF ReadersKnow
    <3>3. ~outdated'[r] /\ ~search'[r] => found'[r] = List
      BY <3>1, <3>2 DEF List
    <3> QED BY <2>1, <3>1, <3>2, <3>3
  <2> QED BY <2>2, <2>3, <2>4, <2>5, <2>6, <2>7
<1> QED BY <1>7, <1>8, <1>9, <1>10 DEF CatalogueInv

\* What a reader stores, or leaves when it fails; the cache cleared or expired.
LEMMA CacheKeeps ==
    ASSUME CatalogueInv,
           \/ \E r \in Calls : SetCache(r) \/ Fail(r) \/ InvalidateCache(r)
           \/ ExpireCache
    PROVE  CatalogueInv'
<1>0. CatalogueTypeOK /\ TargetsFit /\ ReadersKnow /\ StaleIsKnown
  BY DEF CatalogueInv
<1> USE <1>0
<1>1. UNCHANGED <<focus, db>> /\ BoundsTyped
  <2>1. UNCHANGED <<focus, db>>
    BY DEF SetCache, Fail, InvalidateCache, ExpireCache
  <2>2. ASSUME NEW r \in Calls, Fail(r) PROVE BoundsTyped
    BY <2>2, BoundsKept DEF Fail
  <2>3. ASSUME NEW r \in Calls, SetCache(r) \/ InvalidateCache(r) PROVE BoundsTyped
    BY <2>3, BoundsKept DEF SetCache, InvalidateCache
  <2>4. ASSUME ExpireCache PROVE BoundsTyped
    BY <2>4 DEF ExpireCache, boundVars, BoundsTyped, CatalogueTypeOK
  <2> QED BY <2>1, <2>2, <2>3, <2>4
<1>a. List' = List /\ AssignedTo(db)' = AssignedTo(db) /\ Linked(db)' = Linked(db)
  BY <1>1 DEF List, CityTree, AssignedTo, Fetched, WithoutOrphans, Roots, Tree, Closed, TileList, Linked
<1>2. ASSUME NEW r \in Calls, SetCache(r) \/ Fail(r) \/ InvalidateCache(r) PROVE CatalogueInv'
  <2>1. Move(r, "idle", None)
    BY <1>2 DEF SetCache, Fail, InvalidateCache, EndRead
  <2>2. /\ place'[r] = "idle" /\ target'[r] = None
        /\ \A q \in Calls : q # r => place'[q] = place[q] /\ target'[q] = target[q]
        /\ place' \in [Calls -> Places] /\ target' \in [Calls -> Categories \cup Tiles \cup {None}]
    BY <2>1 DEF Move, CatalogueTypeOK, Places
  <2>3. /\ snapshot' \in [Calls -> SUBSET (Categories \cup Tiles)]
        /\ found' \in [Calls -> SUBSET (Categories \cup Tiles)]
        /\ search' \in [Calls -> BOOLEAN] /\ outdated' \in [Calls -> BOOLEAN]
        /\ \A q \in Calls : q # r => /\ snapshot'[q] = snapshot[q] /\ found'[q] = found[q]
                                    /\ search'[q] = search[q] /\ outdated'[q] = outdated[q]
    <3>1. \/ EndRead(r)
          \/ UNCHANGED <<snapshot, found, search, outdated>>
      BY <1>2 DEF SetCache, Fail, InvalidateCache, readVars
    <3> QED BY <3>1 DEF EndRead, CatalogueTypeOK
  <2>4. withdrawn' \subseteq Categories
    BY <1>2 DEF SetCache, Fail, InvalidateCache, CatalogueTypeOK, TargetsFit
  <2>5. behind' \in BOOLEAN /\ cache' \in [list : SUBSET (Categories \cup Tiles), raced : BOOLEAN,
                                           search : BOOLEAN, full : BOOLEAN]
    <3>1. CASE SetCache(r)
      BY <3>1 DEF SetCache, CatalogueTypeOK
    <3>2. CASE Fail(r)
      BY <3>2 DEF Fail, CatalogueTypeOK
    <3>3. CASE InvalidateCache(r)
      BY <3>3 DEF InvalidateCache, NoCache
    <3> QED BY <1>2, <3>1, <3>2, <3>3
  <2>6. CatalogueTypeOK'
    BY <1>1, <2>2, <2>3, <2>4, <2>5 DEF CatalogueTypeOK, BoundsTyped
  <2>7. TargetsFit'
    BY <2>2 DEF TargetsFit
  <2>8. ReadersKnow'
    BY <1>1, <1>a, <2>2, <2>3 DEF ReadersKnow
  <2>9. StaleIsKnown'
    <3>1. CASE SetCache(r)
      <4>1. /\ cache'.list = found[r] /\ cache'.raced = outdated[r] /\ cache'.search = search[r]
            /\ place[r] = "store"
        BY <3>1, BoundsKept DEF SetCache
      <4> QED BY <1>a, <4>1 DEF StaleIsKnown, ReadersKnow
    <3>2. CASE Fail(r)
      <4>1. /\ cache' = cache
            /\ behind' = (behind \/ (cache.full /\ place[r] \in {"invalidate", "map"}))
        BY <3>2 DEF Fail
      <4>2. cache.full /\ ~behind' => ~WillClear(r) /\ ~behind
        BY <4>1 DEF WillClear
      <4>3. \A q \in Calls : q # r /\ WillClear(q) => WillClear(q)'
        BY <1>1, <2>2 DEF WillClear
      <4> QED BY <1>a, <4>1, <4>2, <4>3 DEF StaleIsKnown
    <3>3. CASE InvalidateCache(r)
      BY <3>3 DEF InvalidateCache, NoCache, StaleIsKnown
    <3> QED BY <1>2, <3>1, <3>2, <3>3
  <2> QED BY <2>6, <2>7, <2>8, <2>9 DEF CatalogueInv
<1>3. ASSUME ExpireCache PROVE CatalogueInv'
  <2>1. /\ UNCHANGED <<place, target, snapshot, found, search, outdated, withdrawn>>
        /\ cache' = NoCache /\ behind' = FALSE
    BY <1>3 DEF ExpireCache, readVars
  <2>2. CatalogueTypeOK'
    BY <1>1, <2>1 DEF CatalogueTypeOK, BoundsTyped, NoCache
  <2>3. TargetsFit'
    BY <2>1 DEF TargetsFit
  <2>4. ReadersKnow'
    BY <1>1, <1>a, <2>1 DEF ReadersKnow
  <2>5. StaleIsKnown'
    BY <2>1 DEF StaleIsKnown, NoCache
  <2> QED BY <2>2, <2>3, <2>4, <2>5 DEF CatalogueInv
<1> QED BY <1>2, <1>3

\* The initial tables are consistent, and nothing is cached.
LEMMA CatalogueStarts == CatalogueInit => CatalogueInv
<1> SUFFICES ASSUME CatalogueInit PROVE CatalogueInv
  OBVIOUS
<1>1. db \in Tables
  BY DEF CatalogueInit, InitialTables, Tables
<1>2. Consistent(db)
  <2>1. /\ db.active = db.cats /\ db.live = db.tiles /\ db.asked = {}
        /\ \A c \in Categories : db.assigned[c] \in {"on", None}
    BY DEF CatalogueInit, InitialTables
  <2>2. /\ \A c \in Categories : db.assigned[c] = "on" \/ db.parent[c] # None => c \in db.cats
        /\ \A c \in db.cats : db.parent[c] = None \/ db.parent[c] \in db.cats
    BY DEF CatalogueInit
  <2> QED BY <1>1, <2>1, <2>2 DEF Consistent
<1>3. CatalogueTypeOK
  <2>1. /\ cache \in [list : SUBSET (Categories \cup Tiles), raced : BOOLEAN,
                     search : BOOLEAN, full : BOOLEAN]
        /\ focus \in {"categories", "tiles"} /\ behind \in BOOLEAN /\ withdrawn \subseteq Categories
    BY DEF CatalogueInit, NoCache
  <2>2. /\ place \in [Calls -> Places]
        /\ target \in [Calls -> Categories \cup Tiles \cup {None}]
        /\ snapshot \in [Calls -> SUBSET (Categories \cup Tiles)]
        /\ found \in [Calls -> SUBSET (Categories \cup Tiles)]
        /\ search \in [Calls -> BOOLEAN] /\ outdated \in [Calls -> BOOLEAN]
    BY DEF CatalogueInit, Places
  <2>3. left \in 0..MaxRequests /\ failures \in 0..MaxFailures
    BY CatalogueAssumption DEF CatalogueInit
  <2> QED BY <1>1, <1>2, <2>1, <2>2, <2>3 DEF CatalogueTypeOK
<1>4. TargetsFit /\ ReadersKnow /\ StaleIsKnown
  BY DEF CatalogueInit, NoCache, TargetsFit, ReadersKnow, StaleIsKnown
<1> QED BY <1>3, <1>4 DEF CatalogueInv

\* Every step of a request, and the end of the time to live, keeps the invariant.
LEMMA CatalogueStep == CatalogueInv /\ [CatalogueNext]_catalogueVars => CatalogueInv'
<1> SUFFICES ASSUME CatalogueInv, [CatalogueNext]_catalogueVars PROVE CatalogueInv'
  OBVIOUS
<1>0. CatalogueTypeOK /\ TargetsFit /\ withdrawn \subseteq Categories
  BY DEF CatalogueInv, CatalogueTypeOK
<1>1. CASE UNCHANGED catalogueVars
  <2>1. UNCHANGED <<focus, db, cache, place, target, snapshot, found, search, outdated, behind,
                    withdrawn, left, failures>>
    BY <1>1 DEF catalogueVars, readVars, boundVars
  <2>2. CatalogueTypeOK' /\ TargetsFit'
    BY <1>0, <2>1 DEF CatalogueTypeOK, TargetsFit
  <2>3. List' = List /\ AssignedTo(db)' = AssignedTo(db) /\ Linked(db)' = Linked(db)
    BY <2>1 DEF List, CityTree, AssignedTo, Fetched, WithoutOrphans, Roots, Tree, Closed, TileList, Linked
  <2>4. ReadersKnow'
    BY <2>1, <2>3 DEF CatalogueInv, ReadersKnow
  <2>5. \A q \in Calls : WillClear(q)' <=> WillClear(q)
    BY <2>1 DEF WillClear
  <2>6. StaleIsKnown'
    BY <2>1, <2>3, <2>5 DEF CatalogueInv, StaleIsKnown
  <2> QED BY <2>2, <2>4, <2>6 DEF CatalogueInv
<1>2. ASSUME NEW r \in Calls, CallStep(r) PROVE CatalogueInv'
  <2>1. CASE InvalidateCache(r) \/ Fail(r) \/ SetCache(r)
    BY <2>1, CacheKeeps
  <2>2. CASE \/ ListCityCategories(r) \/ ReadCategories(r) \/ ListTiles(r) \/ GetCache(r)
             \/ ReadLinks(r) \/ ReadTiles(r)
    BY <2>2, ReadersKeep
  <2>3. CASE \/ CreateCategory(r) \/ UpdateCategory(r) \/ AssignCategoryToCity(r)
             \/ CreateTile(r) \/ UpdateTile(r) \/ UpdateSubService(r) \/ DeleteTileSubService(r)
    BY <1>0, <2>3, OperationsWrite, WritesKeep
  <2>4. CASE \/ MapCategory(r) \/ RemoveCategory(r) \/ Unassign(r) \/ ChangeCityCategory(r)
             \/ AssignApproved(r) \/ DropTile(r) \/ LinkTile(r)
    BY <1>0, <2>4, SecondStepsWrite, WritesKeep, GoesOnKeeps
  <2>5. CASE \/ DeleteCategory(r) \/ RemoveCategoryFromCity(r) \/ UpdateCityCategoryDisplayName(r)
             \/ DeleteTile(r) \/ CreateSubService(r)
    BY <1>0, <2>5, FirstStepsGoOn, GoesOnKeeps
  <2>6. CASE RequestCityCategory(r) \/ HandleCategoryRequest(r)
    BY <1>0, <2>6, RequestsAsk, AsksKeeps
  <2> QED BY <1>2, <2>1, <2>2, <2>3, <2>4, <2>5, <2>6 DEF CallStep
<1>3. CASE ExpireCache
  BY <1>3, CacheKeeps
<1> QED BY <1>1, <1>2, <1>3 DEF CatalogueNext

\* It holds of every behaviour.
LEMMA CatalogueInvariant == CatalogueSpec => []CatalogueInv
BY CatalogueStarts, CatalogueStep, PTL DEF CatalogueSpec

\* Whatever requests overlap and fail, the cached list of categories or tiles
\* is what the tables say, but for a search, for a request that is about to
\* clear the cache or failed to, for one that does not clear it, and for a
\* reader that was overtaken.
THEOREM CacheFollowsTables == CatalogueSpec => []CacheIsFresh
<1>1. CatalogueInv => CacheIsFresh
  BY DEF CatalogueInv, StaleIsKnown, WillClear, CacheIsFresh
<1> QED BY <1>1, CatalogueInvariant, PTL

\* A chain leads from a category up, and no further.
LEMMA ChainLeadsUp ==
    ASSUME NEW d \in Tables, NEW c \in Categories
    PROVE  /\ c \in Chain(d, c)
           /\ Chain(d, c) \subseteq Categories \cup {None}
           /\ \A y \in Chain(d, c) \ {None} : d.parent[y] \in Chain(d, c)
           /\ \A X \in SUBSET (Categories \cup {None}) :
                 c \in X /\ (\A y \in X \ {None} : d.parent[y] \in X) => Chain(d, c) \subseteq X
<1>1. \A y \in Categories : d.parent[y] \in Categories \cup {None}
  BY DEF Tables
<1>2. c \in Chain(d, c) /\ Chain(d, c) \subseteq Categories \cup {None}
  BY DEF Chain
<1>3. ASSUME NEW y \in Chain(d, c) \ {None} PROVE d.parent[y] \in Chain(d, c)
  <2>1. d.parent[y] \in Categories \cup {None}
    BY <1>1, <1>2, <1>3
  <2>2. ASSUME NEW X \in SUBSET (Categories \cup {None}), c \in X,
               \A x \in X \ {None} : d.parent[x] \in X
        PROVE  d.parent[y] \in X
    <3>1. y \in X
      BY <1>3, <2>2 DEF Chain
    <3> QED BY <2>2, <3>1
  <2> QED BY <2>1, <2>2 DEF Chain
<1>4. ASSUME NEW X \in SUBSET (Categories \cup {None}), c \in X,
             \A y \in X \ {None} : d.parent[y] \in X
      PROVE  Chain(d, c) \subseteq X
  BY <1>4 DEF Chain
<1> QED BY <1>2, <1>3, <1>4

\* The chain of a category is the category and the chain of its parent.
LEMMA ChainOfParent ==
    ASSUME NEW d \in Tables, NEW c \in Categories, d.parent[c] \in Categories
    PROVE  Chain(d, c) = {c} \cup Chain(d, d.parent[c])
<1> DEFINE p == d.parent[c]
<1>1. /\ p \in Chain(d, p) /\ Chain(d, p) \subseteq Categories \cup {None}
      /\ \A y \in Chain(d, p) \ {None} : d.parent[y] \in Chain(d, p)
      /\ \A X \in SUBSET (Categories \cup {None}) :
            p \in X /\ (\A y \in X \ {None} : d.parent[y] \in X) => Chain(d, p) \subseteq X
  BY ChainLeadsUp
<1>2. /\ c \in Chain(d, c) /\ Chain(d, c) \subseteq Categories \cup {None}
      /\ \A y \in Chain(d, c) \ {None} : d.parent[y] \in Chain(d, c)
      /\ \A X \in SUBSET (Categories \cup {None}) :
            c \in X /\ (\A y \in X \ {None} : d.parent[y] \in X) => Chain(d, c) \subseteq X
  BY ChainLeadsUp
<1>3. c # None
  BY CatalogueAssumption
<1>4. Chain(d, p) \subseteq Chain(d, c)
  BY <1>1, <1>2, <1>3
<1>5. Chain(d, c) \subseteq {c} \cup Chain(d, p)
  <2> DEFINE X == {c} \cup Chain(d, p)
  <2>1. X \in SUBSET (Categories \cup {None}) /\ c \in X
    BY <1>1
  <2>2. \A y \in X \ {None} : d.parent[y] \in X
    BY <1>1
  <2> QED BY <1>2, <2>1, <2>2
<1> QED BY <1>2, <1>4, <1>5

\* What is left without orphans has its parents, and is the most that has.
LEMMA OrphansAreOut ==
    ASSUME NEW d, NEW S
    PROVE  /\ WithoutOrphans(d, S) \subseteq S
           /\ \A c \in WithoutOrphans(d, S) :
                 d.parent[c] = None \/ d.parent[c] \in WithoutOrphans(d, S)
           /\ \A X \in SUBSET S :
                 (\A c \in X : d.parent[c] = None \/ d.parent[c] \in X) => X \subseteq WithoutOrphans(d, S)
<1>1. WithoutOrphans(d, S) \subseteq S
  BY DEF WithoutOrphans
<1>2. ASSUME NEW X \in SUBSET S, \A c \in X : d.parent[c] = None \/ d.parent[c] \in X
      PROVE  X \subseteq WithoutOrphans(d, S)
  BY <1>2 DEF WithoutOrphans
<1>3. ASSUME NEW c \in WithoutOrphans(d, S)
      PROVE  d.parent[c] = None \/ d.parent[c] \in WithoutOrphans(d, S)
  <2>1. PICK X \in SUBSET S : c \in X /\ \A x \in X : d.parent[x] = None \/ d.parent[x] \in X
    BY DEF WithoutOrphans
  <2> QED BY <1>2, <2>1
<1> QED BY <1>1, <1>2, <1>3

\* The tree of consistent tables shows exactly the whole chains.
LEMMA TreeIsWhole ==
    ASSUME db \in Tables, Consistent(db), NEW c \in db.cats
    PROVE  c \in CityTree(db, AssignedTo(db)) <=>
              /\ None \in Chain(db, c)
              /\ Chain(db, c) \ {None} \subseteq db.active \cap AssignedTo(db)
<1> DEFINE A == AssignedTo(db)
           F == Fetched(db, A)
           S == WithoutOrphans(db, F)
           R == Roots(db, S)
           Whole(x) == /\ None \in Chain(db, x)
                       /\ Chain(db, x) \ {None} \subseteq db.active \cap A
<1>1. /\ db.cats \subseteq Categories /\ A \subseteq db.cats /\ None \notin Categories
      /\ \A x \in Categories : db.parent[x] \in Categories \cup {None}
  BY CatalogueAssumption DEF Tables, AssignedTo
<1>2. \A x : x \in F <=> /\ x \in db.cats /\ x \in A /\ x \in db.active
                         /\ db.parent[x] = None \/ db.parent[x] \in db.active \cap A
  BY DEF Fetched
<1>3. /\ S \subseteq F
      /\ \A x \in S : db.parent[x] = None \/ db.parent[x] \in S
      /\ \A X \in SUBSET F : (\A x \in X : db.parent[x] = None \/ db.parent[x] \in X) => X \subseteq S
  BY OrphansAreOut
<1>4. S \subseteq Categories
  BY <1>1, <1>2, <1>3
<1>5. \A x : x \in Tree(db, S, R) <=>
                x \in S /\ \A X \in SUBSET S : R \subseteq X /\ Closed(db, S, X) => x \in X
  BY DEF Tree
<1>6. c \in Categories
  BY <1>1
<1>7. ASSUME Whole(c) PROVE c \in Tree(db, S, R)
  <2> DEFINE Y == Chain(db, c) \ {None}
  <2>1. /\ c \in Chain(db, c) /\ Chain(db, c) \subseteq Categories \cup {None}
        /\ \A y \in Chain(db, c) \ {None} : db.parent[y] \in Chain(db, c)
        /\ \A X \in SUBSET (Categories \cup {None}) :
              c \in X /\ (\A y \in X \ {None} : db.parent[y] \in X) => Chain(db, c) \subseteq X
    BY <1>6, ChainLeadsUp
  <2>2. Y \subseteq S
    <3>1. Y \subseteq F
      BY <1>1, <1>2, <1>7, <2>1
    <3>2. \A y \in Y : db.parent[y] = None \/ db.parent[y] \in Y
      BY <2>1
    <3> QED BY <1>3, <3>1, <3>2
  <2>3. ASSUME NEW X \in SUBSET S, R \subseteq X, Closed(db, S, X) PROVE c \in X
    <3> SUFFICES ASSUME c \notin X PROVE FALSE
      OBVIOUS
    <3> DEFINE Z == Y \ X
    <3>1. Z \in SUBSET (Categories \cup {None}) /\ c \in Z
      BY <1>1, <1>6, <2>1
    <3>2. ASSUME NEW y \in Z PROVE db.parent[y] \in Z
      <4>1. y \in S /\ y \notin R /\ y \notin X
        BY <2>2, <2>3, <3>2
      <4>2. db.parent[y] \in S
        BY <4>1 DEF Roots
      <4>3. db.parent[y] # None
        BY <1>1, <1>4, <4>2
      <4>4. db.parent[y] \notin X
        BY <2>3, <4>1 DEF Closed
      <4> QED BY <2>1, <3>2, <4>3, <4>4
    <3>3. Chain(db, c) \subseteq Z
      BY <2>1, <3>1, <3>2
    <3> QED BY <1>7, <3>3
  <2> QED BY <1>5, <2>1, <2>2, <2>3, <1>1, <1>6
<1>8. ASSUME c \in Tree(db, S, R) PROVE Whole(c)
  <2> DEFINE K == {x \in S : Whole(x)}
  <2>1. R \subseteq K
    <3> SUFFICES ASSUME NEW x \in R PROVE x \in K
      OBVIOUS
    <3>1. x \in S /\ db.parent[x] = None
      BY <1>3 DEF Roots
    <3>2. /\ x \in Chain(db, x) /\ \A y \in Chain(db, x) \ {None} : db.parent[y] \in Chain(db, x)
          /\ \A X \in SUBSET (Categories \cup {None}) :
                x \in X /\ (\A y \in X \ {None} : db.parent[y] \in X) => Chain(db, x) \subseteq X
      BY <1>4, <3>1, ChainLeadsUp
    <3>3. Chain(db, x) \subseteq {x, None}
      <4> DEFINE X == {x, None}
      <4>1. X \in SUBSET (Categories \cup {None}) /\ \A y \in X \ {None} : db.parent[y] \in X
        BY <1>4, <3>1
      <4> QED BY <3>2, <4>1
    <3>4. None \in Chain(db, x)
      BY <1>1, <1>4, <3>1, <3>2
    <3>5. x \in db.active \cap A
      BY <1>2, <1>3, <3>1
    <3> QED BY <3>1, <3>3, <3>4, <3>5
  <2>2. Closed(db, S, K)
    <3> SUFFICES ASSUME NEW x \in S, db.parent[x] \in K PROVE Whole(x)
      BY DEF Closed
    <3>1. x \in Categories /\ db.parent[x] \in Categories /\ Whole(db.parent[x])
      BY <1>4
    <3>2. Chain(db, x) = {x} \cup Chain(db, db.parent[x])
      BY <3>1, ChainOfParent
    <3>3. x \in db.active \cap A
      BY <1>2, <1>3
    <3> QED BY <3>1, <3>2, <3>3
  <2>3. K \in SUBSET S
    OBVIOUS
  <2> HIDE DEF K
  <2>4. c \in K
    BY <1>5, <1>8, <2>1, <2>2, <2>3
  <2> QED BY <2>4 DEF K
<1> QED BY <1>7, <1>8 DEF CityTree

\* Whatever parents a category is given, and however assignments change, the
\* list of a city's categories shows one exactly if all its parents, up to a
\* root, are active and assigned: no orphan is shown as a root.
THEOREM TreesAreWhole == CatalogueSpec => []TreeShowsWholeChains
<1>1. CatalogueInv => TreeShowsWholeChains
  BY TreeIsWhole DEF CatalogueInv, CatalogueTypeOK, TreeShowsWholeChains
<1> QED BY <1>1, CatalogueInvariant, PTL

\* An approval holds as long as no request is approved and no assignment ends
\* without a note, and a request that is to assign goes on or is done.
LEMMA ApprovedSafe ==
    ASSUME ApprovedIsAssigned,
           \A q \in db'.asked : q.status = "APPROVED" => q \in db.asked,
           \A c \in Categories : db.assigned[c] = "on" => db'.assigned[c] = "on" \/ c \in withdrawn'
                                    \/ \A q \in db'.asked : q.cat # c,
           \A q \in db'.asked : q.cat \in Categories,
           withdrawn \subseteq withdrawn',
           \A r \in Calls : place[r] = "assign" =>
              \/ place'[r] = "assign" /\ target'[r] = target[r]
              \/ target[r] \in withdrawn'
              \/ db'.assigned[target[r]] = "on"
              \/ \A q \in db'.asked : q.cat # target[r]
    PROVE  ApprovedIsAssigned'
<1> SUFFICES ASSUME NEW q \in db'.asked, q.status = "APPROVED"
             PROVE  \/ db'.assigned[q.cat] = "on"
                    \/ q.cat \in withdrawn'
                    \/ \E r \in Calls : place'[r] = "assign" /\ target'[r] = q.cat
  BY DEF ApprovedIsAssigned
<1>1. q \in db.asked /\ q.cat \in Categories
  OBVIOUS
<1>2. CASE db.assigned[q.cat] = "on"
  BY <1>1, <1>2
<1>3. CASE q.cat \in withdrawn
  BY <1>3
<1>4. CASE \E r \in Calls : place[r] = "assign" /\ target[r] = q.cat
  BY <1>4
<1> QED BY <1>1, <1>2, <1>3, <1>4 DEF ApprovedIsAssigned

\* No step but the last of an approval leaves one without its assignment.
ApprovalsKept ==
    /\ withdrawn \subseteq withdrawn'
    /\ \A q \in db'.asked : q.status = "APPROVED" => q \in db.asked
    /\ \A c \in Categories : db.assigned[c] = "on" =>
          db'.assigned[c] = "on" \/ c \in withdrawn' \/ \A q \in db'.asked : q.cat # c

\* Who is not about to assign an approved category leaves that to the others.
LEMMA ApprovedElsewhere ==
    ASSUME CatalogueTypeOK, CatalogueTypeOK', ApprovedIsAssigned, ApprovalsKept, NEW r \in Calls,
           place[r] # "assign", \E label, x : Move(r, label, x)
    PROVE  ApprovedIsAssigned'
<1>1. \A q \in db'.asked : q.cat \in Categories
  BY DEF CatalogueTypeOK, Tables
<1>2. \A q \in Calls : place[q] = "assign" => place'[q] = "assign" /\ target'[q] = target[q]
  BY DEF Move, CatalogueTypeOK
<1> QED BY <1>1, <1>2, ApprovedSafe DEF ApprovalsKept

\* That is every request but those that approve, assign or fail.
LEMMA RowsKept ==
    ASSUME CatalogueTypeOK, NEW r \in Calls, CallStep(r), ~AssignApproved(r), ~Fail(r),
           ~HandleCategoryRequest(r), TargetsFit
    PROVE  ApprovalsKept /\ place[r] # "assign" /\ \E label, x : Move(r, label, x)
<1> DEFINE c == target[r]
<1> USE DEF ThenInvalidate, LeaveCache
<1>0. db \in Tables /\ db.cats \subseteq Categories /\ withdrawn \subseteq Categories
  BY DEF CatalogueTypeOK, Tables
<1>a. ASSUME db' = db, withdrawn' = withdrawn PROVE ApprovalsKept
  BY <1>a DEF ApprovalsKept
<1>b. ASSUME NEW d, Write(d), d.asked = db.asked, d.assigned = db.assigned, withdrawn' = withdrawn
      PROVE  ApprovalsKept
  BY <1>b DEF Write, ApprovalsKept
<1>c. ASSUME NEW x \in Categories, NEW s \in {"on", "off"}, Write([db EXCEPT !.assigned[x] = s]),
             s = "on" \/ db.assigned[x] # "on" \/ x \in withdrawn', withdrawn \subseteq withdrawn'
      PROVE  ApprovalsKept
  <2>1. db' = [db EXCEPT !.assigned[x] = s]
    BY <1>c DEF Write
  <2>2. db'.asked = db.asked /\ db'.assigned = [db.assigned EXCEPT ![x] = s]
    BY <1>0, <2>1 DEF Tables
  <2>3. db.assigned \in [Categories -> {"on", "off", None}]
    BY <1>0 DEF Tables
  <2> QED BY <1>c, <2>2, <2>3 DEF ApprovalsKept
<1>d. ASSUME withdrawn' = withdrawn, \/ \E A : Write([db EXCEPT !.active = A])
                                    \/ \E p : Write([db EXCEPT !.parent = p])
      PROVE  ApprovalsKept
  <2>1. ASSUME NEW A PROVE /\ [db EXCEPT !.active = A].asked = db.asked
                           /\ [db EXCEPT !.active = A].assigned = db.assigned
    BY <1>0 DEF Tables
  <2>2. ASSUME NEW p PROVE /\ [db EXCEPT !.parent = p].asked = db.asked
                           /\ [db EXCEPT !.parent = p].assigned = db.assigned
    BY <1>0 DEF Tables
  <2> QED BY <1>b, <1>d, <2>1, <2>2
<1>e. ASSUME withdrawn' = withdrawn, NEW T, \/ Write([db EXCEPT !.tiles = T])
                                           \/ Write([db EXCEPT !.live = T])
                                           \/ Write([db EXCEPT !.links = T])
                                           \/ \E L : Write([db EXCEPT !.tiles = T, !.live = L])
      PROVE  ApprovalsKept
  <2> DEFINE Keeps(d) == d.asked = db.asked /\ d.assigned = db.assigned
  <2>1. Keeps([db EXCEPT !.tiles = T]) /\ Keeps([db EXCEPT !.live = T]) /\ Keeps([db EXCEPT !.links = T])
    BY <1>0 DEF Tables
  <2>2. ASSUME NEW L PROVE Keeps([db EXCEPT !.tiles = T, !.live = L])
    BY <1>0 DEF Tables
  <2>3. PICK d : Write(d) /\ Keeps(d)
    BY <1>e, <2>1, <2>2
  <2> QED BY <1>b, <1>e, <2>3
<1>1. CASE \/ InvalidateCache(r) \/ ListCityCategories(r) \/ ReadCategories(r) \/ ListTiles(r)
           \/ GetCache(r) \/ ReadLinks(r) \/ ReadTiles(r) \/ SetCache(r)
  <2>1. db' = db /\ withdrawn' = withdrawn /\ \E label, x : Move(r, label, x)
    BY <1>1
    DEF InvalidateCache, ListCityCategories, ReadCategories, ListTiles, GetCache, ReadLinks,
        ReadTiles, SetCache, ReadOnly, EndRead
  <2>2. place[r] # "assign"
    BY <1>1, BoundsKept
    DEF InvalidateCache, ListCityCategories, ReadCategories, ListTiles, GetCache, ReadLinks,
        ReadTiles, SetCache
  <2> QED BY <1>a, <2>1, <2>2
<1>2. CASE \/ DeleteCategory(r) \/ RemoveCategoryFromCity(r) \/ UpdateCityCategoryDisplayName(r)
           \/ DeleteTile(r) \/ CreateSubService(r)
  <2>1. db' = db /\ withdrawn' = withdrawn /\ (\E label, x : Move(r, label, x)) /\ Begin(r)
    BY <1>2
    DEF DeleteCategory, RemoveCategoryFromCity, UpdateCityCategoryDisplayName, DeleteTile,
        CreateSubService, ReadOnly
  <2> QED BY <1>a, <2>1, BoundsKept
<1>3. CASE CreateCategory(r)
  <2>1. PICK x \in Categories \ db.cats, p \in db.cats \cup {None} :
            Write([db EXCEPT !.cats = @ \cup {x}, !.active = @ \cup {x}, !.parent[x] = p])
    BY <1>3 DEF CreateCategory
  <2>2. PICK d : d = [db EXCEPT !.cats = @ \cup {x}, !.active = @ \cup {x}, !.parent[x] = p]
    OBVIOUS
  <2>3. d.asked = db.asked /\ d.assigned = db.assigned
    BY <1>0, <2>2 DEF Tables
  <2>4. withdrawn' = withdrawn /\ Begin(r) /\ \E label, y : Move(r, label, y)
    BY <1>3 DEF CreateCategory
  <2> QED BY <1>b, <2>1, <2>2, <2>3, <2>4, BoundsKept
<1>4. CASE UpdateCategory(r)
  <2>1. PICK x \in db.cats :
          \/ Write([db EXCEPT !.active = IF x \in @ THEN @ \ {x} ELSE @ \cup {x}])
          \/ \E p \in db.cats \cup {None} : Write([db EXCEPT !.parent[x] = p])
    BY <1>4 DEF UpdateCategory
  <2>2. \/ \E A : Write([db EXCEPT !.active = A])
        \/ \E p : Write([db EXCEPT !.parent = p])
    BY <2>1
  <2>3. withdrawn' = withdrawn /\ Begin(r) /\ \E label, y : Move(r, label, y)
    BY <1>4 DEF UpdateCategory
  <2> QED BY <1>d, <2>2, <2>3, BoundsKept
<1>5. CASE CreateTile(r) \/ UpdateTile(r) \/ UpdateSubService(r) \/ DeleteTileSubService(r)
  <2>1. withdrawn' = withdrawn /\ Begin(r) /\ \E label, y : Move(r, label, y)
    BY <1>5 DEF CreateTile, UpdateTile, UpdateSubService, DeleteTileSubService
  <2>2. \E T : \/ Write([db EXCEPT !.tiles = T])
              \/ Write([db EXCEPT !.live = T])
              \/ Write([db EXCEPT !.links = T])
              \/ \E L : Write([db EXCEPT !.tiles = T, !.live = L])
    BY <1>5, Zenon DEF CreateTile, UpdateTile, UpdateSubService, DeleteTileSubService
  <2> QED BY <1>e, <2>1, <2>2, BoundsKept
<1>6. CASE DropTile(r) \/ LinkTile(r)
  <2>1. withdrawn' = withdrawn /\ place[r] # "assign" /\ \E label, y : Move(r, label, y)
    BY <1>6, BoundsKept DEF DropTile, LinkTile, Refused, ReadOnly
  <2>2. \/ db' = db
        \/ \E T : \/ Write([db EXCEPT !.links = T])
                 \/ \E L : Write([db EXCEPT !.tiles = T, !.live = L])
    BY <1>6, Zenon DEF DropTile, LinkTile, Refused, ReadOnly
  <2> QED BY <1>a, <1>e, <2>1, <2>2
<1>7. CASE AssignCategoryToCity(r)
  <2>1. PICK x \in db.cats : Write([db EXCEPT !.assigned[x] = "on"])
    BY <1>7 DEF AssignCategoryToCity, Assign
  <2>2. withdrawn' = withdrawn /\ Begin(r) /\ \E label, y : Move(r, label, y)
    BY <1>7 DEF AssignCategoryToCity
  <2>3. x \in Categories
    BY <1>0
  <2> QED BY <1>c, <2>1, <2>2, <2>3, BoundsKept
<1>8. CASE MapCategory(r)
  <2>1. c \in Categories /\ place[r] = "map" /\ withdrawn' = withdrawn /\ \E label, y : Move(r, label, y)
    BY <1>8, BoundsKept DEF MapCategory, TargetsFit, Refused, ReadOnly
  <2>2. CASE db' = db
    BY <1>a, <2>1, <2>2
  <2>3. CASE db' # db
    <3>1. PICK s \in {"on", "off"} : /\ db.assigned[c] = None
                                     /\ Write([db EXCEPT !.assigned[c] = s])
      BY <1>8, <2>3 DEF MapCategory, Write, Refused, ReadOnly
    <3>2. db.assigned[c] # "on"
      BY <3>1 DEF None
    <3> QED BY <1>c, <2>1, <3>1, <3>2
  <2> QED BY <2>2, <2>3
<1>9. CASE Unassign(r)
  <2>1. c \in Categories /\ place[r] = "unassign" /\ \E label, y : Move(r, label, y)
    BY <1>9, BoundsKept DEF Unassign, TargetsFit, Refused
  <2>2. CASE db.assigned[c] # None
    <3>1. Write([db EXCEPT !.assigned[c] = "off"]) /\ withdrawn' = withdrawn \cup {c}
      BY <1>9, <2>2 DEF Unassign
    <3> QED BY <1>c, <2>1, <3>1
  <2>3. CASE db.assigned[c] = None
    <3>1. db' = db /\ withdrawn' = withdrawn
      BY <1>9, <2>3 DEF Unassign, Refused, ReadOnly
    <3> QED BY <1>a, <2>1, <3>1
  <2> QED BY <2>2, <2>3
<1>10. CASE ChangeCityCategory(r)
  <2>1. c \in Categories /\ place[r] = "change" /\ \E label, y : Move(r, label, y)
    BY <1>10, BoundsKept DEF ChangeCityCategory, TargetsFit, Refused
  <2>2. CASE db.assigned[c] # None
    <3>1. PICK s \in {"on", "off"} :
              /\ Write([db EXCEPT !.assigned[c] = s])
              /\ withdrawn' = IF s = "off" THEN withdrawn \cup {c} ELSE withdrawn
      BY <1>10, <2>2 DEF ChangeCityCategory
    <3>2. withdrawn \subseteq withdrawn' /\ (s = "on" \/ c \in withdrawn')
      BY <3>1
    <3> QED BY <1>c, <2>1, <3>1, <3>2
  <2>3. CASE db.assigned[c] = None
    <3>1. db' = db /\ withdrawn' = withdrawn
      BY <1>10, <2>3 DEF ChangeCityCategory, Refused, ReadOnly
    <3> QED BY <1>a, <2>1, <3>1
  <2> QED BY <2>2, <2>3
<1>11. CASE RemoveCategory(r)
  <2>1. /\ c \in Categories /\ place[r] = "delete" /\ withdrawn' = withdrawn
        /\ \E label, y : Move(r, label, y)
    BY <1>11, BoundsKept DEF RemoveCategory, TargetsFit, Refused, ReadOnly
  <2>2. CASE c \in db.cats
    <3>1. db' = WithoutCategory(db, c)
      BY <1>11, <2>2 DEF RemoveCategory, Write
    <3>2. /\ db'.assigned = [db.assigned EXCEPT ![c] = None]
          /\ db'.asked = {q \in db.asked : q.cat # c}
      BY <1>0, <3>1 DEF WithoutCategory, Tables
    <3>3. db.assigned \in [Categories -> {"on", "off", None}]
      BY <1>0 DEF Tables
    <3> QED BY <2>1, <3>2, <3>3 DEF ApprovalsKept
  <2>3. CASE c \notin db.cats
    BY <1>11, <1>a, <2>1, <2>3 DEF RemoveCategory, Refused, ReadOnly
  <2> QED BY <2>2, <2>3
<1>12. CASE RequestCityCategory(r)
  <2>1. PICK x \in db.cats, a \in Admins :
            db' = [db EXCEPT !.asked = @ \cup {[cat |-> x, by |-> a, status |-> "PENDING"]}]
    BY <1>12 DEF RequestCityCategory
  <2>2. db'.asked = db.asked \cup {[cat |-> x, by |-> a, status |-> "PENDING"]}
        /\ db'.assigned = db.assigned
    BY <1>0, <2>1 DEF Tables
  <2>3. withdrawn' = withdrawn /\ Begin(r) /\ \E label, y : Move(r, label, y)
    BY <1>12 DEF RequestCityCategory
  <2> QED BY <2>2, <2>3, BoundsKept DEF ApprovalsKept
<1> QED BY <1>1, <1>2, <1>3, <1>4, <1>5, <1>6, <1>7, <1>8, <1>9, <1>10, <1>11, <1>12 DEF CallStep

\* Those that do come to the same.
LEMMA ApprovedStep ==
    CatalogueInv /\ CatalogueInv' /\ ApprovedIsAssigned /\ [CatalogueNext]_catalogueVars
        => ApprovedIsAssigned'
<1> SUFFICES ASSUME CatalogueInv, CatalogueInv', ApprovedIsAssigned, [CatalogueNext]_catalogueVars
             PROVE  ApprovedIsAssigned'
  OBVIOUS
<1>0. CatalogueTypeOK /\ CatalogueTypeOK' /\ TargetsFit
  BY DEF CatalogueInv
<1>a. /\ db \in Tables /\ Consistent(db) /\ withdrawn \subseteq Categories
      /\ db.cats \subseteq Categories /\ \A q \in db.asked : q.cat \in db.cats
  BY <1>0 DEF CatalogueTypeOK, Tables, Consistent
<1>1. CASE UNCHANGED catalogueVars \/ ExpireCache
  BY <1>1 DEF catalogueVars, ExpireCache, ApprovedIsAssigned
<1>2. ASSUME NEW r \in Calls, CallStep(r), ~AssignApproved(r), ~Fail(r), ~HandleCategoryRequest(r)
      PROVE  ApprovedIsAssigned'
  BY <1>0, <1>2, RowsKept, ApprovedElsewhere
<1>3. ASSUME NEW r \in Calls, AssignApproved(r) PROVE ApprovedIsAssigned'
  <2> DEFINE c == target[r]
  <2>1. place[r] = "assign" /\ c \in Categories
    BY <1>0, <1>3, BoundsKept DEF AssignApproved, TargetsFit
  <2>2. Move(r, "idle", None) /\ withdrawn' = withdrawn
    BY <1>3 DEF AssignApproved, LeaveCache, Refused, ReadOnly
  <2>3. \A q \in Calls : q # r => place'[q] = place[q] /\ target'[q] = target[q]
    BY <1>0, <2>2 DEF Move, CatalogueTypeOK
  <2>4. CASE c \in db.cats
    <3>1. db' = [db EXCEPT !.assigned[c] = "on"]
      BY <1>3, <2>4 DEF AssignApproved, Assign, Write
    <3>2. db'.assigned = [db.assigned EXCEPT ![c] = "on"] /\ db'.asked = db.asked
      BY <1>a, <3>1 DEF Tables
    <3>3. \A x \in Categories : x = c \/ db.assigned[x] = "on" => db'.assigned[x] = "on"
      BY <1>a, <3>2 DEF Tables
    <3>4. \A q \in db'.asked : q.cat \in Categories
      BY <1>a, <3>2
    <3> QED BY <2>2, <2>3, <3>2, <3>3, <3>4 DEF ApprovedIsAssigned
  <2>5. CASE c \notin db.cats
    <3>1. db' = db
      BY <1>3, <2>5 DEF AssignApproved, Refused, ReadOnly
    <3> QED BY <1>a, <2>2, <2>3, <2>5, <3>1 DEF ApprovedIsAssigned
  <2> QED BY <2>4, <2>5
<1>4. ASSUME NEW r \in Calls, Fail(r) PROVE ApprovedIsAssigned'
  <2>1. /\ db' = db /\ Move(r, "idle", None)
        /\ withdrawn' = IF place[r] = "assign" THEN withdrawn \cup {target[r]} ELSE withdrawn
    BY <1>4 DEF Fail, EndRead
  <2>2. \A q \in Calls : q # r => place'[q] = place[q] /\ target'[q] = target[q]
    BY <1>0, <2>1 DEF Move, CatalogueTypeOK
  <2> QED BY <2>1, <2>2 DEF ApprovedIsAssigned
<1>5. ASSUME NEW r \in Calls, HandleCategoryRequest(r) PROVE ApprovedIsAssigned'
  <2>0. PICK q \in db.asked, s \in RequestStatus :
            /\ db' = [db EXCEPT !.asked = (@ \ {q}) \cup {[q EXCEPT !.status = s]}]
            /\ IF s = "APPROVED"
               THEN Move(r, "assign", q.cat) /\ withdrawn' = withdrawn \ {q.cat}
               ELSE Move(r, "idle", None) /\ UNCHANGED withdrawn
    BY <1>5 DEF HandleCategoryRequest
  <2>1. PICK p : p = [q EXCEPT !.status = s]
    OBVIOUS
  <2>2. q \in [cat : Categories, by : Admins, status : RequestStatus]
    BY <1>a DEF Tables
  <2>3. p.cat = q.cat /\ p.status = s
    BY <2>0, <2>1, <2>2
  <2>4. db'.asked = (db.asked \ {q}) \cup {p} /\ db'.assigned = db.assigned
    BY <1>a, <2>0, <2>1 DEF Tables
  <2>5. place[r] = "idle"
    BY <1>0, <1>5, BoundsKept DEF HandleCategoryRequest
  <2>6. CASE s = "APPROVED"
    <3>1. /\ place'[r] = "assign" /\ target'[r] = q.cat
          /\ \A k \in Calls : k # r => place'[k] = place[k] /\ target'[k] = target[k]
      BY <1>0, <2>0, <2>6 DEF Move, CatalogueTypeOK
    <3>2. withdrawn' = withdrawn \ {q.cat}
      BY <2>0, <2>6
    <3>3. ASSUME NEW x \in db'.asked, x.status = "APPROVED", x.cat # q.cat
          PROVE  \/ db'.assigned[x.cat] = "on"
                 \/ x.cat \in withdrawn'
                 \/ \E k \in Calls : place'[k] = "assign" /\ target'[k] = x.cat
      <4>1. x \in db.asked
        BY <2>3, <2>4, <3>3
      <4>2. CASE \E k \in Calls : place[k] = "assign" /\ target[k] = x.cat
        BY <2>5, <3>1, <4>2
      <4>3. CASE db.assigned[x.cat] = "on" \/ x.cat \in withdrawn
        BY <2>4, <3>2, <3>3, <4>3
      <4> QED BY <3>3, <4>1, <4>2, <4>3 DEF ApprovedIsAssigned
    <3> QED BY <3>1, <3>3 DEF ApprovedIsAssigned
  <2>7. CASE s # "APPROVED"
    <3>1. Move(r, "idle", None) /\ withdrawn' = withdrawn
      BY <2>0, <2>7
    <3>2. \A k \in Calls : place[k] = "assign" => place'[k] = "assign" /\ target'[k] = target[k]
      BY <1>0, <2>5, <3>1 DEF Move, CatalogueTypeOK
    <3>3. \A x \in db'.asked : x.status = "APPROVED" => x \in db.asked
      BY <2>3, <2>4, <2>7
    <3> QED BY <2>4, <3>1, <3>2, <3>3 DEF ApprovedIsAssigned
  <2> QED BY <2>6, <2>7
<1> QED BY <1>1, <1>2, <1>3, <1>4, <1>5 DEF CatalogueNext

\* However requests for a category overlap with deletions and with changes of
\* the assignments, and whatever fails, a category whose request was approved
\* is assigned to the city, unless it was taken from it since, or the second
\* step is still to come or failed.
THEOREM ApprovalsHold == CatalogueSpec => []ApprovedIsAssigned
<1>1. CatalogueInit => ApprovedIsAssigned
  BY DEF CatalogueInit, InitialTables, ApprovedIsAssigned
<1> QED BY <1>1, ApprovedStep, CatalogueInvariant, PTL DEF CatalogueSpec
=============================================================================
