--------------------------- MODULE SchedulerProofs ---------------------------
(***************************************************************************)
(* Proofs about the scheduler, for any number of schedules and runners and *)
(* any values of the TTL, the timeout and the bounds.                      *)
(***************************************************************************)
EXTENDS Scheduler, FiniteSetTheorems, TLAPS

\* Every reachable state of the scheduler is well typed, and a runner works
\* on a schedule exactly while it is inside executeTask.
THEOREM TypeCorrect == Spec => []TypeOK
<1>1. Init => TypeOK
  BY SchedulerAssumption DEF Init, TypeOK, Pc, Executing
<1>2. TypeOK /\ [Next]_vars => TypeOK'
  <2> SUFFICES ASSUME TypeOK, [Next]_vars
               PROVE  TypeOK'
    OBVIOUS
  <2> USE SchedulerAssumption DEF TypeOK, Pc, Executing, Goto, Fault,
          Countdown, dbVars, runVars, boundVars, Leave
  <2>1. ASSUME NEW r \in Runners, AcquireLock(r) PROVE TypeOK'
    BY <2>1 DEF AcquireLock
  <2>2. ASSUME NEW r \in Runners, FetchDue(r) \/ FetchFails(r) PROVE TypeOK'
    BY <2>2 DEF FetchDue, FetchFails, Due
  <2>3. ASSUME NEW r \in Runners, StartTask(r) \/ EndLoop(r) PROVE TypeOK'
    <3>1. CASE StartTask(r)
      BY <3>1 DEF StartTask
    <3>2. CASE EndLoop(r)
      BY <3>2 DEF EndLoop
    <3> QED
      BY <2>3, <3>1, <3>2
  <2>4. ASSUME NEW r \in Runners, ReleaseLock(r) \/ ReleaseFails(r)
        PROVE  TypeOK'
    <3>1. CASE ReleaseLock(r)
      BY <3>1, SMTT(30) DEF ReleaseLock
    <3>2. CASE ReleaseFails(r)
      BY <3>2, SMTT(30) DEF ReleaseFails
    <3> QED
      BY <2>4, <3>1, <3>2
  <2>5. ASSUME NEW r \in Runners, CreateRunLog(r) \/ CreateRunLogFails(r)
        PROVE  TypeOK'
    <3>1. CASE CreateRunLog(r)
      BY <3>1, SMTT(30) DEF CreateRunLog
    <3>2. CASE CreateRunLogFails(r)
      BY <3>2, SMTT(30) DEF CreateRunLogFails
    <3> QED
      BY <2>5, <3>1, <3>2
  <2>6. ASSUME NEW r \in Runners, SendRequest(r) \/ EmitExecute(r)
        PROVE  TypeOK'
    <3>1. CASE SendRequest(r)
      BY <3>1, SMTT(30) DEF SendRequest
    <3>2. CASE EmitExecute(r)
      BY <3>2, SMTT(30) DEF EmitExecute
    <3> QED
      BY <2>6, <3>1, <3>2
  <2>7. ASSUME NEW r \in Runners,
               Reply(r) \/ ReplyError(r) \/ RequestTimeout(r)
        PROVE  TypeOK'
    <3>1. CASE Reply(r)
      BY <3>1 DEF Reply
    <3>2. CASE ReplyError(r)
      BY <3>2 DEF ReplyError
    <3>3. CASE RequestTimeout(r)
      BY <3>3 DEF RequestTimeout
    <3> QED
      BY <2>7, <3>1, <3>2, <3>3
  <2>8. ASSUME NEW r \in Runners, RecordSuccess(r) \/ RecordSuccessFails(r)
        PROVE  TypeOK'
    <3>1. CASE RecordSuccess(r)
      BY <3>1, SMTT(30) DEF RecordSuccess, Reschedule
    <3>2. CASE RecordSuccessFails(r)
      BY <3>2, SMTT(30) DEF RecordSuccessFails
    <3> QED
      BY <2>8, <3>1, <3>2
  <2>9. ASSUME NEW r \in Runners, FinishLogOk(r) \/ FinishLogOkFails(r)
        PROVE  TypeOK'
    <3>1. CASE FinishLogOk(r)
      BY <3>1, SMTT(30) DEF FinishLogOk, Return
    <3>2. CASE FinishLogOkFails(r)
      BY <3>2, SMTT(30) DEF FinishLogOkFails
    <3> QED
      BY <2>9, <3>1, <3>2
  <2>10. ASSUME NEW r \in Runners, RecordFailure(r) PROVE TypeOK'
    BY <2>10 DEF RecordFailure, Reschedule
  <2>11. ASSUME NEW r \in Runners, FinishLogFailed(r) PROVE TypeOK'
    BY <2>11, SMTT(30) DEF FinishLogFailed, Return
  <2>12. ASSUME NEW r \in Runners, CatchBlockFails(r) PROVE TypeOK'
    BY <2>12 DEF CatchBlockFails, Abort
  <2>13. ASSUME NEW r \in Runners, Crash(r) PROVE TypeOK'
    BY <2>13 DEF Crash
  <2>14. ASSUME NEW r \in Runners, NEW t \in Tasks, RunById(r, t)
         PROVE  TypeOK'
    BY <2>14 DEF RunById
  <2>15. ASSUME NEW t \in Tasks, Create(t) \/ BackfillOne(t) \/ BecomeDue(t)
         PROVE  TypeOK'
    BY <2>15 DEF Create, BackfillOne, BecomeDue
  <2>16. ASSUME StartInstance \/ AcquireLost \/ Tick PROVE TypeOK'
    <3>1. CASE StartInstance
      BY <3>1, SMTT(30) DEF StartInstance
    <3>2. CASE AcquireLost
      BY <3>2, SMTT(30) DEF AcquireLost
    <3>3. CASE Tick
      BY <3>3, SMTT(30) DEF Tick
    <3> QED
      BY <2>16, <3>1, <3>2, <3>3
  <2>17. ASSUME UNCHANGED vars PROVE TypeOK'
    BY <2>17 DEF vars
  <2> QED
    BY <2>1, <2>2, <2>3, <2>4, <2>5, <2>6, <2>7, <2>8, <2>9, <2>10, <2>11,
       <2>12, <2>13, <2>14, <2>15, <2>16, <2>17 DEF Next, Step
<1> QED
  BY <1>1, <1>2, PTL DEF Spec

-----------------------------------------------------------------------------
\* LeaseExclusive is inductive relative to the types.
LEMMA LeaseStep ==
    ASSUME TypeOK, LeaseExclusive, [Next]_vars
    PROVE  LeaseExclusive'
<1> USE SchedulerAssumption DEF TypeOK, LeaseExclusive, InCron, Pc, Executing,
        Goto, Fault, Countdown, dbVars, runVars, boundVars, Leave
<1>1. ASSUME NEW r \in Runners, AcquireLock(r) PROVE LeaseExclusive'
  BY <1>1 DEF AcquireLock
<1>2. ASSUME NEW r \in Runners,
             FetchDue(r) \/ FetchFails(r) \/ StartTask(r) \/ EndLoop(r)
      PROVE  LeaseExclusive'
  <2>1. CASE FetchDue(r) \/ FetchFails(r)
    BY <2>1 DEF FetchDue, FetchFails
  <2>2. CASE StartTask(r)
    <3>1. pc' = [pc EXCEPT ![r] = "log"] /\ UNCHANGED <<lock, lease, manual>>
      BY <2>2 DEF StartTask
    <3>2. ~manual[r]
      BY <2>2 DEF StartTask
    <3> QED
      BY <3>1, <3>2
  <2>3. CASE EndLoop(r)
    BY <2>3 DEF EndLoop
  <2> QED
    BY <1>2, <2>1, <2>2, <2>3
<1>3. ASSUME NEW r \in Runners, ReleaseLock(r) PROVE LeaseExclusive'
  BY <1>3 DEF ReleaseLock
<1>4. ASSUME NEW r \in Runners, ReleaseFails(r) PROVE LeaseExclusive'
  BY <1>4 DEF ReleaseFails
<1>5. ASSUME NEW r \in Runners,
             \/ CreateRunLog(r) \/ CreateRunLogFails(r)
             \/ SendRequest(r) \/ EmitExecute(r)
             \/ Reply(r) \/ ReplyError(r) \/ RequestTimeout(r)
      PROVE  LeaseExclusive'
  <2>1. CASE CreateRunLog(r) \/ CreateRunLogFails(r)
    BY <2>1 DEF CreateRunLog, CreateRunLogFails
  <2>2. CASE SendRequest(r)
    BY <2>2 DEF SendRequest
  <2>3. CASE EmitExecute(r)
    BY <2>3 DEF EmitExecute
  <2>4. CASE Reply(r) \/ ReplyError(r) \/ RequestTimeout(r)
    BY <2>4 DEF Reply, ReplyError, RequestTimeout
  <2> QED
    BY <1>5, <2>1, <2>2, <2>3, <2>4
<1>6. ASSUME NEW r \in Runners,
             \/ RecordSuccess(r) \/ RecordSuccessFails(r)
             \/ FinishLogOkFails(r) \/ RecordFailure(r)
      PROVE  LeaseExclusive'
  <2>1. CASE RecordSuccess(r)
    BY <2>1 DEF RecordSuccess
  <2>2. CASE RecordSuccessFails(r) \/ FinishLogOkFails(r)
    <3>1. pc' = [pc EXCEPT ![r] = "failSchedule"]
      BY <2>2 DEF RecordSuccessFails, FinishLogOkFails
    <3>2. UNCHANGED <<lock, lease, manual>>
      BY <2>2 DEF RecordSuccessFails, FinishLogOkFails
    <3>3. pc[r] \in {"okSchedule", "okLog"}
      BY <2>2 DEF RecordSuccessFails, FinishLogOkFails
    <3> QED
      BY <3>1, <3>2, <3>3
  <2>3. CASE RecordFailure(r)
    BY <2>3 DEF RecordFailure
  <2> QED
    BY <1>6, <2>1, <2>2, <2>3
<1>7. ASSUME NEW r \in Runners,
             FinishLogOk(r) \/ FinishLogFailed(r) \/ CatchBlockFails(r)
      PROVE  LeaseExclusive'
  <2>1. CASE FinishLogOk(r)
    BY <2>1 DEF FinishLogOk, Return
  <2>2. CASE FinishLogFailed(r)
    BY <2>2 DEF FinishLogFailed, Return
  <2>3. CASE CatchBlockFails(r)
    BY <2>3 DEF CatchBlockFails, Abort
  <2> QED
    BY <1>7, <2>1, <2>2, <2>3
<1>8. ASSUME NEW r \in Runners, Crash(r) PROVE LeaseExclusive'
  BY <1>8 DEF Crash
<1>9. ASSUME NEW r \in Runners, NEW t \in Tasks, RunById(r, t)
      PROVE  LeaseExclusive'
  BY <1>9 DEF RunById
<1>10. ASSUME NEW t \in Tasks, Create(t) \/ BackfillOne(t) \/ BecomeDue(t)
       PROVE  LeaseExclusive'
  BY <1>10 DEF Create, BackfillOne, BecomeDue
<1>11. ASSUME StartInstance \/ AcquireLost PROVE LeaseExclusive'
  BY <1>11 DEF StartInstance, AcquireLost
<1>12. ASSUME Tick PROVE LeaseExclusive'
  <2>1. \A r \in Runners : lease'[r] => lease[r] /\ lock > 1
    BY <1>12 DEF Tick
  <2>2. lock > 1 => lock' > 0
    BY <1>12 DEF Tick
  <2>3. UNCHANGED <<pc, manual>>
    BY <1>12 DEF Tick
  <2> QED
    BY <2>1, <2>2, <2>3
<1>13. ASSUME UNCHANGED vars PROVE LeaseExclusive'
  BY <1>13 DEF vars
<1> QED
  BY <1>1, <1>2, <1>3, <1>4, <1>5, <1>6, <1>7, <1>8, <1>9, <1>10, <1>11,
     <1>12, <1>13 DEF Next, Step

\* However many instances run the cron handler, at most one runner owns the
\* lock, and it is inside the code the lock protects.
THEOREM LockSerialisesRuns == Spec => []LeaseExclusive
<1>1. Init => LeaseExclusive
  BY DEF Init, LeaseExclusive
<1>2. TypeOK /\ LeaseExclusive /\ [Next]_vars => LeaseExclusive'
  BY LeaseStep
<1> QED
  BY <1>1, <1>2, TypeCorrect, PTL DEF Spec

-----------------------------------------------------------------------------
\* A schedule may be started: it is still due, or its time was moved by a
\* process without the lock.
Startable(t) == nextRun[t] \in {"due", "null"} \/ t \in moved

\* The strengthening of NoStaleStart: the whole list of a run that owns the
\* lock can be started, and the schedule it executes is off that list, so
\* that rescheduling it does not touch what is left; a runner that is idle
\* or executes a manual trigger has no list.
SnapshotFresh ==
    \A r \in Runners :
        /\ lease[r] => \A t \in todo[r] : Startable(t)
        /\ lease[r] /\ pc[r] = "log" => Startable(task[r])
        /\ lease[r] /\ pc[r] \in Executing => task[r] \notin todo[r]
        /\ pc[r] = "idle" \/ manual[r] => todo[r] = {}

\* A run's list is read when it owns the lock, and only what it has taken off
\* its list is rescheduled by it; others that reschedule leave a trace.
LEMMA SnapshotStep ==
    ASSUME TypeOK, LeaseExclusive, SnapshotFresh, [Next]_vars
    PROVE  SnapshotFresh'
<1> USE SchedulerAssumption DEF TypeOK, LeaseExclusive, InCron, SnapshotFresh,
        Startable, Pc, Executing, Goto, Fault, Countdown, dbVars, runVars,
        boundVars, Leave
<1>1. ASSUME NEW r \in Runners, AcquireLock(r) PROVE SnapshotFresh'
  <2>1. todo[r] = {}
    BY <1>1 DEF AcquireLock
  <2>2. /\ pc'[r] = "fetch"
        /\ \A s \in Runners \ {r} : lease'[s] = lease[s] /\ pc'[s] = pc[s]
        /\ UNCHANGED <<nextRun, todo, task, moved, manual>>
    BY <1>1 DEF AcquireLock
  <2> QED
    BY <2>1, <2>2
<1>2. ASSUME NEW r \in Runners, FetchDue(r) PROVE SnapshotFresh'
  <2>1. /\ \A t \in Due : Startable(t)'
        /\ \A t \in Tasks : Startable(t) => Startable(t)'
    BY <1>2 DEF FetchDue, Due
  <2>2. /\ pc'[r] = "loop" /\ todo'[r] = Due /\ ~manual[r]
        /\ \A s \in Runners \ {r} : pc'[s] = pc[s] /\ todo'[s] = todo[s]
        /\ UNCHANGED <<lease, task, manual>>
    BY <1>2 DEF FetchDue
  <2> HIDE DEF Startable
  <2> QED
    BY <2>1, <2>2
<1>3. ASSUME NEW r \in Runners, FetchFails(r) \/ EndLoop(r)
      PROVE  SnapshotFresh'
  BY <1>3 DEF FetchFails, EndLoop
<1>4. ASSUME NEW r \in Runners, StartTask(r) PROVE SnapshotFresh'
  BY <1>4 DEF StartTask
<1>5. ASSUME NEW r \in Runners, ReleaseLock(r) \/ ReleaseFails(r)
      PROVE  SnapshotFresh'
  BY <1>5 DEF ReleaseLock, ReleaseFails
<1>6. ASSUME NEW r \in Runners,
             \/ CreateRunLog(r) \/ CreateRunLogFails(r)
             \/ SendRequest(r) \/ EmitExecute(r)
             \/ Reply(r) \/ ReplyError(r) \/ RequestTimeout(r)
             \/ RecordSuccessFails(r) \/ FinishLogOkFails(r)
      PROVE  SnapshotFresh'
  BY <1>6 DEF CreateRunLog, CreateRunLogFails, SendRequest, EmitExecute,
              Reply, ReplyError, RequestTimeout, RecordSuccessFails,
              FinishLogOkFails
<1>7. ASSUME NEW r \in Runners, RecordSuccess(r) \/ RecordFailure(r)
      PROVE  SnapshotFresh'
  BY <1>7 DEF RecordSuccess, RecordFailure, Reschedule
<1>8. ASSUME NEW r \in Runners,
             FinishLogOk(r) \/ FinishLogFailed(r) \/ CatchBlockFails(r)
      PROVE  SnapshotFresh'
  BY <1>8 DEF FinishLogOk, FinishLogFailed, CatchBlockFails, Return, Abort
<1>9. ASSUME NEW r \in Runners, Crash(r) PROVE SnapshotFresh'
  BY <1>9 DEF Crash
<1>10. ASSUME NEW r \in Runners, NEW t \in Tasks, RunById(r, t)
       PROVE  SnapshotFresh'
  BY <1>10 DEF RunById
<1>11. ASSUME NEW t \in Tasks, Create(t) \/ BackfillOne(t) \/ BecomeDue(t)
       PROVE  SnapshotFresh'
  BY <1>11 DEF Create, BackfillOne, BecomeDue
<1>12. ASSUME StartInstance \/ AcquireLost PROVE SnapshotFresh'
  BY <1>12 DEF StartInstance, AcquireLost
<1>13. ASSUME Tick PROVE SnapshotFresh'
  BY <1>13 DEF Tick
<1>14. ASSUME UNCHANGED vars PROVE SnapshotFresh'
  BY <1>14 DEF vars
<1> QED
  BY <1>1, <1>2, <1>3, <1>4, <1>5, <1>6, <1>7, <1>8, <1>9, <1>10, <1>11,
     <1>12, <1>13, <1>14 DEF Next, Step

\* A cron run that still owns the lock starts no schedule that another such
\* run has already executed for this occurrence.
THEOREM NoDoubleStart == Spec => []NoStaleStart
<1>1. Init => SnapshotFresh
  BY DEF Init, SnapshotFresh
<1>2. TypeOK /\ LeaseExclusive /\ SnapshotFresh /\ [Next]_vars
        => SnapshotFresh'
  BY SnapshotStep
<1>3. SnapshotFresh => NoStaleStart
  BY DEF SnapshotFresh, NoStaleStart, Startable
<1> QED
  BY <1>1, <1>2, <1>3, TypeCorrect, LockSerialisesRuns, PTL DEF Spec
-----------------------------------------------------------------------------
\* What a step does to the lock, seen from outside: InCron is all the lock
\* knows of a run.
LEMMA LockStep ==
    ASSUME TypeOK, LeaseExclusive, [Next]_vars
    PROVE  [Lock!LockNext]_Lock!lockVars
<1> USE SchedulerAssumption DEF TypeOK, LeaseExclusive, InCron, Pc, Executing,
        Goto, Fault, dbVars, runVars, boundVars, Leave, Lock!lockVars
<1>1. ASSUME NEW r \in Runners, AcquireLock(r) PROVE Lock!Acquire(r)
  BY <1>1 DEF AcquireLock, Lock!Acquire
<1>2. ASSUME NEW r \in Runners,
             FetchDue(r) \/ FetchFails(r) \/ StartTask(r) \/ EndLoop(r)
      PROVE  UNCHANGED Lock!lockVars
  BY <1>2 DEF FetchDue, FetchFails, StartTask, EndLoop
<1>3. ASSUME NEW r \in Runners, ReleaseLock(r) PROVE Lock!Release(r)
  BY <1>3 DEF ReleaseLock, Lock!Release
<1>4. ASSUME NEW r \in Runners, ReleaseFails(r) PROVE Lock!Abandon(r)
  BY <1>4 DEF ReleaseFails, Lock!Abandon
<1>5. ASSUME NEW r \in Runners,
             \/ CreateRunLog(r) \/ CreateRunLogFails(r)
             \/ SendRequest(r) \/ EmitExecute(r)
             \/ Reply(r) \/ ReplyError(r) \/ RequestTimeout(r)
             \/ RecordSuccess(r) \/ RecordSuccessFails(r)
             \/ FinishLogOkFails(r) \/ RecordFailure(r)
      PROVE  UNCHANGED Lock!lockVars
  BY <1>5 DEF CreateRunLog, CreateRunLogFails, SendRequest, EmitExecute,
              Reply, ReplyError, RequestTimeout, RecordSuccess,
              RecordSuccessFails, FinishLogOkFails, RecordFailure
<1>6. ASSUME NEW r \in Runners,
             FinishLogOk(r) \/ FinishLogFailed(r) \/ CatchBlockFails(r)
      PROVE  UNCHANGED Lock!lockVars
  <2>1. UNCHANGED <<lock, lease>>
    BY <1>6 DEF FinishLogOk, FinishLogFailed, CatchBlockFails
  <2>2. Return(r) \/ Abort(r)
    BY <1>6 DEF FinishLogOk, FinishLogFailed, CatchBlockFails
  <2>3. pc[r] \in Executing
    BY <1>6 DEF FinishLogOk, FinishLogFailed, CatchBlockFails
  <2>4. InCron(r)' <=> InCron(r)
    BY <2>2, <2>3 DEF Return, Abort
  <2>5. \A s \in Runners \ {r} : InCron(s)' <=> InCron(s)
    BY <2>2 DEF Return, Abort
  <2> QED
    BY <2>1, <2>4, <2>5
<1>7. ASSUME NEW r \in Runners, Crash(r)
      PROVE  Lock!Abandon(r) \/ UNCHANGED Lock!lockVars
  <2>1. CASE InCron(r)
    BY <1>7, <2>1 DEF Crash, Lock!Abandon
  <2>2. CASE ~InCron(r)
    BY <1>7, <2>2 DEF Crash
  <2> QED
    BY <2>1, <2>2
<1>8. ASSUME NEW r \in Runners, NEW t \in Tasks, RunById(r, t)
      PROVE  UNCHANGED Lock!lockVars
  BY <1>8 DEF RunById
<1>9. ASSUME NEW t \in Tasks, Create(t) \/ BackfillOne(t) \/ BecomeDue(t)
      PROVE  UNCHANGED Lock!lockVars
  BY <1>9 DEF Create, BackfillOne, BecomeDue
<1>10. ASSUME StartInstance PROVE UNCHANGED Lock!lockVars
  BY <1>10 DEF StartInstance
<1>11. ASSUME AcquireLost PROVE Lock!AcquireLost
  BY <1>11 DEF AcquireLost, Lock!AcquireLost
<1>12. ASSUME Tick PROVE Lock!Expire \/ UNCHANGED Lock!lockVars
  <2>1. CASE lock > 0
    BY <1>12, <2>1 DEF Tick, Countdown, Lock!Expire
  <2>2. CASE ~(lock > 0)
    BY <1>12, <2>2 DEF Tick, Countdown
  <2> QED
    BY <2>1, <2>2
<1>13. ASSUME UNCHANGED vars PROVE UNCHANGED Lock!lockVars
  BY <1>13 DEF vars
<1> HIDE DEF Lock!lockVars
<1> QED
  BY <1>1, <1>2, <1>3, <1>4, <1>5, <1>6, <1>7, <1>8, <1>9, <1>10, <1>11,
     <1>12, <1>13 DEF Next, Step, Lock!LockNext

\* The cron handler uses its lock the way RedisLock allows: its runs refine
\* the abstract lease, whatever crashes and however long they take.
THEOREM RunsFollowLock == Spec => LockUse
<1>1. Init => Lock!LockInit
  BY DEF Init, Lock!LockInit, InCron, Executing
<1>2. TypeOK /\ LeaseExclusive /\ [Next]_vars
        => [Lock!LockNext]_Lock!lockVars
  BY LockStep
<1> QED
  BY <1>1, <1>2, TypeCorrect, LockSerialisesRuns, PTL
  DEF Spec, LockUse, Lock!LockSpec

-----------------------------------------------------------------------------
(* The run logs agree with what is counted and with what is running        *)


\* A runner has a log only while it executes a schedule, after it has created it.
LogOwned == \A r \in Runners : hasLog[r] => pc[r] \in Executing \ {"log"}

\* Sets of runners are finite and a smaller one has no more members; one member
\* comes or goes at a time.
LEMMA RunnerSets ==
    ASSUME NEW S \in SUBSET Runners
    PROVE  /\ Cardinality(S) \in Nat
           /\ \A T \in SUBSET S : Cardinality(T) <= Cardinality(S)
           /\ \A r \in Runners : Cardinality(S \cup {r}) <= Cardinality(S) + 1
           /\ \A r \in S : Cardinality(S \ {r}) = Cardinality(S) - 1
<1>1. IsFiniteSet(S)
  BY RunnersFinite, FS_Subset
<1>2. Cardinality(S) \in Nat
  BY <1>1, FS_CardinalityType
<1>3. \A T \in SUBSET S : Cardinality(T) <= Cardinality(S)
  BY <1>1, FS_Subset
<1>4. ASSUME NEW r \in Runners PROVE Cardinality(S \cup {r}) <= Cardinality(S) + 1
  <2>1. Cardinality(S \cup {r}) = IF r \in S THEN Cardinality(S) ELSE Cardinality(S) + 1
    BY <1>1, FS_AddElement
  <2> QED
    BY <1>2, <2>1
<1>5. ASSUME NEW r \in S PROVE Cardinality(S \ {r}) = Cardinality(S) - 1
  BY <1>1, FS_RemoveElement
<1> QED
  BY <1>2, <1>3, <1>4, <1>5

\* LogOwned is inductive relative to the types.
LEMMA LogOwnedStep ==
    ASSUME TypeOK, LogOwned, [Next]_vars
    PROVE  LogOwned'
<1> USE SchedulerAssumption DEF TypeOK, LogOwned, Pc, Executing, Goto, Fault,
        dbVars, runVars, boundVars, Leave
<1>1. ASSUME NEW r \in Runners,
             \/ AcquireLock(r) \/ FetchDue(r) \/ FetchFails(r) \/ StartTask(r)
             \/ EndLoop(r) \/ ReleaseLock(r) \/ ReleaseFails(r)
      PROVE  LogOwned'
  BY <1>1 DEF AcquireLock, FetchDue, FetchFails, StartTask, EndLoop,
              ReleaseLock, ReleaseFails
<1>2. ASSUME NEW r \in Runners,
             \/ CreateRunLog(r) \/ CreateRunLogFails(r)
             \/ SendRequest(r) \/ EmitExecute(r)
             \/ Reply(r) \/ ReplyError(r) \/ RequestTimeout(r)
      PROVE  LogOwned'
  BY <1>2 DEF CreateRunLog, CreateRunLogFails, SendRequest, EmitExecute,
              Reply, ReplyError, RequestTimeout
<1>3. ASSUME NEW r \in Runners,
             \/ RecordSuccess(r) \/ RecordSuccessFails(r)
             \/ FinishLogOkFails(r) \/ RecordFailure(r)
      PROVE  LogOwned'
  BY <1>3 DEF RecordSuccess, RecordSuccessFails, FinishLogOkFails, RecordFailure
<1>4. ASSUME NEW r \in Runners,
             FinishLogOk(r) \/ FinishLogFailed(r) \/ CatchBlockFails(r)
      PROVE  LogOwned'
  BY <1>4 DEF FinishLogOk, FinishLogFailed, CatchBlockFails, Return, Abort
<1>5. ASSUME NEW r \in Runners, Crash(r) PROVE LogOwned'
  BY <1>5 DEF Crash
<1>6. ASSUME NEW r \in Runners, NEW t \in Tasks, RunById(r, t) PROVE LogOwned'
  BY <1>6 DEF RunById
<1>7. ASSUME NEW t \in Tasks, Create(t) \/ BackfillOne(t) \/ BecomeDue(t)
      PROVE  LogOwned'
  BY <1>7 DEF Create, BackfillOne, BecomeDue
<1>8. ASSUME StartInstance \/ AcquireLost \/ Tick \/ UNCHANGED vars PROVE LogOwned'
  BY <1>8 DEF StartInstance, AcquireLost, Tick, vars
<1> QED
  BY <1>1, <1>2, <1>3, <1>4, <1>5, <1>6, <1>7, <1>8 DEF Next, Step

-----------------------------------------------------------------------------
\* A step that leaves logs and counters alone and adds no runner to the two sets
\* keeps the account.
Quiet ==
    /\ UNCHANGED <<logs, runCount>>
    /\ \A t \in Tasks : Counting(t)' \subseteq Counting(t) /\ Logging(t)' \subseteq Logging(t)

\* Steps that change no logs and bring no runner to execution keep the account.
LEMMA QuietKeepsAccount ==
    ASSUME TypeOK, LogAccounting, Quiet
    PROVE  LogAccounting'
<1> SUFFICES ASSUME NEW t \in Tasks
             PROVE  /\ logs'[t].ok + Cardinality(Counting(t)') <= runCount'[t]
                    /\ Cardinality(Logging(t)') <= logs'[t].open
  BY DEF LogAccounting
<1>1. /\ Counting(t) \in SUBSET Runners /\ Logging(t) \in SUBSET Runners
      /\ Counting(t)' \in SUBSET Counting(t) /\ Logging(t)' \in SUBSET Logging(t)
  BY DEF Quiet, Counting, Logging
<1>2. /\ Cardinality(Counting(t)') <= Cardinality(Counting(t))
      /\ Cardinality(Logging(t)') <= Cardinality(Logging(t))
  BY <1>1, RunnerSets
<1>3. /\ Cardinality(Counting(t)) \in Nat /\ Cardinality(Logging(t)) \in Nat
      /\ Cardinality(Counting(t)') \in Nat /\ Cardinality(Logging(t)') \in Nat
  <2>1. Counting(t)' \in SUBSET Runners /\ Logging(t)' \in SUBSET Runners
    BY <1>1
  <2> QED
    BY <1>1, <2>1, RunnerSets
<1>4. logs[t].ok \in Nat /\ logs[t].open \in Int /\ runCount[t] \in Nat
  BY DEF TypeOK
<1>5. /\ logs[t].ok + Cardinality(Counting(t)) <= runCount[t]
      /\ Cardinality(Logging(t)) <= logs[t].open
  BY DEF LogAccounting
<1>6. logs'[t] = logs[t] /\ runCount'[t] = runCount[t]
  BY DEF Quiet
<1> HIDE DEF Counting, Logging
<1> QED
  BY <1>2, <1>3, <1>4, <1>5, <1>6

-----------------------------------------------------------------------------
\* How the cardinality follows when one runner joins or leaves a set.
LEMMA OneRunner ==
    ASSUME NEW S \in SUBSET Runners, NEW T \in SUBSET Runners, NEW r \in Runners
    PROVE  /\ Cardinality(S) \in Nat /\ Cardinality(T) \in Nat
           /\ T \subseteq S \cup {r} => Cardinality(T) <= Cardinality(S) + 1
           /\ T \subseteq S => Cardinality(T) <= Cardinality(S)
           /\ r \in S /\ T \subseteq S \ {r} => Cardinality(T) <= Cardinality(S) - 1
<1>1. /\ S \cup {r} \in SUBSET Runners /\ S \ {r} \in SUBSET Runners
  OBVIOUS
<1>2. /\ Cardinality(S) \in Nat /\ Cardinality(T) \in Nat /\ Cardinality(S \cup {r}) \in Nat
  BY <1>1, RunnerSets
<1>3. ASSUME T \subseteq S \cup {r} PROVE Cardinality(T) <= Cardinality(S) + 1
  <2>1. Cardinality(T) <= Cardinality(S \cup {r})
    BY <1>1, <1>3, RunnerSets
  <2>2. Cardinality(S \cup {r}) <= Cardinality(S) + 1
    BY RunnerSets
  <2> QED
    BY <1>2, <2>1, <2>2
<1>4. ASSUME T \subseteq S PROVE Cardinality(T) <= Cardinality(S)
  BY <1>4, RunnerSets
<1>5. ASSUME r \in S, T \subseteq S \ {r} PROVE Cardinality(T) <= Cardinality(S) - 1
  <2>1. Cardinality(T) <= Cardinality(S \ {r})
    BY <1>1, <1>5, RunnerSets
  <2>2. Cardinality(S \ {r}) = Cardinality(S) - 1
    BY <1>5, RunnerSets
  <2> QED
    BY <2>1, <2>2
<1> QED
  BY <1>2, <1>3, <1>4, <1>5

\* What of the schedules other than u.
Elsewhere(u) ==
    \A t \in Tasks \ {u} :
        /\ logs'[t] = logs[t] /\ runCount'[t] = runCount[t]
        /\ Counting(t)' = Counting(t) /\ Logging(t)' = Logging(t)

\* So do steps that change it for one schedule only, there as it should be.
LEMMA OneSchedule ==
    ASSUME LogAccounting, NEW u \in Tasks, Elsewhere(u),
           logs'[u].ok + Cardinality(Counting(u)') <= runCount'[u],
           Cardinality(Logging(u)') <= logs'[u].open
    PROVE  LogAccounting'
<1>1. ASSUME NEW t \in Tasks \ {u}
      PROVE  /\ logs'[t].ok + Cardinality(Counting(t)') <= runCount'[t]
             /\ Cardinality(Logging(t)') <= logs'[t].open
  <2>1. /\ logs[t].ok + Cardinality(Counting(t)) <= runCount[t]
        /\ Cardinality(Logging(t)) <= logs[t].open
    BY DEF LogAccounting
  <2>2. /\ logs'[t] = logs[t] /\ runCount'[t] = runCount[t]
        /\ Counting(t)' = Counting(t) /\ Logging(t)' = Logging(t)
    BY DEF Elsewhere
  <2> QED
    BY <2>1, <2>2
<1> QED
  BY <1>1 DEF LogAccounting

\* The account of one schedule, with the types it is computed with.
LEMMA AccountOf ==
    ASSUME TypeOK, LogAccounting, NEW u \in Tasks
    PROVE  /\ logs[u].ok \in Nat /\ logs[u].open \in Int /\ runCount[u] \in Nat
           /\ logs[u].ok + Cardinality(Counting(u)) <= runCount[u]
           /\ Cardinality(Logging(u)) <= logs[u].open
           /\ Counting(u) \in SUBSET Runners /\ Logging(u) \in SUBSET Runners
           /\ Counting(u)' \in SUBSET Runners /\ Logging(u)' \in SUBSET Runners
BY DEF TypeOK, LogAccounting, Counting, Logging

-----------------------------------------------------------------------------
\* Every step keeps the account.
LEMMA AccountStep ==
    ASSUME TypeOK, LogOwned, LogAccounting, [Next]_vars
    PROVE  LogAccounting'
<1>1. ASSUME NEW r \in Runners,
             \/ AcquireLock(r) \/ FetchDue(r) \/ FetchFails(r) \/ StartTask(r)
             \/ EndLoop(r) \/ ReleaseLock(r) \/ ReleaseFails(r)
      PROVE  Quiet
  BY <1>1 DEF AcquireLock, FetchDue, FetchFails, StartTask, EndLoop, ReleaseLock,
              ReleaseFails, Quiet, Counting, Logging, TypeOK, Pc, Executing, Goto,
              dbVars, runVars
<1>2. ASSUME NEW r \in Runners,
             \/ CreateRunLogFails(r) \/ SendRequest(r) \/ EmitExecute(r)
             \/ Reply(r) \/ ReplyError(r) \/ RequestTimeout(r)
      PROVE  Quiet
  BY <1>2 DEF CreateRunLogFails, SendRequest, EmitExecute, Reply, ReplyError,
              RequestTimeout, LogOwned, Quiet, Counting, Logging, TypeOK, Pc,
              Executing, Goto, dbVars, runVars
<1>3. ASSUME NEW r \in Runners,
             \/ RecordSuccessFails(r) \/ FinishLogOkFails(r) \/ RecordFailure(r)
             \/ CatchBlockFails(r) \/ Crash(r)
      PROVE  Quiet
  BY <1>3 DEF RecordSuccessFails, FinishLogOkFails, RecordFailure, CatchBlockFails,
              Crash, Abort, Leave, Quiet, Counting, Logging, TypeOK, Pc, Executing,
              Goto, dbVars, runVars
<1>4. ASSUME NEW r \in Runners, NEW t \in Tasks, RunById(r, t)
      PROVE  Quiet
  BY <1>4 DEF RunById, Quiet, Counting, Logging, TypeOK, Pc, Executing, Goto, dbVars,
              runVars
<1>5. ASSUME NEW t \in Tasks, Create(t) \/ BackfillOne(t) \/ BecomeDue(t)
      PROVE  Quiet
  BY <1>5 DEF Create, BackfillOne, BecomeDue, Quiet, Counting, Logging, dbVars, runVars
<1>6. ASSUME StartInstance \/ AcquireLost \/ Tick \/ UNCHANGED vars
      PROVE  Quiet
  BY <1>6 DEF StartInstance, AcquireLost, Tick, vars, Quiet, Counting, Logging, dbVars,
              runVars
<1>7. ASSUME NEW r \in Runners, CreateRunLog(r)
      PROVE  LogAccounting'
  <2>0. pc[r] = "log" /\ task[r] \in Tasks
    BY <1>7 DEF CreateRunLog, TypeOK, Executing
  <2>1. PICK u \in Tasks : u = task[r]
    BY <2>0
  <2>2. /\ logs' = [logs EXCEPT ![u].open = @ + 1] /\ runCount' = runCount
        /\ pc' = [pc EXCEPT ![r] = "exec"] /\ hasLog' = [hasLog EXCEPT ![r] = TRUE]
        /\ task' = task
    BY <1>7, <2>1 DEF CreateRunLog, Goto
  <2>3. /\ logs'[u].open = logs[u].open + 1 /\ logs'[u].ok = logs[u].ok /\ runCount'[u] = runCount[u]
        /\ \A t \in Tasks \ {u} : logs'[t] = logs[t] /\ runCount'[t] = runCount[t]
    BY <2>1, <2>2 DEF TypeOK
  <2>4. /\ \A t \in Tasks : Counting(t)' = Counting(t)
        /\ \A t \in Tasks \ {u} : Logging(t)' = Logging(t)
        /\ Logging(u)' \subseteq Logging(u) \cup {r}
    BY <2>0, <2>1, <2>2 DEF Counting, Logging, TypeOK, Pc, Executing
  <2>5. Elsewhere(u)
    BY <2>3, <2>4 DEF Elsewhere
  <2>6. /\ Cardinality(Counting(u)') <= Cardinality(Counting(u))
        /\ Cardinality(Logging(u)') <= Cardinality(Logging(u)) + 1
        /\ Cardinality(Counting(u)') \in Nat /\ Cardinality(Logging(u)') \in Nat
        /\ Cardinality(Counting(u)) \in Nat /\ Cardinality(Logging(u)) \in Nat
    BY <2>1, <2>4, AccountOf, OneRunner
  <2>7. /\ logs'[u].ok + Cardinality(Counting(u)') <= runCount'[u]
        /\ Cardinality(Logging(u)') <= logs'[u].open
    BY <2>1, <2>3, <2>6, AccountOf
  <2> QED
    BY <2>1, <2>5, <2>7, OneSchedule
<1>8. ASSUME NEW r \in Runners, RecordSuccess(r)
      PROVE  LogAccounting'
  <2>0. pc[r] = "okSchedule" /\ task[r] \in Tasks
    BY <1>8 DEF RecordSuccess, TypeOK, Executing
  <2>1. PICK u \in Tasks : u = task[r]
    BY <2>0
  <2>2. /\ logs' = logs /\ runCount' = [runCount EXCEPT ![u] = @ + 1]
        /\ pc' = [pc EXCEPT ![r] = "okLog"] /\ hasLog' = hasLog /\ task' = task
    BY <1>8, <2>1 DEF RecordSuccess, Goto
  <2>3. /\ logs'[u].open = logs[u].open /\ logs'[u].ok = logs[u].ok /\ runCount'[u] = runCount[u] + 1
        /\ \A t \in Tasks \ {u} : logs'[t] = logs[t] /\ runCount'[t] = runCount[t]
    BY <2>1, <2>2 DEF TypeOK
  <2>4. /\ \A t \in Tasks \ {u} : Counting(t)' = Counting(t)
        /\ \A t \in Tasks : Logging(t)' = Logging(t)
        /\ Counting(u)' \subseteq Counting(u) \cup {r}
    BY <2>0, <2>1, <2>2 DEF Counting, Logging, TypeOK, Pc, Executing
  <2>5. Elsewhere(u)
    BY <2>3, <2>4 DEF Elsewhere
  <2>6. /\ Cardinality(Counting(u)') <= Cardinality(Counting(u)) + 1
        /\ Cardinality(Logging(u)') <= Cardinality(Logging(u))
        /\ Cardinality(Counting(u)') \in Nat /\ Cardinality(Logging(u)') \in Nat
        /\ Cardinality(Counting(u)) \in Nat /\ Cardinality(Logging(u)) \in Nat
    BY <2>1, <2>4, AccountOf, OneRunner
  <2>7. /\ logs'[u].ok + Cardinality(Counting(u)') <= runCount'[u]
        /\ Cardinality(Logging(u)') <= logs'[u].open
    BY <2>1, <2>3, <2>6, AccountOf
  <2> QED
    BY <2>1, <2>5, <2>7, OneSchedule
<1>9. ASSUME NEW r \in Runners, FinishLogOk(r) \/ FinishLogFailed(r), ~hasLog[r]
      PROVE  Quiet
  BY <1>9 DEF FinishLogOk, FinishLogFailed, Return, Leave, Quiet, Counting, Logging,
              TypeOK, Pc, Executing, Goto
<1>10. ASSUME NEW r \in Runners, FinishLogOk(r), hasLog[r]
      PROVE  LogAccounting'
  <2>0. pc[r] = "okLog" /\ task[r] \in Tasks
    BY <1>10 DEF FinishLogOk, TypeOK, Executing
  <2>1. PICK u \in Tasks : u = task[r]
    BY <2>0
  <2>2. /\ logs' = [logs EXCEPT ![u].open = @ - 1, ![u].ok = @ + 1]
        /\ runCount' = runCount /\ Return(r)
    BY <1>10, <2>1 DEF FinishLogOk, Goto
  <2>3. /\ logs'[u].open = logs[u].open - 1 /\ logs'[u].ok = logs[u].ok + 1 /\ runCount'[u] = runCount[u]
        /\ \A t \in Tasks \ {u} : logs'[t] = logs[t] /\ runCount'[t] = runCount[t]
    BY <2>1, <2>2 DEF TypeOK
  <2>4. /\ \A t \in Tasks \ {u} : Counting(t)' = Counting(t) /\ Logging(t)' = Logging(t)
        /\ r \in Counting(u) /\ Counting(u)' \subseteq Counting(u) \ {r}
        /\ r \in Logging(u) /\ Logging(u)' \subseteq Logging(u) \ {r}
    <3>1. /\ pc'[r] \in {"idle", "loop"}
          /\ \A s \in Runners \ {r} : /\ pc'[s] = pc[s] /\ task'[s] = task[s]
                                     /\ hasLog'[s] = hasLog[s]
      BY <2>2 DEF Return, Leave, Goto, TypeOK
    <3>2. \A t \in Tasks : r \notin Counting(t)' /\ r \notin Logging(t)'
      BY <3>1 DEF Counting, Logging, Executing
    <3>3. \A t \in Tasks : /\ Counting(t)' \ {r} = Counting(t) \ {r}
                           /\ Logging(t)' \ {r} = Logging(t) \ {r}
      BY <3>1 DEF Counting, Logging
    <3>4. \A t \in Tasks \ {u} : r \notin Counting(t) /\ r \notin Logging(t)
      BY <2>1 DEF Counting, Logging
    <3>5. r \in Counting(u) /\ r \in Logging(u)
      BY <1>10, <2>0, <2>1 DEF Counting, Logging, Executing
    <3>6. ASSUME NEW t \in Tasks, r \notin Counting(t)
          PROVE  Counting(t)' = Counting(t)
      BY <3>2, <3>3, <3>6
    <3>7. ASSUME NEW t \in Tasks, r \notin Logging(t)
          PROVE  Logging(t)' = Logging(t)
      BY <3>2, <3>3, <3>7
    <3>8. /\ Counting(u)' \subseteq Counting(u) \ {r}
          /\ Logging(u)' \subseteq Logging(u) \ {r}
      BY <3>2, <3>3
    <3> QED
      BY <3>4, <3>5, <3>6, <3>7, <3>8
  <2>5. Elsewhere(u)
    BY <2>3, <2>4 DEF Elsewhere
  <2>6. /\ Cardinality(Counting(u)') <= Cardinality(Counting(u)) - 1
        /\ Cardinality(Logging(u)') <= Cardinality(Logging(u)) - 1
        /\ Cardinality(Counting(u)') \in Nat /\ Cardinality(Logging(u)') \in Nat
        /\ Cardinality(Counting(u)) \in Nat /\ Cardinality(Logging(u)) \in Nat
    BY <2>1, <2>4, AccountOf, OneRunner
  <2>7. /\ logs'[u].ok + Cardinality(Counting(u)') <= runCount'[u]
        /\ Cardinality(Logging(u)') <= logs'[u].open
    BY <2>1, <2>3, <2>6, AccountOf
  <2> QED
    BY <2>1, <2>5, <2>7, OneSchedule
<1>11. ASSUME NEW r \in Runners, FinishLogFailed(r), hasLog[r]
      PROVE  LogAccounting'
  <2>0. pc[r] = "failLog" /\ task[r] \in Tasks
    BY <1>11 DEF FinishLogFailed, TypeOK, Executing
  <2>1. PICK u \in Tasks : u = task[r]
    BY <2>0
  <2>2. /\ logs' = [logs EXCEPT ![u].open = @ - 1]
        /\ runCount' = runCount /\ Return(r)
    BY <1>11, <2>1 DEF FinishLogFailed, Goto
  <2>3. /\ logs'[u].open = logs[u].open - 1 /\ logs'[u].ok = logs[u].ok /\ runCount'[u] = runCount[u]
        /\ \A t \in Tasks \ {u} : logs'[t] = logs[t] /\ runCount'[t] = runCount[t]
    BY <2>1, <2>2 DEF TypeOK
  <2>4. /\ \A t \in Tasks : Counting(t)' = Counting(t)
        /\ \A t \in Tasks \ {u} : Logging(t)' = Logging(t)
        /\ r \in Logging(u) /\ Logging(u)' \subseteq Logging(u) \ {r}
    <3>1. /\ pc'[r] \in {"idle", "loop"}
          /\ \A s \in Runners \ {r} : /\ pc'[s] = pc[s] /\ task'[s] = task[s]
                                     /\ hasLog'[s] = hasLog[s]
      BY <2>2 DEF Return, Leave, Goto, TypeOK
    <3>2. \A t \in Tasks : r \notin Counting(t)' /\ r \notin Logging(t)'
      BY <3>1 DEF Counting, Logging, Executing
    <3>3. \A t \in Tasks : /\ Counting(t)' \ {r} = Counting(t) \ {r}
                           /\ Logging(t)' \ {r} = Logging(t) \ {r}
      BY <3>1 DEF Counting, Logging
    <3>4. \A t \in Tasks \ {u} : r \notin Counting(t) /\ r \notin Logging(t)
      BY <2>1 DEF Counting, Logging
    <3>5. r \notin Counting(u) /\ r \in Logging(u)
      BY <1>11, <2>0, <2>1 DEF Counting, Logging, Executing
    <3>6. ASSUME NEW t \in Tasks, r \notin Counting(t)
          PROVE  Counting(t)' = Counting(t)
      BY <3>2, <3>3, <3>6
    <3>7. ASSUME NEW t \in Tasks, r \notin Logging(t)
          PROVE  Logging(t)' = Logging(t)
      BY <3>2, <3>3, <3>7
    <3>8. /\ Counting(u)' \subseteq Counting(u) \ {r}
          /\ Logging(u)' \subseteq Logging(u) \ {r}
      BY <3>2, <3>3
    <3> QED
      BY <3>4, <3>5, <3>6, <3>7, <3>8
  <2>5. Elsewhere(u)
    BY <2>3, <2>4 DEF Elsewhere
  <2>6. /\ Cardinality(Counting(u)') <= Cardinality(Counting(u))
        /\ Cardinality(Logging(u)') <= Cardinality(Logging(u)) - 1
        /\ Cardinality(Counting(u)') \in Nat /\ Cardinality(Logging(u)') \in Nat
        /\ Cardinality(Counting(u)) \in Nat /\ Cardinality(Logging(u)) \in Nat
    BY <2>1, <2>4, AccountOf, OneRunner
  <2>7. /\ logs'[u].ok + Cardinality(Counting(u)') <= runCount'[u]
        /\ Cardinality(Logging(u)') <= logs'[u].open
    BY <2>1, <2>3, <2>6, AccountOf
  <2> QED
    BY <2>1, <2>5, <2>7, OneSchedule
<1> QED
  BY <1>1, <1>2, <1>3, <1>4, <1>5, <1>6, <1>7, <1>8, <1>9, <1>10, <1>11,
     QuietKeepsAccount DEF Next, Step

\* Whatever fails or crashes, and however manual and cron runs interleave, run
\* logs finished as successes belong to counted runs, and runs in progress find
\* their logs unfinished.
THEOREM LogsAreAccounted == Spec => []LogAccounting
<1>1. Init => LogOwned /\ LogAccounting
  <2> SUFFICES ASSUME Init PROVE LogOwned /\ LogAccounting
    OBVIOUS
  <2>1. \A t \in Tasks : Counting(t) = {} /\ Logging(t) = {}
    BY DEF Init, Counting, Logging, Executing
  <2>2. \A t \in Tasks : logs[t].ok = 0 /\ logs[t].open = 0 /\ runCount[t] = 0
    BY DEF Init
  <2>3. Cardinality({}) = 0
    BY FS_EmptySet
  <2>4. LogAccounting
    <3> SUFFICES ASSUME NEW t \in Tasks
                 PROVE  /\ logs[t].ok + Cardinality(Counting(t)) <= runCount[t]
                        /\ Cardinality(Logging(t)) <= logs[t].open
      BY DEF LogAccounting
    <3>1. Cardinality(Counting(t)) = 0 /\ Cardinality(Logging(t)) = 0
      BY <2>1, <2>3
    <3> QED
      BY <2>2, <3>1
  <2> QED
    BY <2>4 DEF Init, LogOwned
<1>2. TypeOK /\ LogOwned /\ LogAccounting /\ [Next]_vars => LogOwned' /\ LogAccounting'
  BY LogOwnedStep, AccountStep
<1> QED
  BY <1>1, <1>2, TypeCorrect, PTL DEF Spec
=============================================================================
