------------------------------ MODULE Scheduler ------------------------------
(***************************************************************************)
(* The scheduler service: the cron handler that runs every due schedule    *)
(* under a Redis lock, the manual trigger that runs one schedule without   *)
(* the lock, the creation of schedules and the start-up backfill           *)
(* (apps/scheduler/src/modules/tasks/tasks.service.ts).                    *)
(*                                                                         *)
(* A runner is one invocation of handleHourlyTasks or runById.  Invocations*)
(* overlap: on several instances of the service, and on one instance too,  *)
(* because the cron library does not wait for the previous invocation.     *)
(* Every await of the code is a place where another runner may step in, so *)
(* each action below is the code between two awaits.                       *)
(*                                                                         *)
(* Time is relative.  lock is what remains of the lock's TTL, deadline[r]  *)
(* what remains of the timeout of the request runner r waits for, and a    *)
(* schedule's nextRun is only known to be absent, null, in the past (due)  *)
(* or in the future.                                                       *)
(***************************************************************************)
EXTENDS Integers, FiniteSets

CONSTANTS
    Tasks,        \* rows the schedules table may hold
    Runners,      \* concurrent invocations of the handlers
    Enabled,      \* schedules with isEnabled = true (no code changes the flag)
    BadCron,      \* schedules whose cron expression cannot be parsed
    RpcTasks,     \* schedules executed by a request to the core service
    LockTTL,      \* 300 seconds in the code
    RpcTimeout,   \* 300 seconds in the code
    MaxTriggers,  \* bound: cron occurrences plus manual triggers
    MaxFaults,    \* bound: failed calls plus crashes
    MaxRuns,      \* bound: successful runs of a schedule with a bad cron
    NoTask        \* the task of a runner that runs none

ASSUME SchedulerAssumption ==
    /\ Enabled \subseteq Tasks
    /\ BadCron \subseteq Tasks
    /\ RpcTasks \subseteq Tasks
    /\ LockTTL \in Nat \ {0}
    /\ RpcTimeout \in Nat \ {0}
    /\ MaxTriggers \in Nat
    /\ MaxFaults \in Nat
    /\ MaxRuns \in Nat
    /\ NoTask \notin Tasks

\* There are finitely many instances, cron occurrences and manual triggers.
ASSUME RunnersFinite == IsFiniteSet(Runners)

VARIABLES
    nextRun,    \* schedules.nextRun of each row, relative to now
    runCount,   \* schedules.runCount
    logs,       \* schedule_run_logs: rows unfinished and finished as successes
    lock,       \* what remains of the TTL of scheduler:hourly:lock, 0: no key
    backfill,   \* schedules the starting instance has still to backfill
    pc,         \* where each runner is
    task,       \* the schedule it executes
    todo,       \* due schedules it has fetched and not yet started
    hasLog,     \* whether its run log row was created
    deadline,   \* what remains of its request's timeout
    manual,     \* runById rather than handleHourlyTasks
    lease,      \* history: it acquired the lock and has not lost it since
    moved,      \* history: nextRun was written by a process without the lock
    triggers,   \* what remains of MaxTriggers
    faults      \* what remains of MaxFaults

dbVars    == <<nextRun, runCount, logs>>
runVars   == <<pc, task, todo, hasLog, deadline, manual>>
boundVars == <<triggers, faults>>
vars == <<nextRun, runCount, logs, lock, backfill, pc, task, todo, hasLog,
          deadline, manual, lease, moved, triggers, faults>>

Pc == {"idle", "fetch", "loop", "log", "exec", "wait", "okSchedule", "okLog",
       "failSchedule", "failLog", "release"}

Executing == {"log", "exec", "wait", "okSchedule", "okLog", "failSchedule",
              "failLog"}

\* Slip: the where clause forgets nextRun.
DueWhenever == {t \in Enabled : t \in BadCron => runCount[t] < MaxRuns}

\* The where clause of the cron handler: enabled, and nextRun in the past or
\* null.  MaxRuns bounds the schedules that stay due for ever.
Due == {t \in Enabled : /\ nextRun[t] \in {"due", "null"}
                        /\ t \in BadCron => runCount[t] < MaxRuns}

\* Rows that exist when the service first starts: any enabled schedule may
\* predate the nextRun column.
Init ==
    /\ nextRun \in [Tasks -> {"absent", "null", "future"}]
    /\ \A t \in BadCron : nextRun[t] = "null"
    /\ runCount = [t \in Tasks |-> 0]
    /\ logs = [t \in Tasks |-> [open |-> 0, ok |-> 0]]
    /\ lock = 0
    /\ backfill = {}
    /\ pc = [r \in Runners |-> "idle"]
    /\ task = [r \in Runners |-> NoTask]
    /\ todo = [r \in Runners |-> {}]
    /\ hasLog = [r \in Runners |-> FALSE]
    /\ deadline = [r \in Runners |-> 0]
    /\ manual = [r \in Runners |-> FALSE]
    /\ lease = [r \in Runners |-> FALSE]
    /\ moved = {}
    /\ triggers = MaxTriggers
    /\ faults = MaxFaults

Fault == faults > 0 /\ faults' = faults - 1

Goto(r, label) == pc' = [pc EXCEPT ![r] = label]

-----------------------------------------------------------------------------
(* The cron handler                                                        *)

\* Slip: SET EX without NX.
AcquireLockWithoutNX(r) ==
    /\ pc[r] = "idle"
    /\ lock' = LockTTL
    /\ lease' = [lease EXCEPT ![r] = TRUE]
    /\ Goto(r, "fetch")
    /\ UNCHANGED <<dbVars, backfill, task, todo, hasLog, deadline, manual,
                   moved, boundVars>>

\* SET NX EX: the key is created only when there is none.  A runner that
\* does not get it returns at once and changes nothing.
AcquireLock(r) ==
    /\ pc[r] = "idle"
    /\ lock = 0
    /\ lock' = LockTTL
    /\ lease' = [lease EXCEPT ![r] = TRUE]
    /\ Goto(r, "fetch")
    /\ UNCHANGED <<dbVars, backfill, task, todo, hasLog, deadline, manual,
                   moved, boundVars>>

\* The reply to SET is lost: acquireLock answers no, and the key stays until
\* its TTL runs out.
AcquireLost ==
    /\ lock = 0
    /\ Fault
    /\ lock' = LockTTL
    /\ UNCHANGED <<dbVars, backfill, runVars, lease, moved, triggers>>

\* The due schedules are read once; the loop works on this snapshot.
FetchDue(r) ==
    /\ pc[r] = "fetch"
    /\ todo' = [todo EXCEPT ![r] = Due]
    /\ moved' = moved \ Due
    /\ Goto(r, "loop")
    /\ UNCHANGED <<dbVars, lock, backfill, task, hasLog, deadline, manual,
                   lease, boundVars>>

FetchFails(r) ==
    /\ pc[r] = "fetch"
    /\ Fault
    /\ Goto(r, "release")
    /\ UNCHANGED <<dbVars, lock, backfill, task, todo, hasLog, deadline,
                   manual, lease, moved, triggers>>

StartTask(r) ==
    /\ pc[r] = "loop"
    /\ \E t \in todo[r] :
          /\ task' = [task EXCEPT ![r] = t]
          /\ todo' = [todo EXCEPT ![r] = @ \ {t}]
    /\ Goto(r, "log")
    /\ UNCHANGED <<dbVars, lock, backfill, hasLog, deadline, manual, lease,
                   moved, boundVars>>

EndLoop(r) ==
    /\ pc[r] = "loop"
    /\ todo[r] = {}
    /\ Goto(r, "release")
    /\ UNCHANGED <<dbVars, lock, backfill, task, todo, hasLog, deadline,
                   manual, lease, moved, boundVars>>

\* DEL of the key, whoever created it: every runner that relied on it has
\* lost it.
ReleaseLock(r) ==
    /\ pc[r] = "release"
    /\ lock' = 0
    /\ lease' = [s \in Runners |-> FALSE]
    /\ todo' = [todo EXCEPT ![r] = {}]
    /\ Goto(r, "idle")
    /\ UNCHANGED <<dbVars, backfill, task, hasLog, deadline, manual, moved,
                   boundVars>>

\* redis.del swallows its error: the key stays until its TTL runs out.
ReleaseFails(r) ==
    /\ pc[r] = "release"
    /\ Fault
    /\ lease' = [lease EXCEPT ![r] = FALSE]
    /\ todo' = [todo EXCEPT ![r] = {}]
    /\ Goto(r, "idle")
    /\ UNCHANGED <<dbVars, lock, backfill, task, hasLog, deadline, manual,
                   moved, triggers>>

-----------------------------------------------------------------------------
(* Executing one schedule                                                  *)

\* executeTask ends, and its local variables with it; a cron run goes on at
\* label, a manual one is over.
Leave(r, label) ==
    /\ Goto(r, IF manual[r] THEN "idle" ELSE label)
    /\ task' = [task EXCEPT ![r] = NoTask]
    /\ hasLog' = [hasLog EXCEPT ![r] = FALSE]
    /\ manual' = [manual EXCEPT ![r] = FALSE]

\* Where executeTask returns to, and where an exception it throws leads.
Return(r) == Leave(r, "loop")
Abort(r)  == Leave(r, "release")

CreateRunLog(r) ==
    /\ pc[r] = "log"
    /\ logs' = [logs EXCEPT ![task[r]].open = @ + 1]
    /\ hasLog' = [hasLog EXCEPT ![r] = TRUE]
    /\ Goto(r, "exec")
    /\ UNCHANGED <<nextRun, runCount, lock, backfill, task, todo, deadline,
                   manual, lease, moved, boundVars>>

\* The schedule is executed even when its run log cannot be created.
CreateRunLogFails(r) ==
    /\ pc[r] = "log"
    /\ Fault
    /\ Goto(r, "exec")
    /\ UNCHANGED <<dbVars, lock, backfill, task, todo, hasLog, deadline,
                   manual, lease, moved, triggers>>

SendRequest(r) ==
    /\ pc[r] = "exec"
    /\ task[r] \in RpcTasks
    /\ deadline' = [deadline EXCEPT ![r] = RpcTimeout]
    /\ Goto(r, "wait")
    /\ UNCHANGED <<dbVars, lock, backfill, task, todo, hasLog, manual, lease,
                   moved, boundVars>>

\* Any other kind of schedule only emits an event, and emit never throws.
EmitExecute(r) ==
    /\ pc[r] = "exec"
    /\ task[r] \notin RpcTasks
    /\ Goto(r, "okSchedule")
    /\ UNCHANGED <<dbVars, lock, backfill, task, todo, hasLog, deadline,
                   manual, lease, moved, boundVars>>

Reply(r) ==
    /\ pc[r] = "wait"
    /\ deadline[r] > 0
    /\ deadline' = [deadline EXCEPT ![r] = 0]
    /\ Goto(r, "okSchedule")
    /\ UNCHANGED <<dbVars, lock, backfill, task, todo, hasLog, manual, lease,
                   moved, boundVars>>

ReplyError(r) ==
    /\ pc[r] = "wait"
    /\ Fault
    /\ deadline' = [deadline EXCEPT ![r] = 0]
    /\ Goto(r, "failSchedule")
    /\ UNCHANGED <<dbVars, lock, backfill, task, todo, hasLog, manual, lease,
                   moved, triggers>>

RequestTimeout(r) ==
    /\ pc[r] = "wait"
    /\ deadline[r] = 0
    /\ Goto(r, "failSchedule")
    /\ UNCHANGED <<dbVars, lock, backfill, task, todo, hasLog, deadline,
                   manual, lease, moved, boundVars>>

\* nextRun: nextRun || undefined.  With a cron expression that cannot be
\* parsed the column keeps its value.
Reschedule(r) ==
    /\ nextRun' = IF task[r] \in BadCron THEN nextRun
                  ELSE [nextRun EXCEPT ![task[r]] = "future"]
    /\ moved' = IF lease[r] THEN moved ELSE moved \cup {task[r]}

\* Slip: runCount is not incremented.
RecordSuccessUncounted(r) ==
    /\ pc[r] = "okSchedule"
    /\ Reschedule(r)
    /\ Goto(r, "okLog")
    /\ UNCHANGED <<runCount, logs, lock, backfill, task, todo, hasLog,
                   deadline, manual, lease, boundVars>>

RecordSuccess(r) ==
    /\ pc[r] = "okSchedule"
    /\ Reschedule(r)
    /\ runCount' = [runCount EXCEPT ![task[r]] = @ + 1]
    /\ Goto(r, "okLog")
    /\ UNCHANGED <<logs, lock, backfill, task, todo, hasLog, deadline, manual,
                   lease, boundVars>>

RecordSuccessFails(r) ==
    /\ pc[r] = "okSchedule"
    /\ Fault
    /\ Goto(r, "failSchedule")
    /\ UNCHANGED <<dbVars, lock, backfill, task, todo, hasLog, deadline,
                   manual, lease, moved, triggers>>

FinishLogOk(r) ==
    /\ pc[r] = "okLog"
    /\ logs' = IF hasLog[r]
               THEN [logs EXCEPT ![task[r]].open = @ - 1, ![task[r]].ok = @ + 1]
               ELSE logs
    /\ Return(r)
    /\ UNCHANGED <<nextRun, runCount, lock, backfill, todo, deadline, lease,
                   moved, boundVars>>

\* The update of the run log is inside the try: its failure sends a run that
\* has already been counted through the catch block.
FinishLogOkFails(r) ==
    /\ pc[r] = "okLog"
    /\ hasLog[r]
    /\ Fault
    /\ Goto(r, "failSchedule")
    /\ UNCHANGED <<dbVars, lock, backfill, task, todo, hasLog, deadline,
                   manual, lease, moved, triggers>>

RecordFailure(r) ==
    /\ pc[r] = "failSchedule"
    /\ Reschedule(r)
    /\ Goto(r, "failLog")
    /\ UNCHANGED <<runCount, logs, lock, backfill, task, todo, hasLog,
                   deadline, manual, lease, boundVars>>

\* The row is unfinished no more; failures are not counted.
FinishLogFailed(r) ==
    /\ pc[r] = "failLog"
    /\ logs' = IF hasLog[r]
               THEN [logs EXCEPT ![task[r]].open = @ - 1]
               ELSE logs
    /\ Return(r)
    /\ UNCHANGED <<nextRun, runCount, lock, backfill, todo, deadline, lease,
                   moved, boundVars>>

\* A database error inside the catch block leaves executeTask, and with it
\* the loop over the schedules that were still to run.
CatchBlockFails(r) ==
    /\ \/ pc[r] = "failSchedule"
       \/ pc[r] = "failLog" /\ hasLog[r]
    /\ Fault
    /\ Abort(r)
    /\ UNCHANGED <<dbVars, lock, backfill, todo, deadline, lease, moved,
                   triggers>>

-----------------------------------------------------------------------------
(* Manual trigger, creation and start-up                                   *)

\* runById reads the row and executes it, enabled or not, due or not, and
\* without the lock.
RunById(r, t) ==
    /\ pc[r] = "idle"
    /\ nextRun[t] # "absent"
    /\ triggers > 0
    /\ triggers' = triggers - 1
    /\ manual' = [manual EXCEPT ![r] = TRUE]
    /\ task' = [task EXCEPT ![r] = t]
    /\ Goto(r, "log")
    /\ UNCHANGED <<dbVars, lock, backfill, todo, hasLog, deadline, lease,
                   moved, faults>>

Create(t) ==
    /\ nextRun[t] = "absent"
    /\ t \notin BadCron
    /\ nextRun' = [nextRun EXCEPT ![t] = "future"]
    /\ UNCHANGED <<runCount, logs, lock, backfill, runVars, lease, moved,
                   boundVars>>

\* onModuleInit of a (re)started instance reads the rows to backfill ...
StartInstance ==
    /\ backfill = {}
    /\ backfill' = {t \in Enabled : nextRun[t] = "null"}
    /\ backfill' # {}
    /\ UNCHANGED <<dbVars, lock, runVars, lease, moved, boundVars>>

\* ... and writes them one by one, whatever they hold by then.  A cron
\* expression that cannot be parsed, or a failed write, is skipped.
BackfillOne(t) ==
    /\ t \in backfill
    /\ backfill' = backfill \ {t}
    /\ \/ /\ t \notin BadCron
          /\ nextRun' = [nextRun EXCEPT ![t] = "future"]
          /\ moved' = moved \cup {t}
          /\ UNCHANGED faults
       \/ /\ t \in BadCron
          /\ UNCHANGED <<nextRun, moved, faults>>
       \/ /\ Fault
          /\ UNCHANGED <<nextRun, moved>>
    /\ UNCHANGED <<runCount, logs, lock, runVars, lease, triggers>>

-----------------------------------------------------------------------------
(* The environment: time and crashes                                       *)

Countdown(n) == IF n > 0 THEN n - 1 ELSE 0

\* Slip: the key is set without EX, and only a release removes it.
TickWithoutTTL ==
    /\ lock > 0 \/ \E r \in Runners : deadline[r] > 0
    /\ deadline' = [r \in Runners |-> Countdown(deadline[r])]
    /\ UNCHANGED <<dbVars, lock, backfill, pc, task, todo, hasLog, manual,
                   lease, moved, boundVars>>

\* One unit of time passes for the lock and for every pending request.
Tick ==
    /\ lock > 0 \/ \E r \in Runners : deadline[r] > 0
    /\ lock' = Countdown(lock)
    /\ deadline' = [r \in Runners |-> Countdown(deadline[r])]
    /\ lease' = [r \in Runners |-> lease[r] /\ lock > 1]
    /\ UNCHANGED <<dbVars, backfill, pc, task, todo, hasLog, manual, moved,
                   boundVars>>

BecomeDue(t) ==
    /\ nextRun[t] = "future"
    /\ triggers > 0
    /\ triggers' = triggers - 1
    /\ nextRun' = [nextRun EXCEPT ![t] = "due"]
    /\ UNCHANGED <<runCount, logs, lock, backfill, runVars, lease, moved,
                   faults>>

\* The process dies: its lock and its run log stay as they are.
Crash(r) ==
    /\ pc[r] # "idle"
    /\ Fault
    /\ Goto(r, "idle")
    /\ task' = [task EXCEPT ![r] = NoTask]
    /\ hasLog' = [hasLog EXCEPT ![r] = FALSE]
    /\ manual' = [manual EXCEPT ![r] = FALSE]
    /\ lease' = [lease EXCEPT ![r] = FALSE]
    /\ todo' = [todo EXCEPT ![r] = {}]
    /\ deadline' = [deadline EXCEPT ![r] = 0]
    /\ UNCHANGED <<dbVars, lock, backfill, moved, triggers>>

-----------------------------------------------------------------------------
Step(r) ==
    \/ FetchDue(r) \/ FetchFails(r) \/ StartTask(r) \/ EndLoop(r)
    \/ ReleaseLock(r) \/ ReleaseFails(r)
    \/ CreateRunLog(r) \/ CreateRunLogFails(r)
    \/ SendRequest(r) \/ EmitExecute(r)
    \/ Reply(r) \/ ReplyError(r) \/ RequestTimeout(r)
    \/ RecordSuccess(r) \/ RecordSuccessFails(r)
    \/ FinishLogOk(r) \/ FinishLogOkFails(r)
    \/ RecordFailure(r) \/ FinishLogFailed(r) \/ CatchBlockFails(r)

Next ==
    \/ \E r \in Runners : AcquireLock(r) \/ Step(r) \/ Crash(r)
    \/ \E r \in Runners, t \in Tasks : RunById(r, t)
    \/ \E t \in Tasks : Create(t) \/ BackfillOne(t) \/ BecomeDue(t)
    \/ StartInstance
    \/ AcquireLost
    \/ Tick

Spec == Init /\ [][Next]_vars

\* The cron library calls the handler every minute, a running handler goes
\* on, requests end (with a reply, an error or the timeout) and time passes.
\* Nothing is assumed of manual triggers, start-ups, failures and crashes.
Fairness ==
    /\ \A r \in Runners : WF_vars(AcquireLock(r)) /\ WF_vars(Step(r))
    /\ WF_vars(Tick)

FairSpec == Spec /\ Fairness

-----------------------------------------------------------------------------
(* Properties                                                              *)

\* Types; a runner works on a schedule exactly while it is in executeTask,
\* and a manual run is nothing but one executeTask.
TypeOK ==
    /\ nextRun \in [Tasks -> {"absent", "null", "due", "future"}]
    /\ runCount \in [Tasks -> Nat]
    /\ logs \in [Tasks -> [open : Int, ok : Nat]]
    /\ lock \in 0..LockTTL
    /\ backfill \in SUBSET Tasks
    /\ pc \in [Runners -> Pc]
    /\ task \in [Runners -> Tasks \cup {NoTask}]
    /\ \A r \in Runners : pc[r] \in Executing <=> task[r] \in Tasks
    /\ todo \in [Runners -> SUBSET Tasks]
    /\ hasLog \in [Runners -> BOOLEAN]
    /\ deadline \in [Runners -> 0..RpcTimeout]
    /\ manual \in [Runners -> BOOLEAN]
    /\ \A r \in Runners : manual[r] => pc[r] \in Executing
    /\ lease \in [Runners -> BOOLEAN]
    /\ moved \in SUBSET Tasks
    /\ triggers \in 0..MaxTriggers
    /\ faults \in 0..MaxFaults

\* A runner is inside the part of handleHourlyTasks the lock protects.
InCron(r) == \/ pc[r] \in {"fetch", "loop", "release"}
             \/ pc[r] \in Executing /\ ~manual[r]

\* The lock serialises cron runs for as long as it lasts: of two overlapping
\* runs of handleHourlyTasks at most one still owns the key, and while one
\* owns it the key exists, so that two runs overlap only after a run outlived
\* the 300 seconds or had its key deleted by such a run.
LeaseExclusive ==
    /\ \A r, s \in Runners : lease[r] /\ lease[s] => r = s
    /\ \A r \in Runners : lease[r] => lock > 0 /\ InCron(r)

\* A cron run that still owns the lock never starts a schedule that somebody
\* has rescheduled since the run read its list, unless a manual trigger, a
\* start-up backfill or a run that lost the lock wrote the row meanwhile: an
\* occurrence is not executed twice by runs that own the lock.
NoStaleStart ==
    \A r \in Runners :
        lease[r] /\ pc[r] = "log" =>
            nextRun[task[r]] \in {"due", "null"} \/ task[r] \in moved

\* The cron runs use their lock the way RedisLock allows.
Lock == INSTANCE RedisLock WITH
            Clients <- Runners, TTL <- LockTTL, key <- lock,
            inside <- {r \in Runners : InCron(r)},
            lease <- {r \in Runners : lease[r]}
LockUse == Lock!LockSpec

Counting(t) == {r \in Runners : pc[r] = "okLog" /\ task[r] = t}
Logging(t)  == {r \in Runners : /\ pc[r] \in Executing \ {"log"}
                                /\ hasLog[r]
                                /\ task[r] = t}

\* Whatever fails or crashes, and however manual and cron runs of a schedule
\* interleave, each run log finished as a success belongs to a run that
\* runCount counts, and each run in progress finds its own log unfinished.
LogAccounting ==
    \A t \in Tasks :
        /\ logs[t].ok + Cardinality(Counting(t)) <= runCount[t]
        /\ Cardinality(Logging(t)) <= logs[t].open

\* A due schedule is executed and gets a new time, although runs fail, time
\* out, crash with the lock held or lose it to its TTL.
DueIsServed ==
    \A t \in Enabled \ BadCron : nextRun[t] = "due" ~> nextRun[t] = "future"

\* "If cron parsing fails, set nextRun to null to prevent infinite retries":
\* executing a schedule whose cron expression cannot be parsed takes it off
\* the list of due schedules.
BadCronNotRetried ==
    \A t \in BadCron : runCount[t] > 0 => t \notin Due
=============================================================================
