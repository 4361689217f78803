---------------------------- MODULE Registration ----------------------------
(***************************************************************************)
(* Registration of a user, with or without a city (users service), as the  *)
(* saga that spans the users database, the core service and Redis          *)
(* (apps/users/src/modules/users/users.service.ts,                         *)
(* libs/saga/src/saga-orchestrator.service.ts, createUserCityAssignment of *)
(* apps/core/src/modules/core/core.service.ts).                            *)
(*                                                                         *)
(* Requests run concurrently, possibly for the same e-mail.  Every action  *)
(* is the code between two awaits.  Redis errors do not throw: a failed    *)
(* write is lost, a failed read looks like a saga that does not exist.  A  *)
(* message to the core service may be lost, late or answered with an       *)
(* error; the request for it times out after 10 seconds, and the core      *)
(* service does not learn that it has.                                     *)
(***************************************************************************)
EXTENDS Integers, Sequences

CONSTANTS
    Requests,   \* calls of register; a request also names the user it creates
    WithCity,   \* those that carry a cityId
    Emails, EmailOf,
    NoSaga,
    MaxFaults   \* bound: failed calls, lost messages and crashes

ASSUME RegistrationAssumption ==
    /\ WithCity \subseteq Requests
    /\ EmailOf \in [Requests -> Emails]
    /\ MaxFaults \in Nat

VARIABLES
    users,      \* rows of the users database
    assigned,   \* users with a city assignment in the core database
    saga,       \* what Redis holds of each saga
    message,    \* CORE_CREATE_USER_CITY_ASSIGNMENT and its reply
    emitted,    \* users whose USER_CREATED event was emitted
    pc,
    result,     \* what each request has answered
    faults

vars == <<users, assigned, saga, message, emitted, pc, result, faults>>

Status == {"PENDING", "COMPLETED", "FAILED", "COMPENSATING", "COMPENSATED"}

\* currentStep counts completed steps: CREATE_USER is steps[1], ASSIGN_CITY
\* steps[2].
Sagas == [current : 0..2, steps : [1..2 -> Status], status : Status]

\* What getSaga answers for a saga Redis does not hold is no saga.
ASSUME NoSagaAssumption == NoSaga \notin Sagas

Pc == {"idle", "check", "createSaga", "createUser", "step1", "send", "wait",
       "step2", "fail", "compensate", "deleteUser", "markCompensated",
       "failOuter", "emit", "done"}
Results == {"none", "registered", "duplicate", "rolledBack", "error", "crashed"}

Init ==
    /\ users = {}
    /\ assigned = {}
    /\ saga = [r \in Requests |-> NoSaga]
    /\ message = [r \in Requests |-> "none"]
    /\ emitted = {}
    /\ pc = [r \in Requests |-> "idle"]
    /\ result = [r \in Requests |-> "none"]
    /\ faults = MaxFaults

Fault == faults > 0 /\ faults' = faults - 1

Goto(r, label) == pc' = [pc EXCEPT ![r] = label] /\ UNCHANGED result

Answer(r, answer) ==
    /\ pc' = [pc EXCEPT ![r] = "done"]
    /\ result' = [result EXCEPT ![r] = answer]

EmailTaken(r) == \E u \in users : EmailOf[u] = EmailOf[r]

-----------------------------------------------------------------------------
(* The saga orchestrator                                                   *)

\* redis.set: the write is made, or lost without a trace.
SaveSaga(r, s) ==
    \/ saga' = [saga EXCEPT ![r] = s] /\ UNCHANGED faults
    \/ Fault /\ UNCHANGED saga

\* getSaga finds nothing: there is nothing, or the read failed.
NotFound(r) ==
    /\ \/ saga[r] = NoSaga /\ UNCHANGED faults
       \/ Fault
    /\ UNCHANGED saga

\* Slip: the steps are counted from one.
NewSagaFromOne == [current |-> 1, steps |-> [i \in 1..2 |-> "PENDING"],
                   status |-> "PENDING"]

NewSaga == [current |-> 0, steps |-> [i \in 1..2 |-> "PENDING"],
            status |-> "PENDING"]

SetCurrent(s, status) ==
    IF s.current < 2 THEN [s EXCEPT !.steps[s.current + 1] = status] ELSE s

\* Slip: any executed step completes the saga.
ExecutedAtOnce(s) ==
    [SetCurrent(s, "COMPLETED") EXCEPT !.current = @ + 1, !.status = "COMPLETED"]

\* executeStep
Executed(s) ==
    LET done == SetCurrent(s, "COMPLETED")
    IN  [done EXCEPT !.current = @ + 1,
                     !.status = IF s.current + 1 >= 2 THEN "COMPLETED" ELSE @]

\* failStep
Failed(s) == [SetCurrent(s, "FAILED") EXCEPT !.status = "COMPENSATING"]

\* Slip: the last completed step is left out.
ToCompensateButLast(s) ==
    {i \in 1..2 : i < s.current /\ s.steps[i] = "COMPLETED"}

\* compensate: the completed steps before the current one.
ToCompensate(s) == {i \in 1..2 : i <= s.current /\ s.steps[i] = "COMPLETED"}
Compensating(s) ==
    [s EXCEPT !.steps = [i \in 1..2 |-> IF i \in ToCompensate(s)
                                        THEN "COMPENSATING" ELSE s.steps[i]]]

\* markCompensated
Compensated(s) ==
    [s EXCEPT !.steps = [i \in 1..2 |-> IF s.steps[i] = "COMPENSATING"
                                        THEN "COMPENSATED" ELSE s.steps[i]],
              !.status = "COMPENSATED"]

-----------------------------------------------------------------------------
(* One request                                                             *)

Register(r) ==
    /\ pc[r] = "idle"
    /\ Goto(r, "check")
    /\ UNCHANGED <<users, assigned, saga, message, emitted, faults>>

CheckEmail(r) ==
    /\ pc[r] = "check"
    /\ IF EmailTaken(r)
       THEN Answer(r, "duplicate")
       ELSE Goto(r, IF r \in WithCity THEN "createSaga" ELSE "createUser")
    /\ UNCHANGED <<users, assigned, saga, message, emitted, faults>>

CreateSaga(r) ==
    /\ pc[r] = "createSaga"
    /\ SaveSaga(r, NewSaga)
    /\ Goto(r, "createUser")
    /\ UNCHANGED <<users, assigned, message, emitted>>

\* The e-mail is unique in the database.
CreateUser(r) ==
    /\ pc[r] = "createUser"
    /\ ~EmailTaken(r)
    /\ users' = users \cup {r}
    /\ Goto(r, IF r \in WithCity THEN "step1" ELSE "emit")
    /\ UNCHANGED <<assigned, saga, message, emitted, faults>>

CreateUserFails(r) ==
    /\ pc[r] = "createUser"
    /\ \/ EmailTaken(r) /\ UNCHANGED faults
       \/ Fault
    /\ IF r \in WithCity THEN Goto(r, "failOuter") ELSE Answer(r, "error")
    /\ UNCHANGED <<users, assigned, saga, message, emitted>>

ExecuteStep1(r) ==
    /\ pc[r] = "step1"
    /\ \/ NotFound(r) /\ Goto(r, "failOuter")
       \/ /\ saga[r] # NoSaga
          /\ SaveSaga(r, Executed(saga[r]))
          /\ Goto(r, "send")
    /\ UNCHANGED <<users, assigned, message, emitted>>

SendAssignment(r) ==
    /\ pc[r] = "send"
    /\ \/ message' = [message EXCEPT ![r] = "queued"] /\ UNCHANGED faults
       \/ Fault /\ UNCHANGED message
    /\ Goto(r, "wait")
    /\ UNCHANGED <<users, assigned, saga, emitted>>

\* The core service, at any time after the message was sent.
CreateUserCityAssignment(r) ==
    /\ message[r] = "queued"
    /\ \/ /\ assigned' = assigned \cup {r}
          /\ message' = [message EXCEPT ![r] = "success"]
          /\ UNCHANGED faults
       \/ /\ Fault
          /\ message' = [message EXCEPT ![r] = "failure"]
          /\ UNCHANGED assigned
    /\ UNCHANGED <<users, saga, emitted, pc, result>>

\* Slip: a reply is taken for a success.
ReceiveAnyReply(r) ==
    /\ pc[r] = "wait"
    /\ message[r] \in {"success", "failure"}
    /\ Goto(r, "step2")
    /\ UNCHANGED <<users, assigned, saga, message, emitted, faults>>

ReceiveReply(r) ==
    /\ pc[r] = "wait"
    /\ message[r] \in {"success", "failure"}
    /\ Goto(r, IF message[r] = "success" THEN "step2" ELSE "fail")
    /\ UNCHANGED <<users, assigned, saga, message, emitted, faults>>

\* Slip: the request has no timeout, only its replies end it.
TimeoutOnlyOnFailure(r) ==
    /\ pc[r] = "wait"
    /\ message[r] = "failure"
    /\ Goto(r, "fail")
    /\ UNCHANGED <<users, assigned, saga, message, emitted, faults>>

Timeout(r) ==
    /\ pc[r] = "wait"
    /\ Goto(r, "fail")
    /\ UNCHANGED <<users, assigned, saga, message, emitted, faults>>

ExecuteStep2(r) ==
    /\ pc[r] = "step2"
    /\ \/ NotFound(r) /\ Goto(r, "fail")
       \/ /\ saga[r] # NoSaga
          /\ SaveSaga(r, Executed(saga[r]))
          /\ Goto(r, "emit")
    /\ UNCHANGED <<users, assigned, message, emitted>>

\* The catch block of the second step: failStep, compensate, delete the user,
\* markCompensated.  An error in it ends in the outer catch block.
FailStep(r) ==
    /\ pc[r] = "fail"
    /\ \/ NotFound(r) /\ Goto(r, "failOuter")
       \/ /\ saga[r] # NoSaga
          /\ SaveSaga(r, Failed(saga[r]))
          /\ Goto(r, "compensate")
    /\ UNCHANGED <<users, assigned, message, emitted>>

\* Of the steps to compensate only CREATE_USER is acted upon.
Compensate(r) ==
    /\ pc[r] = "compensate"
    /\ \/ NotFound(r) /\ Goto(r, "failOuter")
       \/ /\ saga[r] # NoSaga
          /\ SaveSaga(r, Compensating(saga[r]))
          /\ Goto(r, IF 1 \in ToCompensate(saga[r])
                     THEN "deleteUser" ELSE "markCompensated")
    /\ UNCHANGED <<users, assigned, message, emitted>>

DeleteUser(r) ==
    /\ pc[r] = "deleteUser"
    /\ \/ users' = users \ {r} /\ Goto(r, "markCompensated") /\ UNCHANGED faults
       \/ Fault /\ Goto(r, "failOuter") /\ UNCHANGED users
    /\ UNCHANGED <<assigned, saga, message, emitted>>

MarkCompensated(r) ==
    /\ pc[r] = "markCompensated"
    /\ \/ NotFound(r) /\ Goto(r, "failOuter")
       \/ /\ saga[r] # NoSaga
          /\ SaveSaga(r, Compensated(saga[r]))
          /\ Answer(r, "rolledBack")
    /\ UNCHANGED <<users, assigned, message, emitted>>

\* The outer catch block only marks the saga.
FailOuter(r) ==
    /\ pc[r] = "failOuter"
    /\ \/ NotFound(r)
       \/ saga[r] # NoSaga /\ SaveSaga(r, Failed(saga[r]))
    /\ Answer(r, "error")
    /\ UNCHANGED <<users, assigned, message, emitted>>

EmitUserCreated(r) ==
    /\ pc[r] = "emit"
    /\ emitted' = emitted \cup {r}
    /\ Answer(r, "registered")
    /\ UNCHANGED <<users, assigned, saga, message, faults>>

Crash(r) ==
    /\ pc[r] \notin {"idle", "done"}
    /\ Fault
    /\ Answer(r, "crashed")
    /\ UNCHANGED <<users, assigned, saga, message, emitted>>

-----------------------------------------------------------------------------
Step(r) ==
    \/ CheckEmail(r) \/ CreateSaga(r) \/ CreateUser(r) \/ CreateUserFails(r)
    \/ ExecuteStep1(r) \/ SendAssignment(r) \/ ReceiveReply(r) \/ Timeout(r)
    \/ ExecuteStep2(r) \/ FailStep(r) \/ Compensate(r) \/ DeleteUser(r)
    \/ MarkCompensated(r) \/ FailOuter(r) \/ EmitUserCreated(r)

Next == \E r \in Requests :
            Register(r) \/ Step(r) \/ CreateUserCityAssignment(r) \/ Crash(r)

Spec == Init /\ [][Next]_vars

\* A request that has begun goes on: every await ends, the one for the reply
\* after 10 seconds at the latest.
FairSpec == Spec /\ \A r \in Requests : WF_vars(Step(r))

-----------------------------------------------------------------------------
(* Properties                                                              *)

\* Types.
TypeOK ==
    /\ users \subseteq Requests
    /\ assigned \subseteq WithCity
    /\ saga \in [Requests -> Sagas \cup {NoSaga}]
    /\ message \in [Requests -> {"none", "queued", "success", "failure"}]
    /\ emitted \subseteq Requests
    /\ pc \in [Requests -> Pc]
    /\ result \in [Requests -> Results]
    /\ faults \in 0..MaxFaults

\* The state is well typed; who is told that he is registered, and whom the
\* other services are told of, has an account, and an assignment if he asked for
\* a city, whatever failed on the way and whoever registered the e-mail meanwhile.
\* A saga that Redis records as completed has done both of its steps, and
\* nothing undoes them.
RegisteredIsComplete ==
    /\ TypeOK
    /\ \A r \in Requests : result[r] = "registered" \/ r \in emitted =>
          /\ r \in users
          /\ r \in WithCity => r \in assigned
    /\ \A r \in Requests : saga[r] # NoSaga /\ saga[r].status = "COMPLETED" =>
          r \in users /\ r \in assigned

\* As long as only the core service is slow, a request that reports a
\* failure leaves no account, so that the e-mail can be registered again.
FailureLeavesNoUser ==
    \A r \in Requests :
        /\ faults = MaxFaults
        /\ result[r] \in {"rolledBack", "error", "duplicate"}
        => r \notin users

\* Every request is answered, although the core service may never answer it
\* and Redis may fail, unless the service crashes with it.
EveryRequestAnswered ==
    \A r \in Requests : pc[r] = "check" ~> pc[r] = "done"

\* "Unexpected error - try to compensate"; "Always catch errors and trigger
\* compensation": a registration that fails leaves no account behind.
ErrorCompensated ==
    \A r \in Requests : result[r] = "error" => r \notin users

\* "Each step that modifies state should have a compensation": after a
\* rollback there is no assignment of the user that was deleted.
RollbackRemovesAssignment ==
    \A r \in Requests : result[r] = "rolledBack" => r \notin assigned
=============================================================================
