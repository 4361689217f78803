---------------------------- MODULE Translations ----------------------------
(***************************************************************************)
(* Translations of a text of the core service (libs/translations): readers *)
(* that find none, or an old one, leave a job for the scheduler, whose     *)
(* handlers ask DeepL and store the answer; the broadcast of a tile        *)
(* translates its text into every locale first, in the core service.      *)
(*                                                                         *)
(* One field of one entity.  Its texts stand for their hashes.  The text   *)
(* is the one a translation is of, Source what is shown untranslated, and  *)
(* Manual what the seeds have stored, which has no hash.  An action is the *)
(* code between two awaits.                                                *)
(***************************************************************************)
EXTENDS Integers, FiniteSets, Sequences

CONSTANTS
    Texts,      \* texts the field may have
    Locales,    \* locales other than that of the text, all of them broadcast to
    Asked,      \* those that requests ask for
    Workers,    \* jobs the scheduler handles at once
    Readers,    \* requests that show the field
    Broadcasts, \* broadcasts of the tile
    Limit,      \* TRANSLATIONS_MAX_CONCURRENT: DeepL requests of a process
    MaxRetries, \* DeepL requests repeated after a 429
    MaxRequeues,\* times a rate-limited job is published again
    MaxEdits,   \* bound: edits of the text
    MaxFaults   \* bound: errors, last 429s, lost and doubled messages, restarts

Source == "source"
Manual == "manual"
NoRow == "noRow"

ASSUME TranslationsAssumption ==
    /\ Asked \subseteq Locales
    /\ Limit \in Nat \ {0}
    /\ MaxRetries \in Nat /\ MaxRequeues \in Nat
    /\ MaxEdits \in Nat /\ MaxFaults \in Nat
    /\ {Source, Manual, NoRow} \cap Texts = {}
    /\ Workers \cap (Broadcasts \X Locales) = {}
    /\ IsFiniteSet(Workers) /\ IsFiniteSet(Broadcasts)
    /\ IsFiniteSet(Locales) /\ Locales # {}

VARIABLES
    tile,       \* the entity is a tile, broadcast and never seeded
    text,       \* the field
    row,        \* its translations: NoRow, Manual or the text translated
    queue,      \* jobs published
    timers,     \* jobs the scheduler will publish again
    task,       \* what each handler or broadcast does for one locale
    running,    \* limiter of each process: slots given
    waiting,    \* limiter of each process: tasks queued for a slot
    reader,     \* each request: control, locale, text it read
    broadcast,  \* each broadcast: control, text, what it sends to each locale
    disturbed,  \* history: broadcasts whose translations failed or were replaced
    edits, faults  \* what remains of the bounds

bounds == <<edits, faults>>
limiter == <<running, waiting>>
vars == <<tile, text, row, queue, timers, task, limiter, reader, broadcast,
          disturbed, bounds>>

Tasks == Workers \cup (Broadcasts \X Locales)

\* Handlers run in the scheduler, broadcasts in the core service.
Process == {"scheduler", "core"}
ProcessOf(t) == IF t \in Workers THEN "scheduler" ELSE "core"

Job == [text : Texts, locale : Locales, attempts : 0..MaxRequeues]

Idle == [pc |-> "idle", job |-> [text |-> CHOOSE t \in Texts : TRUE, locale |-> CHOOSE l \in Locales : TRUE,
                                 attempts |-> 0], retries |-> 0]
NoRead == [pc |-> "idle", locale |-> CHOOSE l \in Locales : TRUE, text |-> CHOOSE t \in Texts : TRUE]
NoBroadcast == [pc |-> "idle", text |-> CHOOSE t \in Texts : TRUE, sent |-> [l \in Locales |-> Source]]

Init ==
    /\ tile \in BOOLEAN
    /\ text \in Texts
    /\ row \in [Locales -> IF tile THEN {NoRow} ELSE {NoRow, Manual}]
    /\ queue = {} /\ timers = {}
    /\ task = [t \in Tasks |-> Idle]
    /\ running = [p \in Process |-> 0]
    /\ waiting = [p \in Process |-> <<>>]
    /\ reader = [r \in Readers |-> NoRead]
    /\ broadcast = [b \in Broadcasts |-> NoBroadcast]
    /\ disturbed = {}
    /\ edits = MaxEdits /\ faults = MaxFaults

Fault == /\ faults > 0
         /\ faults' = faults - 1
         /\ UNCHANGED edits

NoFault == UNCHANGED bounds

-----------------------------------------------------------------------------
(* Publishing and reading                                                  *)

\* A job is published once; or lost, on an error of the channel.  Jobs are
\* alike if they ask the same, so that publishing one again adds nothing.
Publish(j) ==
    \/ queue' = queue \cup {j} /\ NoFault
    \/ Fault /\ UNCHANGED queue

\* Slip: the hash of the text is not compared.
NeverOutdated(l, t) == FALSE

Outdated(l, t) == row[l] \in Texts /\ row[l] # t

Missing(l, t) == row[l] = NoRow

\* Slip: any translation will do.
NeedsAny(l, t) == row[l] = NoRow

\* hasTranslationWithHash does not find that of t.
NeedsTranslation(l, t) == row[l] # t

\* What is shown of text t: its translation, or the text as long as the
\* translation is missing or of another text.
Copy(l, t) == IF row[l] = NoRow \/ Outdated(l, t) THEN Source ELSE row[l]

\* getTranslation and getTranslationFromMap leave a job if one is needed.
GetTranslation(l, t) ==
    IF Outdated(l, t) \/ Missing(l, t)
    THEN Publish([text |-> t, locale |-> l, attempts |-> 0])
    ELSE NoFault /\ UNCHANGED queue

\* A request reads the entity,
ReadText(r) ==
    /\ reader[r].pc = "idle"
    /\ \E l \in Asked :
          reader' = [reader EXCEPT ![r] = [pc |-> "look", locale |-> l, text |-> text]]
    /\ UNCHANGED <<tile, text, row, queue, timers, task, limiter, broadcast,
                   disturbed, bounds>>

\* then its translation.
ShowText(r) ==
    /\ reader[r].pc = "look"
    /\ GetTranslation(reader[r].locale, reader[r].text)
    /\ reader' = [reader EXCEPT ![r] = NoRead]
    /\ UNCHANGED <<tile, text, row, timers, task, limiter, broadcast, disturbed>>

EditText ==
    /\ edits > 0
    /\ edits' = edits - 1
    /\ text' \in Texts \ {text}
    /\ UNCHANGED <<tile, row, queue, timers, task, limiter, reader, broadcast,
                   disturbed, faults>>

-----------------------------------------------------------------------------
(* The limiter                                                             *)

\* Slip: a slot that is handed over is counted as free.
ReleaseUncounted(t) ==
    LET p == ProcessOf(t)
    IN  /\ running' = [running EXCEPT ![p] = @ - 1]
        /\ waiting' = [waiting EXCEPT ![p] = IF @ = <<>> THEN @ ELSE Tail(@)]

\* The slot of t is free, or goes to the task that has waited longest.
Release(t) ==
    LET p == ProcessOf(t)
    IN  /\ running' = [running EXCEPT ![p] = IF waiting[p] = <<>> THEN @ - 1 ELSE @]
        /\ waiting' = [waiting EXCEPT ![p] = IF @ = <<>> THEN @ ELSE Tail(@)]

\* Task t leaves its slot in state x, and the next task, if any, takes it.
Leave(t, x) ==
    LET p == ProcessOf(t)
    IN  task' = [u \in Tasks |->
                    IF u = t THEN x
                    ELSE IF waiting[p] # <<>> /\ u = Head(waiting[p])
                         THEN [task[u] EXCEPT !.pc = "call"] ELSE task[u]]

-----------------------------------------------------------------------------
(* The scheduler's handler                                                 *)

\* A message is acknowledged when it is delivered; one that was published twice
\* stays.  hasTranslationWithHash (the delivery counts from its answer) tells if
\* the job is needed, and then it asks for a slot.
HandleAutoTranslate(w, j) ==
    /\ task[w].pc = "idle"
    /\ j \in queue
    /\ \/ queue' = queue \ {j} /\ NoFault
       \/ Fault /\ UNCHANGED queue
    /\ IF ~NeedsTranslation(j.locale, j.text)
       THEN UNCHANGED <<task, limiter>>
       ELSE IF running["scheduler"] < Limit
       THEN /\ task' = [task EXCEPT ![w] = [pc |-> "call", job |-> j, retries |-> 0]]
            /\ running' = [running EXCEPT !["scheduler"] = @ + 1]
            /\ UNCHANGED waiting
       ELSE /\ task' = [task EXCEPT ![w] = [pc |-> "wait", job |-> j, retries |-> 0]]
            /\ waiting' = [waiting EXCEPT !["scheduler"] = Append(@, w)]
            /\ UNCHANGED running
    /\ UNCHANGED <<tile, text, row, timers, reader, broadcast, disturbed>>

\* A failed query is logged, and the job gone.
HandleFails(j) ==
    /\ j \in queue
    /\ Fault
    /\ queue' = queue \ {j}
    /\ UNCHANGED <<tile, text, row, timers, task, limiter, reader, broadcast, disturbed>>

-----------------------------------------------------------------------------
(* DeepL and the row, for handlers and broadcasts                          *)

\* A broadcast translates into each locale; the broadcast t belongs to, if any.
TasksOf(b) == {<<b, l>> : l \in Locales}
BroadcastOf(t) == IF t \in Workers THEN {} ELSE {t[1]}

Finished(t) == IF t \in Workers THEN Idle ELSE [task[t] EXCEPT !.pc = "done", !.retries = 0]

Translate(t) ==
    /\ task[t].pc = "call"
    /\ task' = [task EXCEPT ![t] = [@ EXCEPT !.pc = "write", !.retries = 0]]
    /\ UNCHANGED <<tile, text, row, queue, timers, limiter, reader, broadcast,
                   disturbed, bounds>>

\* A 429 is tried again after a delay, in the same slot.
RetryTranslate(t) ==
    /\ task[t].pc = "call"
    /\ task[t].retries < MaxRetries
    /\ task' = [task EXCEPT ![t].retries = @ + 1]
    /\ UNCHANGED <<tile, text, row, queue, timers, limiter, reader, broadcast,
                   disturbed, bounds>>

MayRequeue(j) == j.attempts < MaxRequeues

\* The last 429: a handler sets a timer to publish the job again, a few times.
RateLimited(t) ==
    LET j == task[t].job
    IN  /\ task[t].pc = "call"
        /\ task[t].retries = MaxRetries
        /\ Fault
        /\ timers' = IF t \in Workers /\ MayRequeue(j)
                     THEN timers \cup {[j EXCEPT !.attempts = @ + 1]} ELSE timers
        /\ Leave(t, Finished(t))
        /\ Release(t)
        /\ disturbed' = disturbed \cup BroadcastOf(t)
        /\ UNCHANGED <<tile, text, row, queue, reader, broadcast>>

\* Any other error of DeepL or of the database is logged.
TranslateFails(t) ==
    /\ task[t].pc \in {"call", "write"}
    /\ Fault
    /\ Leave(t, Finished(t))
    /\ Release(t)
    /\ disturbed' = disturbed \cup BroadcastOf(t)
    /\ UNCHANGED <<tile, text, row, queue, timers, reader, broadcast>>

UpsertTranslation(t) ==
    LET j == task[t].job
    IN  /\ task[t].pc = "write"
        /\ row' = [row EXCEPT ![j.locale] = j.text]
        /\ disturbed' = disturbed \cup {b \in Broadcasts : /\ broadcast[b].text # j.text
                                                        /\ task[<<b, j.locale>>].pc = "done"}
        /\ Leave(t, Finished(t))
        /\ Release(t)
        /\ UNCHANGED <<tile, text, queue, timers, reader, broadcast, bounds>>

Requeue(j) ==
    /\ j \in timers
    /\ timers' = timers \ {j}
    /\ Publish(j)
    /\ UNCHANGED <<tile, text, row, task, limiter, reader, broadcast, disturbed>>

-----------------------------------------------------------------------------
(* The broadcast of a tile                                                 *)

\* updateTile commits, and the broadcast goes on with what it wrote.
UpdateTile(b) ==
    /\ tile
    /\ broadcast[b].pc = "idle"
    /\ \E t \in Texts :
          /\ t # text => edits > 0
          /\ text' = t
          /\ edits' = IF t = text THEN edits ELSE edits - 1
          /\ broadcast' = [broadcast EXCEPT ![b] = [NoBroadcast EXCEPT !.pc = "check", !.text = t]]
          /\ task' = [u \in Tasks |->
                        IF u \in {b} \X Locales
                        THEN [pc |-> "check", retries |-> 0,
                              job |-> [text |-> t, locale |-> u[2], attempts |-> 0]]
                        ELSE task[u]]
    /\ UNCHANGED <<tile, row, queue, timers, limiter, reader, disturbed, faults>>

\* Which of the locales need a translation, one query each.
CheckLocale(b, l) ==
    /\ task[<<b, l>>].pc = "check"
    /\ task' = [task EXCEPT ![<<b, l>>].pc =
                   IF NeedsTranslation(l, broadcast[b].text) THEN "ready" ELSE "done"]
    /\ UNCHANGED <<tile, text, row, queue, timers, limiter, reader, broadcast,
                   disturbed, bounds>>

\* A failed query ends the translations of the broadcast.
CheckFails(b) ==
    /\ broadcast[b].pc = "check"
    /\ Fault
    /\ broadcast' = [broadcast EXCEPT ![b].pc = "translate"]
    /\ task' = [t \in Tasks |-> IF t \in TasksOf(b) THEN Finished(t) ELSE task[t]]
    /\ disturbed' = disturbed \cup {b}
    /\ UNCHANGED <<tile, text, row, queue, timers, limiter, reader>>

\* All that do are started, in some order.
StartLocales(b) ==
    LET ready == {t \in TasksOf(b) : task[t].pc = "ready"}
        free == Limit - running["core"]
    IN  /\ broadcast[b].pc = "check"
        /\ \A t \in TasksOf(b) : task[t].pc \in {"ready", "done"}
        /\ \E order \in [1..Cardinality(ready) -> ready] :
              LET first == {order[i] : i \in {k \in DOMAIN order : k <= free}}
              IN  /\ \A i, k \in DOMAIN order : order[i] = order[k] => i = k
                  /\ task' = [t \in Tasks |->
                                IF t \in first THEN [task[t] EXCEPT !.pc = "call"]
                                ELSE IF t \in ready THEN [task[t] EXCEPT !.pc = "wait"]
                                ELSE task[t]]
                  /\ running' = [running EXCEPT !["core"] = @ + Cardinality(first)]
                  /\ waiting' = [waiting EXCEPT !["core"] =
                                    @ \o SubSeq(order, Cardinality(first) + 1, Len(order))]
        /\ broadcast' = [broadcast EXCEPT ![b].pc = "translate"]
        /\ UNCHANGED <<tile, text, row, queue, timers, reader, disturbed, bounds>>

\* When all have settled, the copy for each locale is looked up.
ResolvePushCopy(b, l) ==
    /\ broadcast[b].pc = "translate"
    /\ \A t \in TasksOf(b) : task[t].pc \in {"done", "idle"}
    /\ task[<<b, l>>].pc = "done"
    /\ GetTranslation(l, broadcast[b].text)
    /\ broadcast' = [broadcast EXCEPT ![b].sent[l] = Copy(l, broadcast[b].text)]
    /\ task' = [task EXCEPT ![<<b, l>>] = Idle]
    /\ UNCHANGED <<tile, text, row, timers, limiter, reader, disturbed>>

AllResolved(b) ==
    broadcast[b].pc = "translate" /\ \A t \in TasksOf(b) : task[t].pc = "idle"

\* The messages are published, one for each locale.
EmitBroadcast(b) ==
    /\ AllResolved(b)
    /\ broadcast' = [broadcast EXCEPT ![b] = NoBroadcast]
    /\ disturbed' = disturbed \ {b}
    /\ UNCHANGED <<tile, text, row, queue, timers, task, limiter, reader, bounds>>

-----------------------------------------------------------------------------
(* Restarts                                                                *)

\* The scheduler loses its timers and the jobs it had acknowledged.
RestartScheduler ==
    /\ Fault
    /\ timers' = {}
    /\ task' = [t \in Tasks |-> IF t \in Workers THEN Idle ELSE task[t]]
    /\ running' = [running EXCEPT !["scheduler"] = 0]
    /\ waiting' = [waiting EXCEPT !["scheduler"] = <<>>]
    /\ UNCHANGED <<tile, text, row, queue, reader, broadcast, disturbed>>

\* The core service loses its requests and broadcasts.
RestartCore ==
    /\ Fault
    /\ task' = [t \in Tasks |-> IF t \in Workers THEN task[t] ELSE Idle]
    /\ running' = [running EXCEPT !["core"] = 0]
    /\ waiting' = [waiting EXCEPT !["core"] = <<>>]
    /\ reader' = [r \in Readers |-> NoRead]
    /\ broadcast' = [b \in Broadcasts |-> NoBroadcast]
    /\ disturbed' = {}
    /\ UNCHANGED <<tile, text, row, queue, timers>>

-----------------------------------------------------------------------------
TaskStep(t) ==
    \/ Translate(t) \/ RetryTranslate(t) \/ RateLimited(t) \/ TranslateFails(t)
    \/ UpsertTranslation(t)

BroadcastStep(b) ==
    \/ CheckFails(b) \/ StartLocales(b) \/ EmitBroadcast(b)
    \/ \E l \in Locales : CheckLocale(b, l) \/ ResolvePushCopy(b, l)

Next ==
    \/ \E r \in Readers : ReadText(r) \/ ShowText(r)
    \/ EditText
    \/ \E j \in Job : Requeue(j) \/ HandleFails(j) \/ \E w \in Workers : HandleAutoTranslate(w, j)
    \/ \E t \in Tasks : TaskStep(t)
    \/ \E b \in Broadcasts : UpdateTile(b) \/ BroadcastStep(b)
    \/ RestartScheduler \/ RestartCore

Spec == Init /\ [][Next]_vars

\* The scheduler takes jobs as long as a handler is free and goes on with those it
\* has taken: DeepL and the database answer or fail.  Nothing is assumed of
\* requests, timers, edits, broadcasts, faults and restarts.
FairSpec ==
    /\ Spec
    /\ WF_vars(\E w \in Workers, j \in Job : HandleAutoTranslate(w, j))
    /\ \A w \in Workers : WF_vars(TaskStep(w))

-----------------------------------------------------------------------------
(* Properties                                                              *)

Pc == {"idle", "check", "ready", "wait", "call", "write", "done"}

\* Types; and only a row that is seeded has no hash, which a tile never is.
TypeOK ==
    /\ tile \in BOOLEAN
    /\ text \in Texts
    /\ row \in [Locales -> Texts \cup {NoRow, Manual}]
    /\ \A l \in Locales : tile => row[l] # Manual
    /\ queue \in SUBSET Job /\ timers \in SUBSET Job
    /\ task \in [Tasks -> [pc : Pc, job : Job, retries : 0..MaxRetries]]
    /\ running \in [Process -> 0..Limit]
    /\ waiting \in [Process -> Seq(Tasks)]
    /\ reader \in [Readers -> [pc : {"idle", "look"}, locale : Locales, text : Texts]]
    /\ broadcast \in [Broadcasts -> [pc : {"idle", "check", "translate"},
                                    text : Texts,
                                    sent : [Locales -> Texts \cup {Source, Manual}]]]
    /\ disturbed \in SUBSET Broadcasts
    /\ edits \in 0..MaxEdits /\ faults \in 0..MaxFaults

\* The state is well typed; the limiter of a process counts the tasks that have
\* a slot, and no task waits while one is free: whatever the order in which tasks
\* end, fail and are handed a slot, none is lost and none is given twice.
SlotsAreKept ==
    /\ TypeOK
    /\ \A p \in Process :
        LET In(pcs) == {t \in Tasks : ProcessOf(t) = p /\ task[t].pc \in pcs}
        IN  /\ running[p] = Cardinality(In({"call", "write"}))
            /\ {waiting[p][i] : i \in DOMAIN waiting[p]} = In({"wait"})
            /\ Len(waiting[p]) = Cardinality(In({"wait"}))
            /\ waiting[p] # <<>> => running[p] = Limit

\* Subscribers never receive the untranslated text of a tile, nor the translation
\* of another of its texts, although jobs of other texts are handled meanwhile:
\* what a broadcast sends to a locale is the translation of its text, unless one
\* of its translations failed or was replaced before it was read.
BroadcastIsTranslated ==
    \A b \in Broadcasts \ disturbed : AllResolved(b) =>
        \A l \in Locales : broadcast[b].sent[l] = broadcast[b].text

Settled(l) == row[l] \in {text, Manual}

LookedAt(l) == \E r \in Readers : reader[r].locale = l /\ ShowText(r)

\* However late old jobs are handled, and whatever was lost, a text that no longer
\* changes gets its translation for good if requests keep asking for it.
EventuallyTranslated ==
    \A l \in Asked : []<><<LookedAt(l)>>_vars => <>[]Settled(l)
=============================================================================
