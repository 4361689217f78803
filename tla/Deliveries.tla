----------------------------- MODULE Deliveries -----------------------------
(***************************************************************************)
(* The notification service: bulk notifications are fanned out into rows   *)
(* and messages, messages are delivered by FCM or e-mail, and the Firebase *)
(* apps used for it are cached while their credentials are maintained.     *)
(*                                                                         *)
(* There is one city. The rows of firebaseProject are the project of the   *)
(* city, the default one and another without a city. An action is the code *)
(* between two awaits, the answer of a query and what follows it being     *)
(* separate where the answer can be old by then.                           *)
(***************************************************************************)
EXTENDS Integers, FiniteSets, SequencesExt

CONSTANTS
    Users,        \* registered users
    CityUsers,    \* those of the city
    Requests,     \* slots for requests to the controller
    Handlers,     \* slots for messages being handled
    Creds,        \* credentials
    Limit,        \* users on a page
    MaxMails,     \* attempts to send a mail
    MaxRows,      \* bound: notifications
    Budgets       \* bound: how often each kind of thing may happen in a behaviour

\* Bulk notifications, single messages, messages handled, changes of Firebase
\* projects, users who come or go; errors, lost and doubled messages, restarts.
Kinds == {"bulks", "messages", "deliveries", "projects", "changes", "faults"}

ASSUME DeliveriesAssumption ==
    /\ IsFiniteSet(Users) /\ CityUsers \subseteq Users
    /\ Limit \in Nat \ {0} /\ MaxMails \in Nat \ {0}
    /\ MaxRows \in Nat
    /\ Budgets \subseteq [Kinds -> Nat]
    /\ "none" \notin Creds

VARIABLES
    users,        \* the active users, newest first
    project,      \* rows of firebaseProject
    cache,        \* appCache: the credentials each cached app was made with
    row,          \* rows of notification
    queue,        \* messages NOTIFICATION_SEND
    request,      \* each request: operation, control and what it has read
    handler,      \* each message being handled
    accepted,     \* history: how often FCM or SMTP has accepted a notification
    doubtful,     \* history: notifications doubled, or accepted without an answer
    lost,         \* history: notifications whose message or status was lost
    raced,        \* history: projects read or cached while their credentials were replaced
    budget        \* what remains of the bounds

history == <<accepted, doubtful, lost>>
rows == <<row, queue>>
apps == <<project, cache, raced>>
vars == <<users, apps, rows, request, handler, history, budget>>

None == "none"
Projects == {"city", "kodi", "other"}
Ids == 1..MaxRows
Channels == {"PUSH", "EMAIL", "SMS"}

\* The ways to put the members of S in a row.
Orders(S) == {s \in [1..Cardinality(S) -> S] : \A u \in S : \E i \in DOMAIN s : s[i] = u}

NoBag == [u \in Users |-> 0]
NoApps == [p \in Projects |-> None]
NoRequest == [op |-> "none", pc |-> "idle", channel |-> "PUSH", page |-> 1, last |-> FALSE,
              todo |-> NoBag, got |-> NoBag, joined |-> {}, left |-> {}, failed |-> FALSE,
              project |-> "city", cred |-> None, read |-> NoApps]
NoMessage == [id |-> 0, channel |-> "PUSH", city |-> FALSE]
NoHandler == [pc |-> "idle", msg |-> NoMessage, tokens |-> 0, project |-> "city", cred |-> None]

\* Who is not there yet may still come.
Init ==
    /\ budget \in Budgets
    /\ \E S \in SUBSET Users : Cardinality(Users \ S) <= budget.changes /\ users \in Orders(S)
    /\ \E here \in BOOLEAN, cred \in Creds :
          project = [p \in Projects |->
                       LET there == p = "kodi" \/ (p = "city" /\ here)
                       IN  [exists |-> there, active |-> there, isDefault |-> p = "kodi", cred |-> cred]]
    /\ cache = [p \in Projects |-> IF project[p].active THEN project[p].cred ELSE None]
    /\ row = <<>> /\ queue = {}
    /\ request = [r \in Requests |-> NoRequest]
    /\ handler = [h \in Handlers |-> NoHandler]
    /\ accepted = [n \in Ids |-> 0]
    /\ doubtful = {} /\ lost = {} /\ raced = {}

SpendAll(S) ==
    /\ \A kind \in S : budget[kind] > 0
    /\ budget' = [kind \in Kinds |-> IF kind \in S THEN budget[kind] - 1 ELSE budget[kind]]

Spend(kind) == SpendAll({kind})

-----------------------------------------------------------------------------
(* Users come and go: what findByCity and findAllActive return              *)

Listed == {users[i] : i \in DOMAIN users}
Bulks == {r \in Requests : request[r].op \in {"city", "all"} /\ request[r].pc # "idle"}

\* A new user is the youngest, a converted guest has the age of the guest.
Join(u) ==
    /\ Spend("changes")
    /\ u \notin Listed
    /\ \E i \in 1..(Len(users) + 1) : users' = InsertAt(users, i, u)
    /\ request' = [r \in Requests |-> IF r \in Bulks THEN [request[r] EXCEPT !.joined = @ \cup {u}]
                                                     ELSE request[r]]
    /\ UNCHANGED <<apps, rows, handler, history>>

Leave(u) ==
    /\ Spend("changes")
    /\ u \in Listed
    /\ \E i \in DOMAIN users : users[i] = u /\ users' = RemoveAt(users, i)
    /\ request' = [r \in Requests |-> IF r \in Bulks THEN [request[r] EXCEPT !.left = @ \cup {u}]
                                                     ELSE request[r]]
    /\ UNCHANGED <<apps, rows, handler, history>>

\* findAllActive sorts by age, findByCity leaves the order to the database.
Listings(op) == IF op = "all" THEN {users} ELSE Orders(Listed \cap CityUsers)

Page(s, n) == {s[i] : i \in {k \in DOMAIN s : (n - 1) * Limit < k /\ k <= n * Limit}}
Pages(s) == (Len(s) + Limit - 1) \div Limit

-----------------------------------------------------------------------------
(* Bulk notifications                                                      *)

StartBulk(r, op) ==
    /\ Spend("bulks")
    /\ request[r].pc \in {"idle", "done"}
    /\ \E c \in Channels \ {"SMS"} :
          request' = [request EXCEPT ![r] = [NoRequest EXCEPT !.op = op, !.pc = "fetch", !.channel = c]]
    /\ UNCHANGED <<users, apps, rows, handler, history>>

Adding(bag, S) == [u \in Users |-> IF u \in S THEN bag[u] + 1 ELSE bag[u]]

\* Slip: the last page but one is taken for the last.
LastPageEarly(s, n) == n >= Pages(s) - 1

LastPage(s, n) == n >= Pages(s)

Fetched(q, page, end) ==
    [q EXCEPT !.todo = Adding(@, page),
              !.last = end,
              !.pc   = IF q.op = "city" \/ end THEN "send" ELSE "fetch",
              !.page = IF end THEN @ ELSE @ + 1]

\* The users of the city are served page by page, all users once all are known.
FetchPage(r) ==
    LET q == request[r]
    IN  /\ q.pc = "fetch"
        /\ \E s \in Listings(q.op) :
              LET page == Page(s, q.page)
              IN  request' = [request EXCEPT ![r] = Fetched(q, page, page = {} \/ LastPage(s, q.page))]
        /\ UNCHANGED <<users, apps, rows, handler, history, budget>>

\* No answer of the users service: the request ends with an error.
FetchFails(r) ==
    /\ request[r].pc = "fetch"
    /\ Spend("faults")
    /\ request' = [request EXCEPT ![r] = NoRequest]
    /\ UNCHANGED <<users, apps, rows, handler, history>>

\* The row and the message of a new notification; the message may get lost.
Send(channel, city, spent) ==
    /\ Len(row) < MaxRows
    /\ row' = Append(row, "PENDING")
    /\ \/ /\ SpendAll(spent)
          /\ queue' = queue \cup {[id |-> Len(row) + 1, channel |-> channel, city |-> city]}
          /\ UNCHANGED lost
       \/ /\ SpendAll(spent \cup {"faults"})
          /\ lost' = lost \cup {Len(row) + 1}
          /\ UNCHANGED queue
    /\ UNCHANGED <<users, apps, handler, accepted, doubtful>>

Served(q, u) == [q EXCEPT !.todo[u] = @ - 1, !.got[u] = @ + 1]
NotServed(q, u) == [q EXCEPT !.todo[u] = @ - 1, !.failed = TRUE]

\* The users of a page are served in any order.
SendToUser(r, u) ==
    /\ request[r].pc = "send"
    /\ request[r].todo[u] > 0
    /\ Send(request[r].channel, request[r].op = "city" \/ u \in CityUsers, {})
    /\ request' = [request EXCEPT ![r] = Served(@, u)]

\* A row that cannot be created is counted as failed.
SendToUserFails(r, u) ==
    /\ request[r].pc = "send"
    /\ request[r].todo[u] > 0
    /\ Spend("faults")
    /\ request' = [request EXCEPT ![r] = NotServed(@, u)]
    /\ UNCHANGED <<users, apps, rows, handler, history>>

EndPage(r) ==
    /\ request[r].pc = "send"
    /\ request[r].todo = NoBag
    /\ request' = [request EXCEPT ![r].pc = IF request[r].last THEN "done" ELSE "fetch"]
    /\ UNCHANGED <<users, apps, rows, handler, history, budget>>

\* POST notify, for one user.
Notify(c, city) ==
    /\ Send(c, city, {"messages"})
    /\ UNCHANGED request

\* Another service publishes a message without a row.
PublishWithoutRow(c, city) ==
    /\ Spend("messages")
    /\ queue' = queue \cup {[id |-> 0, channel |-> c, city |-> city]}
    /\ UNCHANGED <<users, apps, row, request, handler, history>>

-----------------------------------------------------------------------------
(* Delivery                                                                *)

Ended(h, verdict) == [handler EXCEPT ![h] = [NoHandler EXCEPT !.pc = verdict, !.msg = handler[h].msg]]
Fail(h) == Ended(h, "failed")

\* RabbitMQ forgets a message when it delivers it; one published twice stays.
\* A message without a row gets one, or is lost if that fails.
HandleNotificationSend(h, m) ==
    /\ handler[h].pc = "idle"
    /\ m \in queue
    /\ IF m.id = 0
       THEN /\ queue' = queue \ {m}
            /\ \/ /\ Len(row) < MaxRows
                  /\ row' = Append(row, "PENDING")
                  /\ handler' = [handler EXCEPT ![h] =
                                    [NoHandler EXCEPT !.pc = "route", !.msg = [m EXCEPT !.id = Len(row) + 1]]]
                  /\ Spend("deliveries")
               \/ SpendAll({"deliveries", "faults"}) /\ UNCHANGED <<row, handler>>
            /\ UNCHANGED history
       ELSE /\ \/ queue' = queue \ {m} /\ UNCHANGED doubtful /\ Spend("deliveries")
               \/ SpendAll({"deliveries", "faults"}) /\ doubtful' = doubtful \cup {m.id} /\ UNCHANGED queue
            /\ handler' = [handler EXCEPT ![h] = [NoHandler EXCEPT !.pc = "route", !.msg = m]]
            /\ UNCHANGED <<row, accepted, lost>>
    /\ UNCHANGED <<users, apps, request>>

\* Slip: without a token there is nothing to send, and nothing to record.
PrepareSilently(h) ==
    /\ handler[h].pc = "route"
    /\ handler[h].msg.channel = "PUSH"
    /\ \E t \in 0..2 :
          handler' = [handler EXCEPT ![h] =
              IF t = 0 THEN NoHandler
              ELSE [@ EXCEPT !.pc = IF @.msg.city THEN "city" ELSE "kodi", !.tokens = t]]
    /\ UNCHANGED <<users, apps, rows, request, history, budget>>

\* The users service knows the tokens of the user: none, one or several.
PreparePush(h) ==
    /\ handler[h].pc = "route"
    /\ handler[h].msg.channel = "PUSH"
    /\ \E t \in 0..2 :
          handler' = IF t = 0 THEN Fail(h)
                     ELSE [handler EXCEPT ![h].pc = IF handler[h].msg.city THEN "city" ELSE "kodi",
                                          ![h].tokens = t]
    /\ UNCHANGED <<users, apps, rows, request, history, budget>>

\* Slip: a batch fails like a single message if one of its tokens is invalid.
VerdictOfAny(tokens, some, invalid) == IF some /\ ~invalid THEN "sent" ELSE "failed"

\* Invalid tokens are logged, a failed batch too; only a single message fails.
Verdict(tokens, some, invalid) == IF some \/ invalid \/ tokens > 1 THEN "sent" ELSE "failed"

\* getFirebaseApp: the active project of the city, or else a default one; that there
\* is none is an answer of FCM to the caller.
LookUpProject(h) ==
    /\ handler[h].pc \in {"city", "kodi"}
    /\ IF handler[h].pc = "city"
       THEN handler' = [handler EXCEPT ![h] =
                IF project["city"].active
                THEN [@ EXCEPT !.pc = "app", !.project = "city", !.cred = project["city"].cred]
                ELSE [@ EXCEPT !.pc = "kodi"]]
       ELSE \/ \E p \in Projects :
                  /\ project[p].active /\ project[p].isDefault
                  /\ handler' = [handler EXCEPT ![h] =
                                    [@ EXCEPT !.pc = "app", !.project = p, !.cred = project[p].cred]]
            \/ /\ \A p \in Projects : ~(project[p].active /\ project[p].isDefault)
               /\ handler' = Ended(h, Verdict(handler[h].tokens, FALSE, FALSE))
    /\ UNCHANGED <<users, apps, rows, request, history, budget>>

\* getOrCreateApp: what is cached stays.
Cached(p, cred) == IF cache[p] = None THEN cred ELSE cache[p]

\* A request has cleared the cache of p and will write its credentials.
Replacing(p) ==
    \E r \in Requests : request[r].op = "credentials" /\ request[r].pc = "write" /\ request[r].project = p

\* Apps are made with the credentials that were read.
Fill(read) ==
    /\ cache' = [p \in Projects |-> Cached(p, read[p])]
    /\ raced' = raced \cup {p \in Projects : cache[p] = None /\ read[p] # None /\ Replacing(p)}

\* The app is there, and FCM is asked.
AskFcm(h) ==
    /\ handler[h].pc = "app"
    /\ Fill([p \in Projects |-> IF p = handler[h].project THEN handler[h].cred ELSE None])
    /\ handler' = [handler EXCEPT ![h].pc = "fcm", ![h].project = "city", ![h].cred = None]
    /\ UNCHANGED <<users, project, rows, request, history, budget>>

Accept(n) == accepted' = [accepted EXCEPT ![n] = @ + 1]

\* FCM accepts some of the messages or none, and finds some tokens invalid or none.
FcmAnswers(h) ==
    /\ handler[h].pc = "fcm"
    /\ \E some, invalid \in BOOLEAN :
          /\ some /\ invalid => handler[h].tokens > 1
          /\ IF some THEN Accept(handler[h].msg.id) ELSE UNCHANGED accepted
          /\ handler' = Ended(h, Verdict(handler[h].tokens, some, invalid))
    /\ UNCHANGED <<users, apps, rows, request, doubtful, lost, budget>>

\* FCM has accepted, but the answer is an error.
FcmAnswerLost(h) ==
    /\ handler[h].pc = "fcm"
    /\ Spend("faults")
    /\ Accept(handler[h].msg.id)
    /\ doubtful' = doubtful \cup {handler[h].msg.id}
    /\ handler' = Ended(h, Verdict(handler[h].tokens, FALSE, FALSE))
    /\ UNCHANGED <<users, apps, rows, request, lost>>

\* The address is in the message or asked for, and may not be known.
PrepareMail(h) ==
    /\ handler[h].pc = "route"
    /\ handler[h].msg.channel = "EMAIL"
    /\ \/ handler' = [handler EXCEPT ![h].pc = "mail"]
       \/ handler' = Fail(h)
    /\ UNCHANGED <<users, apps, rows, request, history, budget>>

\* A mail that is not accepted is tried again; tokens counts the attempts.
RetryMail(h) == IF handler[h].tokens + 1 < MaxMails THEN [handler EXCEPT ![h].tokens = @ + 1] ELSE Fail(h)

SendMail(h) ==
    /\ handler[h].pc = "mail"
    /\ \/ /\ Accept(handler[h].msg.id)
          /\ handler' = Ended(h, "sent")
       \/ /\ handler' = RetryMail(h)
          /\ UNCHANGED accepted
    /\ UNCHANGED <<users, apps, rows, request, doubtful, lost, budget>>

MailAnswerLost(h) ==
    /\ handler[h].pc = "mail"
    /\ Spend("faults")
    /\ Accept(handler[h].msg.id)
    /\ doubtful' = doubtful \cup {handler[h].msg.id}
    /\ handler' = RetryMail(h)
    /\ UNCHANGED <<users, apps, rows, request, lost>>

RejectChannel(h) ==
    /\ handler[h].pc = "route"
    /\ handler[h].msg.channel \notin {"PUSH", "EMAIL"}
    /\ handler' = Fail(h)
    /\ UNCHANGED <<users, apps, rows, request, history, budget>>

\* An error of the database is logged.
UpdateNotificationStatus(h) ==
    /\ handler[h].pc \in {"sent", "failed"}
    /\ \/ /\ row' = [row EXCEPT ![handler[h].msg.id] = IF handler[h].pc = "sent" THEN "SENT" ELSE "FAILED"]
          /\ UNCHANGED <<lost, budget>>
       \/ /\ Spend("faults")
          /\ lost' = lost \cup {handler[h].msg.id}
          /\ UNCHANGED row
    /\ handler' = [handler EXCEPT ![h] = NoHandler]
    /\ UNCHANGED <<users, apps, queue, request, accepted, doubtful>>

-----------------------------------------------------------------------------
(* Firebase projects                                                       *)

Start(r, op, p, pc) ==
    /\ Spend("projects")
    /\ request[r].pc \in {"idle", "done"}
    /\ \E c \in Creds : request' = [request EXCEPT ![r] =
          [NoRequest EXCEPT !.op = op, !.pc = pc, !.project = p, !.cred = c]]

\* Somebody else has read p and will cache, or may have cached, what it was.
Reading(p) ==
    \/ \E h \in Handlers : handler[h].pc = "app" /\ handler[h].project = p
    \/ \E r \in Requests : request[r].read[p] # None

Write(r, p, new, next) ==
    /\ request[r].pc = "write"
    /\ project' = [project EXCEPT ![p] = new]
    /\ raced' = IF new.cred # project[p].cred /\ Reading(p)
                THEN raced \cup {p} ELSE raced
    /\ request' = [request EXCEPT ![r].pc = next, ![r].cred = None]
    /\ UNCHANGED <<users, cache, rows, handler, history, budget>>

StartProject(r, op, p) ==
    /\ Start(r, op, p, "write")
    /\ UNCHANGED <<users, apps, rows, handler, history>>

\* createFirebaseProject; there can be one project for the city, any number without.
CreateFirebaseProject(r) ==
    LET q == request[r]
    IN  /\ q.op = "create"
        /\ ~project[q.project].exists
        /\ \E d \in BOOLEAN :
              Write(r, q.project, [exists |-> TRUE, active |-> TRUE, isDefault |-> d, cred |-> q.cred], "load")

CreateFails(r) ==
    /\ request[r].op = "create" /\ request[r].pc = "write"
    /\ request[r].project = "city" /\ project["city"].exists
    /\ request' = [request EXCEPT ![r] = NoRequest]
    /\ UNCHANGED <<users, apps, rows, handler, history, budget>>

UpsertCityFirebaseProject(r) ==
    /\ request[r].op = "upsert"
    /\ Write(r, "city", [exists |-> TRUE, active |-> TRUE, isDefault |-> FALSE, cred |-> request[r].cred],
             "clear")

\* The cached app of p is deleted, and made anew from the row unless somebody has
\* read it before.
ClearCache(p) ==
    /\ cache' = [cache EXCEPT ![p] = None]
    /\ raced' = IF Reading(p) THEN raced ELSE raced \ {p}

\* Slip: the cached app is kept.
StartUpdateOnly(r, p) ==
    /\ project[p].exists
    /\ \E op \in {"update", "credentials"} : Start(r, op, p, "write")
    /\ UNCHANGED <<users, apps, rows, handler, history>>

\* updateFirebaseProject clears the cache of credentials it is going to replace.
StartUpdate(r, p) ==
    /\ project[p].exists
    /\ \/ /\ Start(r, "credentials", p, "write")
          /\ ClearCache(p)
       \/ /\ Start(r, "update", p, "write")
          /\ UNCHANGED <<cache, raced>>
    /\ UNCHANGED <<users, project, rows, handler, history>>

UpdateFirebaseProject(r) ==
    LET q == request[r]
    IN  /\ q.op \in {"update", "credentials"}
        /\ \E a, d \in BOOLEAN :
              Write(r, q.project, [exists |-> TRUE, active |-> a, isDefault |-> d,
                        cred |-> IF q.op = "credentials" THEN q.cred ELSE project[q.project].cred], "load")

DeleteFirebaseProject(r) ==
    LET q == request[r]
    IN  /\ q.op = "delete"
        /\ Write(r, q.project, [project[q.project] EXCEPT !.active = FALSE], "clear")

\* A write that fails ends the request.
WriteFails(r) ==
    /\ request[r].pc = "write"
    /\ Spend("faults")
    /\ request' = [request EXCEPT ![r] = NoRequest]
    /\ UNCHANGED <<users, apps, rows, handler, history>>

ClearAfterwards(r) ==
    LET q == request[r]
    IN  /\ q.pc = "clear"
        /\ ClearCache(q.project)
        /\ request' = [request EXCEPT ![r] = IF q.op = "delete" THEN NoRequest ELSE [q EXCEPT !.pc = "load"]]
        /\ UNCHANGED <<users, project, rows, handler, history, budget>>

\* loadProjects reads the active projects and caches those that are not.
ReadProjects(r) ==
    /\ request[r].pc = "load"
    /\ request' = [request EXCEPT ![r] = [NoRequest EXCEPT !.pc = "fill",
            !.read = [p \in Projects |-> IF project[p].active THEN project[p].cred ELSE None]]]
    /\ UNCHANGED <<users, apps, rows, handler, history, budget>>

CacheProjects(r) ==
    /\ request[r].pc = "fill"
    /\ Fill(request[r].read)
    /\ request' = [request EXCEPT ![r] = NoRequest]
    /\ UNCHANGED <<users, project, rows, handler, history, budget>>

\* The service starts again with the projects it finds.
Restart ==
    /\ Spend("faults")
    /\ request' = [r \in Requests |-> NoRequest]
    /\ handler' = [h \in Handlers |-> NoHandler]
    /\ lost' = lost \cup {handler[h].msg.id : h \in {k \in Handlers : handler[k].pc # "idle"}}
    /\ cache' = [p \in Projects |-> IF project[p].active THEN project[p].cred ELSE None]
    /\ raced' = {}
    /\ UNCHANGED <<users, project, rows, accepted, doubtful>>

-----------------------------------------------------------------------------
RequestStep(r) ==
    \/ \E op \in {"city", "all"} : StartBulk(r, op)
    \/ FetchPage(r) \/ FetchFails(r) \/ EndPage(r)
    \/ \E u \in Users : SendToUser(r, u) \/ SendToUserFails(r, u)
    \/ \E p \in Projects :
          \/ StartUpdate(r, p)
          \* bound: one project without a city is created.
          \/ (p = "city" \/ ~project[p].exists) /\ StartProject(r, "create", p)
          \/ project[p].exists /\ StartProject(r, "delete", p)
    \/ StartProject(r, "upsert", "city")
    \/ CreateFirebaseProject(r) \/ CreateFails(r) \/ UpsertCityFirebaseProject(r)
    \/ UpdateFirebaseProject(r) \/ DeleteFirebaseProject(r) \/ WriteFails(r)
    \/ ClearAfterwards(r) \/ ReadProjects(r) \/ CacheProjects(r)

HandlerStep(h) ==
    \/ \E m \in queue : HandleNotificationSend(h, m)
    \/ PreparePush(h) \/ LookUpProject(h) \/ AskFcm(h) \/ FcmAnswers(h) \/ FcmAnswerLost(h)
    \/ PrepareMail(h) \/ SendMail(h) \/ MailAnswerLost(h)
    \/ RejectChannel(h) \/ UpdateNotificationStatus(h)

Next ==
    \/ \E u \in Users : Join(u) \/ Leave(u)
    \/ \E c \in Channels, city \in BOOLEAN :
          \* The city matters to a push only.
          (city => c = "PUSH") /\ (Notify(c, city) \/ PublishWithoutRow(c, city))
    \/ \E r \in Requests : RequestStep(r)
    \/ \E h \in Handlers : HandlerStep(h)
    \/ Restart

Spec == Init /\ [][Next]_vars

-----------------------------------------------------------------------------
(* Properties                                                              *)

MessageType == [id : 0..MaxRows, channel : Channels, city : BOOLEAN]

RequestType ==
    [op : {"none", "city", "all", "create", "upsert", "update", "credentials", "delete"},
     pc : {"idle", "fetch", "send", "done", "write", "clear", "load", "fill"},
     channel : Channels, page : Nat \ {0}, last : BOOLEAN,
     todo : [Users -> Nat], got : [Users -> Nat],
     joined : SUBSET Users, left : SUBSET Users, failed : BOOLEAN,
     project : Projects, cred : Creds \cup {None}, read : [Projects -> Creds \cup {None}]]

HandlerType ==
    [pc : {"idle", "route", "city", "kodi", "app", "fcm", "mail", "sent", "failed"},
     msg : MessageType, tokens : 0..(MaxMails + 2),
     project : Projects, cred : Creds \cup {None}]

\* Types; no user is listed twice, a message is about a row that is there, and an
\* app is only cached for a project that exists.
TypeOK ==
    /\ users \in Seq(Users)
    /\ \A i, j \in DOMAIN users : users[i] = users[j] => i = j
    /\ project \in [Projects -> [exists : BOOLEAN, active : BOOLEAN, isDefault : BOOLEAN, cred : Creds]]
    /\ \A p \in Projects : project[p].active => project[p].exists
    /\ cache \in [Projects -> Creds \cup {None}]
    /\ \A p \in Projects : cache[p] # None => project[p].exists
    /\ raced \in SUBSET Projects
    /\ row \in Seq({"PENDING", "SENT", "FAILED"}) /\ Len(row) <= MaxRows
    /\ queue \in SUBSET MessageType /\ \A m \in queue : m.id <= Len(row)
    /\ request \in [Requests -> RequestType]
    /\ handler \in [Handlers -> HandlerType]
    /\ \A h \in Handlers : handler[h].msg.id <= Len(row) /\ (handler[h].pc # "idle" => handler[h].msg.id # 0)
    /\ accepted \in [Ids -> Nat]
    /\ doubtful \in SUBSET Ids /\ lost \in SUBSET Ids
    /\ budget \in [Kinds -> Nat]

\* The list a bulk notification pages through is sorted, or is one page.
Sorted(r) == request[r].op = "all" \/ request[r].page = 1

\* A bulk notification that has ended has reached every user who was active all
\* the time exactly once: only a user who leaves can hide another, only one who
\* joins can show another twice, although pages are counted anew for each one.
BulkReachesOnce ==
    \A r \in Requests : request[r].pc = "done" /\ Sorted(r) =>
        LET q == request[r]
            meant == {u \in Listed \ q.joined : q.op = "city" => u \in CityUsers}
        IN  /\ q.left = {} /\ ~q.failed => \A u \in meant : q.got[u] > 0
            /\ q.joined = {} => \A u \in Users : q.got[u] <= 1

\* The state is well typed; what is recorded as failed has reached nobody, and
\* nobody is notified twice, unless a message was published twice or the answer of
\* FCM or SMTP got lost.
FailedReachedNobody ==
    /\ TypeOK
    /\ \A n \in DOMAIN row : n \notin doubtful =>
          /\ accepted[n] <= 1
          /\ row[n] = "FAILED" => accepted[n] = 0

\* A notification is pending only as long as its message is queued or handled:
\* whatever goes wrong with it ends in a status, unless the message, the status
\* or the process was lost.
PendingIsUnderWay ==
    \A n \in DOMAIN row : row[n] = "PENDING" /\ n \notin lost =>
        \/ \E m \in queue : m.id = n
        \/ \E h \in Handlers : handler[h].pc # "idle" /\ handler[h].msg.id = n

\* Notifications use the credentials of the row, however creations, updates,
\* deletions, reloads and deliveries overlap: an app is older only while the
\* request that replaced them is about to delete it, or if somebody had read the
\* row before and cached it after the cached app had been deleted.
AppsFollowCredentials ==
    \A p \in Projects \ raced :
        \/ cache[p] \in {None, project[p].cred}
        \/ \E r \in Requests : request[r].pc = "clear" /\ request[r].project = p
=============================================================================
