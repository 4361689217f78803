-------------------------- MODULE DeliveriesProofs --------------------------
(***************************************************************************)
(* Proofs about the notification service, for any number of users,         *)
(* requests and messages handled at once, and any number of faults.        *)
(***************************************************************************)
EXTENDS Deliveries, FiniteSetTheorems, SequenceTheorems, TLAPS

-----------------------------------------------------------------------------
(* Types                                                                   *)

\* What is about to be written or cached: credentials, and those of a project
\* that exists.
SourcesExist ==
    /\ \A r \in Requests : request[r].pc = "write" => request[r].cred \in Creds
    /\ \A h \in Handlers : handler[h].pc = "app" =>
          handler[h].cred \in Creds /\ project[handler[h].project].exists
    /\ \A r \in Requests, p \in Projects : request[r].read[p] # None => project[p].exists

Handling(h, n) == handler[h].pc # "idle" /\ handler[h].msg.id = n

\* A notification that is neither doubled nor in doubt is carried once, by the
\* queue or by one handler, is pending as long as it is, and has not been accepted
\* before that handler has an answer.
CarriedOnce(n) ==
    /\ accepted[n] <= 1
    /\ n > Len(row) => accepted[n] = 0
    /\ n <= Len(row) /\ row[n] = "FAILED" => accepted[n] = 0
    /\ \A m \in queue : m.id = n =>
          accepted[n] = 0 /\ row[n] = "PENDING" /\ \A h \in Handlers : ~Handling(h, n)
    /\ \A h \in Handlers : Handling(h, n) =>
          /\ row[n] = "PENDING"
          /\ handler[h].pc # "sent" => accepted[n] = 0
          /\ \A k \in Handlers : Handling(k, n) => k = h

DeliveryInv ==
    /\ \A m1, m2 \in queue : m1.id = m2.id /\ m1.id # 0 => m1 = m2
    /\ \A n \in Ids \ doubtful : CarriedOnce(n)

Clearing(r, p) == request[r].pc = "clear" /\ request[r].project = p

\* Until somebody has raced for p, what was read of it is what its row says, its app
\* is not cached while its credentials are replaced, and is otherwise made with the
\* credentials of the row, unless somebody is about to clear it.
Faithful(p) ==
    /\ cache[p] \in {None, project[p].cred} \/ \E r \in Requests : Clearing(r, p)
    /\ Replacing(p) => cache[p] = None
    /\ \A h \in Handlers : handler[h].pc = "app" /\ handler[h].project = p =>
          handler[h].cred = project[p].cred
    /\ \A r \in Requests : request[r].read[p] # None => request[r].read[p] = project[p].cred

AppInv ==
    /\ \A r \in Requests : request[r].op = "upsert" => request[r].project = "city"
    /\ \A p \in Projects \ raced : Faithful(p)

\* A request that does nothing is well typed.
LEMMA NoRequestTyped ==
    /\ NoBag \in [Users -> Nat] /\ NoApps \in [Projects -> Creds \cup {None}]
    /\ NoRequest \in RequestType
<1>1. NoBag \in [Users -> Nat] /\ NoApps \in [Projects -> Creds \cup {None}]
  BY DEF NoBag, NoApps
<1>2. NoRequest \in RequestType
  BY <1>1 DEF NoRequest, RequestType, Channels, Projects, None
<1>. QED BY <1>1, <1>2

\* A bag of users with more in it is one.
LEMMA AddingTyped ==
    ASSUME NEW bag \in [Users -> Nat], NEW S
    PROVE  Adding(bag, S) \in [Users -> Nat]
BY DEF Adding

\* A bulk that has read a page is well typed.
LEMMA FetchedTyped ==
    ASSUME NEW q \in RequestType, NEW page, NEW end \in BOOLEAN
    PROVE  /\ Fetched(q, page, end) \in RequestType
           /\ Fetched(q, page, end).pc \in {"fetch", "send"}
           /\ \A f \in {"op", "project", "cred", "read"} : Fetched(q, page, end)[f] = q[f]
<1> DEFINE pc == IF q.op = "city" \/ end THEN "send" ELSE "fetch"
           pg == IF end THEN q.page ELSE q.page + 1
           todo == Adding(q.todo, page)
<1>1. pc \in {"send", "fetch"} /\ pg \in Nat \ {0} /\ todo \in [Users -> Nat]
  BY AddingTyped DEF RequestType
<1>2. Fetched(q, page, end) = [q EXCEPT !.todo = todo, !.last = end, !.pc = pc, !.page = pg]
  BY DEF Fetched
<1> HIDE DEF pc, pg, todo
<1>. QED BY <1>1, <1>2 DEF RequestType

\* A bulk that has served a user, or failed to, is well typed.
LEMMA ServedTyped ==
    ASSUME NEW q \in RequestType, NEW u \in Users, q.todo[u] > 0
    PROVE  /\ Served(q, u) \in RequestType /\ NotServed(q, u) \in RequestType
           /\ \A f \in {"op", "pc", "project", "cred", "read"} :
                 Served(q, u)[f] = q[f] /\ NotServed(q, u)[f] = q[f]
<1> DEFINE todo == [q.todo EXCEPT ![u] = @ - 1]
           got  == [q.got EXCEPT ![u] = @ + 1]
<1>1. todo \in [Users -> Nat] /\ got \in [Users -> Nat]
  BY DEF RequestType
<1>2. /\ Served(q, u) = [q EXCEPT !.todo = todo, !.got = got]
      /\ NotServed(q, u) = [q EXCEPT !.todo = todo, !.failed = TRUE]
  BY DEF Served, NotServed, RequestType
<1> HIDE DEF todo, got
<1>. QED BY <1>1, <1>2 DEF RequestType

\* What becomes of a request in one of its steps: v, and what is known of it.
Becomes(q, v) ==
    /\ v \in RequestType
    /\ v.pc = "write" => v.cred \in Creds
    /\ v.op = "upsert" => v.project = "city" \/ (q.op = "upsert" /\ v.project = q.project)
    /\ \A p \in Projects : v.read[p] # None =>
          v.read[p] = q.read[p] \/ (project[p].active /\ v.read[p] = project[p].cred)

\* A request may end at any step.
LEMMA EndsWell ==
    ASSUME NEW q \in RequestType
    PROVE  Becomes(q, NoRequest)
BY NoRequestTyped DEF Becomes, NoRequest, NoApps

\* A request starts about a project.
LEMMA StartsWell ==
    ASSUME NEW q \in RequestType, NEW c \in Creds, NEW p \in Projects,
           NEW op \in {"create", "upsert", "update", "credentials", "delete"}, op = "upsert" => p = "city"
    PROVE  Becomes(q, [NoRequest EXCEPT !.op = op, !.pc = "write", !.project = p, !.cred = c])
<1> DEFINE v == [NoRequest EXCEPT !.op = op, !.pc = "write", !.project = p, !.cred = c]
<1>1. v \in RequestType /\ v.op = op /\ v.project = p /\ v.cred = c /\ v.read = NoRequest.read
  BY NoRequestTyped DEF RequestType
<1>2. \A a \in Projects : NoRequest.read[a] = None
  BY DEF NoRequest, NoApps
<1> HIDE DEF v
<1>3. Becomes(q, v)
  BY <1>1, <1>2 DEF Becomes
<1>. QED BY <1>3 DEF v

\* A step of a request moves that request alone, the way Becomes says.
LEMMA RequestMoves ==
    ASSUME TypeOK, SourcesExist, NEW r \in Requests, RequestStep(r)
    PROVE  \E v : Becomes(request[r], v) /\ request' = [request EXCEPT ![r] = v]
<1> DEFINE q == request[r]
           Goal == \E v : Becomes(request[r], v) /\ request' = [request EXCEPT ![r] = v]
<1>0. q \in RequestType /\ request \in [Requests -> RequestType]
      /\ (q.pc = "write" => q.cred \in Creds) /\ \A p \in Projects : project[p].cred \in Creds
  BY DEF TypeOK, SourcesExist
<1>1. ASSUME NEW op \in {"city", "all"}, StartBulk(r, op) PROVE Goal
  <2>1. PICK c \in Channels : request' = [request EXCEPT ![r] = [NoRequest EXCEPT !.op = op, !.pc = "fetch", !.channel = c]]
    BY <1>1 DEF StartBulk
  <2> DEFINE v == [NoRequest EXCEPT !.op = op, !.pc = "fetch", !.channel = c]
  <2>2. v \in RequestType /\ v.pc = "fetch" /\ v.op = op /\ v.read = NoRequest.read
    BY NoRequestTyped DEF RequestType
  <2>3. Becomes(q, v)
    BY <2>2 DEF Becomes, NoRequest, NoApps
  <2>. QED BY <2>1, <2>3
<1>2. CASE FetchPage(r)
  <2>0. PICK s \in Listings(q.op) : request' = [request EXCEPT ![r] =
          Fetched(q, Page(s, q.page), Page(s, q.page) = {} \/ LastPage(s, q.page))]
    BY <1>2, Zenon DEF FetchPage
  <2> DEFINE page == Page(s, q.page)
             end  == page = {} \/ LastPage(s, q.page)
  <2>1. end \in BOOLEAN /\ request' = [request EXCEPT ![r] = Fetched(q, page, end)]
    BY <2>0 DEF LastPage
  <2> HIDE DEF page, end
  <2>2. Becomes(q, Fetched(q, page, end))
    BY <1>0, <2>1, FetchedTyped DEF Becomes
  <2>. QED BY <2>1, <2>2
<1>3. CASE FetchFails(r) \/ CreateFails(r) \/ WriteFails(r) \/ CacheProjects(r)
  <2>1. request' = [request EXCEPT ![r] = NoRequest]
    BY <1>3 DEF FetchFails, CreateFails, WriteFails, CacheProjects
  <2>. QED BY <1>0, <2>1, EndsWell
<1>4. CASE EndPage(r)
  <2> DEFINE pc == IF q.last THEN "done" ELSE "fetch"
             v == [q EXCEPT !.pc = pc]
  <2>1. request' = [request EXCEPT ![r] = v] /\ pc \in {"done", "fetch"}
    BY <1>4, <1>0 DEF EndPage
  <2> HIDE DEF pc
  <2>2. Becomes(q, v)
    BY <1>0, <2>1 DEF Becomes, RequestType
  <2>. QED BY <2>1, <2>2
<1>5. ASSUME NEW u \in Users, SendToUser(r, u) \/ SendToUserFails(r, u) PROVE Goal
  <2>1. /\ q.todo[u] > 0 /\ q.pc = "send"
        /\ \/ request' = [request EXCEPT ![r] = Served(q, u)]
           \/ request' = [request EXCEPT ![r] = NotServed(q, u)]
    BY <1>5 DEF SendToUser, SendToUserFails
  <2>2. Becomes(q, Served(q, u)) /\ Becomes(q, NotServed(q, u))
    BY <1>0, <2>1, ServedTyped DEF Becomes
  <2>. QED BY <2>1, <2>2
<1>6. ASSUME NEW p \in Projects, NEW op, Start(r, op, p, "write"),
             op \in {"create", "upsert", "update", "credentials", "delete"}, op = "upsert" => p = "city"
      PROVE  Goal
  <2>1. PICK c \in Creds : request' = [request EXCEPT ![r] =
                               [NoRequest EXCEPT !.op = op, !.pc = "write", !.project = p, !.cred = c]]
    BY <1>6 DEF Start
  <2>. QED BY <1>0, <1>6, <2>1, StartsWell
<1>7. CASE \/ CreateFirebaseProject(r) \/ UpsertCityFirebaseProject(r)
           \/ UpdateFirebaseProject(r) \/ DeleteFirebaseProject(r)
  <2>1. PICK next \in {"load", "clear"} : request' = [request EXCEPT ![r].pc = next, ![r].cred = None]
    BY <1>7 DEF CreateFirebaseProject, UpsertCityFirebaseProject, UpdateFirebaseProject,
                DeleteFirebaseProject, Write
  <2> DEFINE v == [q EXCEPT !.pc = next, !.cred = None]
  <2>2. Becomes(q, v)
    BY <1>0 DEF Becomes, RequestType
  <2>3. request' = [request EXCEPT ![r] = v]
    BY <1>0, <2>1
  <2>. QED BY <2>2, <2>3
<1>8. CASE ClearAfterwards(r)
  <2> DEFINE v == [q EXCEPT !.pc = "load"]
  <2>1. \/ request' = [request EXCEPT ![r] = NoRequest]
        \/ request' = [request EXCEPT ![r] = v]
    BY <1>8 DEF ClearAfterwards
  <2>2. Becomes(q, v)
    BY <1>0 DEF Becomes, RequestType
  <2>. QED BY <1>0, <2>1, <2>2, EndsWell
<1>9. CASE ReadProjects(r)
  <2> DEFINE read == [p \in Projects |-> IF project[p].active THEN project[p].cred ELSE None]
             v == [NoRequest EXCEPT !.pc = "fill", !.read = read]
  <2>1. read \in [Projects -> Creds \cup {None}]
    BY <1>0
  <2>2. v \in RequestType /\ v.pc = "fill" /\ v.op = NoRequest.op /\ v.read = read
    BY <2>1, NoRequestTyped DEF RequestType
  <2>3. Becomes(q, v)
    BY <2>2 DEF Becomes, NoRequest
  <2>. QED BY <1>9, <2>3 DEF ReadProjects
<1>. QED
  <2>1. ASSUME NEW p \in Projects, StartUpdate(r, p) PROVE Goal
    BY <2>1, <1>6 DEF StartUpdate
  <2>2. ASSUME NEW p \in Projects, NEW op \in {"create", "upsert", "delete"}, op = "upsert" => p = "city",
               StartProject(r, op, p)
        PROVE  Goal
    BY <2>2, <1>6 DEF StartProject
  <2>. QED BY <1>1, <1>2, <1>3, <1>4, <1>5, <1>7, <1>8, <1>9, <2>1, <2>2 DEF RequestStep, Projects

\* What becomes of a handler in one of its steps: it keeps its message until it is
\* idle again, and looks its app up in the row of the project.
Turns(g, v) ==
    /\ v \in HandlerType
    /\ v.pc # "idle" =>
          /\ v.msg.id # 0 /\ v.msg.id <= Len(row')
          /\ g.pc # "idle" => v.msg = g.msg
    /\ v.pc = "app" => project[v.project].active /\ v.cred = project[v.project].cred
    /\ v.pc = "idle" => v.msg.id = 0

With(m, pc) == [NoHandler EXCEPT !.pc = pc, !.msg = m]

\* In a step of its own it stays with its message until that has a verdict.
Goes(g, v) == Turns(g, v) /\ (g.pc \notin {"idle", "sent", "failed"} => v.pc # "idle")

\* A handler that does nothing, or has just taken a message or settled one.
LEMMA NoHandlerTyped ==
    /\ NoHandler \in HandlerType /\ NoHandler.pc = "idle" /\ NoHandler.msg.id = 0
    /\ \A m \in MessageType, pc \in {"route", "sent", "failed"} :
          With(m, pc) \in HandlerType /\ With(m, pc).pc = pc /\ With(m, pc).msg = m
<1>1. 0 \in 0..MaxRows /\ 0 \in 0..(MaxMails + 2)
  BY DeliveriesAssumption
<1>. QED BY <1>1 DEF With, NoHandler, NoMessage, HandlerType, MessageType, Channels, Projects, None

\* A handler that has its verdict about a message.
LEMMA EndedTurns ==
    ASSUME NEW h \in Handlers, handler[h] \in HandlerType, handler[h].pc # "idle",
           handler[h].msg.id # 0, handler[h].msg.id <= Len(row'), NEW verdict \in {"sent", "failed"}
    PROVE  \E v : /\ Goes(handler[h], v) /\ Ended(h, verdict) = [handler EXCEPT ![h] = v]
                 /\ v.pc = verdict /\ v.msg = handler[h].msg
<1> DEFINE v == With(handler[h].msg, verdict)
<1>1. handler[h].msg \in MessageType /\ verdict \in {"route", "sent", "failed"}
  BY DEF HandlerType
<1>2. v \in HandlerType /\ v.pc = verdict /\ v.msg = handler[h].msg
  BY <1>1, NoHandlerTyped
<1>3. Ended(h, verdict) = [handler EXCEPT ![h] = v]
  BY DEF Ended, With
<1> HIDE DEF v
<1>4. Goes(handler[h], v)
  BY <1>2 DEF Goes, Turns
<1>. QED BY <1>2, <1>3, <1>4

\* A verdict is that it was sent, or that it failed.
LEMMA VerdictIs == \A t, some, invalid : Verdict(t, some, invalid) \in {"sent", "failed"}
BY DEF Verdict

\* Rows are only added, and the messages of rows that are there stay with them.
RowsGrow == Len(row) <= Len(row')

\* A step of a handler moves that handler alone, the way Goes says.
LEMMA HandlerMoves ==
    ASSUME TypeOK, NEW h \in Handlers, HandlerStep(h), RowsGrow
    PROVE  \/ \E v : Goes(handler[h], v) /\ handler' = [handler EXCEPT ![h] = v]
           \/ UNCHANGED handler
<1> DEFINE g == handler[h]
           Goal == \/ \E v : Goes(handler[h], v) /\ handler' = [handler EXCEPT ![h] = v]
                   \/ UNCHANGED handler
<1>0. /\ g \in HandlerType /\ handler \in [Handlers -> HandlerType]
      /\ g.pc # "idle" => g.msg.id # 0 /\ g.msg.id <= Len(row')
      /\ row \in Seq({"PENDING", "SENT", "FAILED"}) /\ Len(row) <= MaxRows /\ MaxRows \in Nat
      /\ \A m \in queue : m \in MessageType /\ m.id <= Len(row)
  BY DeliveriesAssumption DEF TypeOK, HandlerType, MessageType, RowsGrow
<1>1. ASSUME NEW m \in queue, HandleNotificationSend(h, m) PROVE Goal
  <2>1. CASE m.id = 0
    <3> DEFINE n == [m EXCEPT !.id = Len(row) + 1]
               v == With(n, "route")
    <3>1. CASE UNCHANGED handler
      BY <3>1
    <3>2. CASE Len(row) < MaxRows /\ row' = Append(row, "PENDING") /\ handler' = [handler EXCEPT ![h] = v]
      <4>1. Len(row) + 1 \in 0..MaxRows /\ Len(row') = Len(row) + 1
        BY <1>0, <3>2
      <4>2. n \in MessageType /\ n.id = Len(row) + 1
        BY <1>0, <4>1 DEF MessageType
      <4> HIDE DEF n
      <4>3. v \in HandlerType /\ v.pc = "route" /\ v.msg = n
        BY <4>2, NoHandlerTyped
      <4> HIDE DEF v
      <4>4. Goes(g, v)
        BY <1>0, <1>1, <4>1, <4>2, <4>3 DEF Goes, Turns, HandleNotificationSend
      <4>. QED BY <4>4, <3>2
    <3>. QED BY <2>1, <1>1, <3>1, <3>2 DEF HandleNotificationSend, With
  <2>2. CASE m.id # 0
    <3> DEFINE v == With(m, "route")
    <3>1. handler' = [handler EXCEPT ![h] = v] /\ g.pc = "idle" /\ row' = row
      BY <2>2, <1>1 DEF HandleNotificationSend, With
    <3>2. v \in HandlerType /\ v.pc = "route" /\ v.msg = m
      BY <1>0, NoHandlerTyped
    <3> HIDE DEF v
    <3>3. Goes(g, v)
      BY <1>0, <2>2, <3>1, <3>2 DEF Goes, Turns
    <3>. QED BY <3>1, <3>3
  <2>. QED BY <2>1, <2>2
<1>2. ASSUME NEW verdict \in {"sent", "failed"}, handler' = Ended(h, verdict), g.pc # "idle" PROVE Goal
  BY <1>0, <1>2, EndedTurns
<1>3. CASE PreparePush(h)
  <2>1. PICK t \in 0..2 : handler' = IF t = 0 THEN Fail(h)
                     ELSE [handler EXCEPT ![h].pc = IF handler[h].msg.city THEN "city" ELSE "kodi",
                                          ![h].tokens = t]
    BY <1>3 DEF PreparePush
  <2>2. CASE t = 0
    BY <1>2, <1>3, <2>1, <2>2 DEF Fail, PreparePush
  <2>3. CASE t # 0
    <3> DEFINE pc == IF g.msg.city THEN "city" ELSE "kodi"
               v == [g EXCEPT !.pc = pc, !.tokens = t]
    <3>0. pc \in {"city", "kodi"} /\ t \in 0..(MaxMails + 2)
      BY DeliveriesAssumption
    <3>1. handler' = [handler EXCEPT ![h] = v]
      <4>1. handler' = [handler EXCEPT ![h].pc = pc, ![h].tokens = t]
        BY <2>1, <2>3
      <4> HIDE DEF pc
      <4>. QED BY <1>0, <4>1
    <3> HIDE DEF pc
    <3>2. Goes(g, v)
      BY <1>0, <1>3, <3>0 DEF Goes, Turns, HandlerType, PreparePush
    <3>. QED BY <3>1, <3>2
  <2>. QED BY <2>2, <2>3
<1>4. CASE LookUpProject(h)
  <2>1. CASE \E p \in Projects : /\ project[p].active
                               /\ handler' = [handler EXCEPT ![h] =
                                     [g EXCEPT !.pc = "app", !.project = p, !.cred = project[p].cred]]
    <3>1. PICK p \in Projects : /\ project[p].active
                               /\ handler' = [handler EXCEPT ![h] =
                                     [g EXCEPT !.pc = "app", !.project = p, !.cred = project[p].cred]]
      BY <2>1
    <3> DEFINE v == [g EXCEPT !.pc = "app", !.project = p, !.cred = project[p].cred]
    <3>2. project[p].cred \in Creds /\ g.pc # "idle"
      BY <1>4 DEF TypeOK, LookUpProject
    <3>3. Goes(g, v)
      BY <1>0, <3>1, <3>2 DEF Goes, Turns, HandlerType
    <3>. QED BY <3>1, <3>3
  <2>2. CASE handler' = [handler EXCEPT ![h] = [g EXCEPT !.pc = "kodi"]]
    <3>1. Goes(g, [g EXCEPT !.pc = "kodi"])
      BY <1>0, <1>4 DEF Goes, Turns, HandlerType, LookUpProject
    <3>. QED BY <2>2, <3>1
  <2>3. CASE handler' = Ended(h, Verdict(g.tokens, FALSE, FALSE))
    BY <1>2, <1>4, <2>3, VerdictIs DEF LookUpProject
  <2>. QED
    <3>1. "city" \in Projects
      BY DEF Projects
    <3>. QED BY <3>1, <1>4, <2>1, <2>2, <2>3 DEF LookUpProject
<1>5. CASE AskFcm(h)
  <2> DEFINE v == [g EXCEPT !.pc = "fcm", !.project = "city", !.cred = None]
  <2>1. handler' = [handler EXCEPT ![h] = v]
    BY <1>0, <1>5 DEF AskFcm
  <2>2. Goes(g, v)
    BY <1>0, <1>5 DEF Goes, Turns, HandlerType, AskFcm, Projects
  <2>. QED BY <2>1, <2>2
<1>6. CASE FcmAnswers(h) \/ FcmAnswerLost(h)
  BY <1>2, <1>6, VerdictIs DEF FcmAnswers, FcmAnswerLost
<1>7. CASE PrepareMail(h)
  <2>1. CASE handler' = Fail(h)
    BY <1>2, <1>7, <2>1 DEF Fail, PrepareMail
  <2>2. CASE handler' = [handler EXCEPT ![h].pc = "mail"]
    <3>1. handler' = [handler EXCEPT ![h] = [g EXCEPT !.pc = "mail"]]
      BY <1>0, <2>2
    <3>2. Goes(g, [g EXCEPT !.pc = "mail"])
      BY <1>0, <1>7 DEF Goes, Turns, HandlerType, PrepareMail
    <3>. QED BY <3>1, <3>2
  <2>. QED BY <1>7, <2>1, <2>2 DEF PrepareMail
<1>8. CASE SendMail(h) \/ MailAnswerLost(h)
  <2>1. g.pc = "mail" /\ (handler' = RetryMail(h) \/ handler' = Ended(h, "sent"))
    BY <1>8 DEF SendMail, MailAnswerLost
  <2>2. CASE handler' = Ended(h, "sent") \/ handler' = Fail(h)
    BY <1>2, <2>1, <2>2 DEF Fail
  <2>3. CASE g.tokens + 1 < MaxMails /\ handler' = [handler EXCEPT ![h].tokens = @ + 1]
    <3> DEFINE t == g.tokens + 1
    <3>1. t \in 0..(MaxMails + 2)
      BY <1>0, <2>3, DeliveriesAssumption DEF HandlerType
    <3>2. handler' = [handler EXCEPT ![h] = [g EXCEPT !.tokens = t]]
      BY <1>0, <2>3
    <3> HIDE DEF t
    <3>3. Goes(g, [g EXCEPT !.tokens = t])
      BY <1>0, <2>1, <3>1 DEF Goes, Turns, HandlerType
    <3>. QED BY <3>2, <3>3
  <2>. QED BY <2>1, <2>2, <2>3 DEF RetryMail
<1>9. CASE RejectChannel(h)
  BY <1>0, <1>2, <1>9 DEF RejectChannel, Fail
<1>10. CASE UpdateNotificationStatus(h)
  <2>1. handler' = [handler EXCEPT ![h] = NoHandler]
    BY <1>10 DEF UpdateNotificationStatus
  <2>2. Goes(g, NoHandler)
    BY <1>10, NoHandlerTyped DEF Goes, Turns, NoHandler, UpdateNotificationStatus
  <2>. QED BY <2>1, <2>2
<1>. QED BY <1>1, <1>3, <1>4, <1>5, <1>6, <1>7, <1>8, <1>9, <1>10 DEF HandlerStep

\* What a sequence is after one entry is put into it, or taken out of it.
PutIn(s, i, e, t) ==
    /\ Len(t) = Len(s) + 1
    /\ \A k \in 1..Len(t) : t[k] = IF k < i THEN s[k] ELSE IF k = i THEN e ELSE s[k - 1]

TakenOut(s, i, t) ==
    /\ Len(t) = Len(s) - 1
    /\ \A k \in 1..Len(t) : t[k] = IF k < i THEN s[k] ELSE s[k + 1]

\* The entries of a sequence that is put together from two.
LEMMA Joined ==
    ASSUME NEW S, NEW a \in Seq(S), NEW b \in Seq(S)
    PROVE  /\ a \o b \in Seq(S) /\ Len(a \o b) = Len(a) + Len(b)
           /\ \A k \in Nat : 1 <= k /\ k <= Len(a) => (a \o b)[k] = a[k]
           /\ \A k \in Nat : Len(a) < k /\ k <= Len(a) + Len(b) => (a \o b)[k] = b[k - Len(a)]
<1>1. /\ a \o b \in Seq(S) /\ Len(a \o b) = Len(a) + Len(b)
      /\ \A k \in 1..Len(a) + Len(b) : (a \o b)[k] = IF k <= Len(a) THEN a[k] ELSE b[k - Len(a)]
  BY ConcatProperties, Zenon
<1>2. Len(a) \in Nat /\ Len(b) \in Nat
  OBVIOUS
<1> DEFINE c == a \o b
<1> HIDE DEF c
<1>3. /\ c \in Seq(S) /\ Len(c) = Len(a) + Len(b)
      /\ \A k \in 1..Len(a) + Len(b) : c[k] = IF k <= Len(a) THEN a[k] ELSE b[k - Len(a)]
  BY <1>1 DEF c
<1>4. /\ \A k \in Nat : 1 <= k /\ k <= Len(a) => c[k] = a[k]
      /\ \A k \in Nat : Len(a) < k /\ k <= Len(a) + Len(b) => c[k] = b[k - Len(a)]
  BY <1>2, <1>3
<1>. QED BY <1>1, <1>4 DEF c

\* What InsertAt does to a sequence.
LEMMA Inserted ==
    ASSUME NEW S, NEW s \in Seq(S), NEW e \in S, NEW i \in 1..(Len(s) + 1)
    PROVE  InsertAt(s, i, e) \in Seq(S) /\ PutIn(s, i, e, InsertAt(s, i, e))
<1> DEFINE n == Len(s)
           a == SubSeq(s, 1, i - 1)
           b == SubSeq(s, i, Len(s))
           d == <<e>>
           c == a \o d
           t == c \o b
<1>1. a \in Seq(S) /\ Len(a) = i - 1 /\ \A k \in 1..(i - 1) : a[k] = s[k]
  OBVIOUS
<1>2. b \in Seq(S) /\ Len(b) = n - i + 1 /\ \A k \in 1..(n - i + 1) : b[k] = s[i + k - 1]
  OBVIOUS
<1>3. d \in Seq(S) /\ Len(d) = 1 /\ d[1] = e
  OBVIOUS
<1>4. n \in Nat /\ i \in Nat /\ 1 <= i /\ i <= n + 1
  OBVIOUS
<1>5. InsertAt(s, i, e) = t
  BY DEF InsertAt
<1> HIDE DEF a, b, d
<1>6. /\ c \in Seq(S) /\ Len(c) = Len(a) + Len(d)
      /\ \A k \in Nat : 1 <= k /\ k <= Len(a) => c[k] = a[k]
      /\ \A k \in Nat : Len(a) < k /\ k <= Len(a) + Len(d) => c[k] = d[k - Len(a)]
  BY <1>1, <1>3, Joined
<1> HIDE DEF c
<1>7. /\ t \in Seq(S) /\ Len(t) = Len(c) + Len(b)
      /\ \A k \in Nat : 1 <= k /\ k <= Len(c) => t[k] = c[k]
      /\ \A k \in Nat : Len(c) < k /\ k <= Len(c) + Len(b) => t[k] = b[k - Len(c)]
  <2>1. b \in Seq(S) /\ c \in Seq(S)
    BY <1>2, <1>6
  <2>. QED BY <2>1, Joined
<1> HIDE DEF t, n
<1>8. Len(c) = i /\ Len(t) = n + 1
  BY <1>1, <1>2, <1>3, <1>4, <1>6, <1>7
<1>9. ASSUME NEW k \in Nat, 1 <= k, k <= n + 1
      PROVE  t[k] = IF k < i THEN s[k] ELSE IF k = i THEN e ELSE s[k - 1]
  <2>1. CASE k < i
    <3>1. k <= Len(a) /\ k \in 1..(i - 1) /\ k <= Len(c)
      BY <1>1, <1>4, <1>8, <1>9, <2>1
    <3>2. t[k] = c[k] /\ c[k] = a[k]
      BY <1>6, <1>7, <1>9, <3>1
    <3>. QED BY <1>1, <2>1, <3>1, <3>2
  <2>2. CASE k = i
    <3>1. k - Len(a) = 1 /\ Len(a) < k /\ k <= Len(a) + Len(d)
      BY <1>1, <1>3, <1>4, <2>2
    <3>. QED BY <1>3, <1>6, <1>7, <1>8, <1>9, <2>2, <3>1
  <2>3. CASE k > i
    <3>1. k - i \in 1..(n - i + 1) /\ i + (k - i) - 1 = k - 1
      BY <1>4, <1>9, <2>3
    <3>2. t[k] = b[k - i]
      BY <1>2, <1>4, <1>7, <1>8, <1>9, <2>3
    <3>. QED BY <1>2, <1>4, <2>3, <3>1, <3>2
  <2>. QED BY <1>4, <2>1, <2>2, <2>3
<1>10. PutIn(s, i, e, t)
  BY <1>4, <1>8, <1>9 DEF PutIn, n
<1>. QED BY <1>5, <1>7, <1>10

\* What RemoveAt does to a sequence.
LEMMA Removed ==
    ASSUME NEW S, NEW s \in Seq(S), NEW i \in 1..Len(s)
    PROVE  RemoveAt(s, i) \in Seq(S) /\ TakenOut(s, i, RemoveAt(s, i))
<1> DEFINE n == Len(s)
           a == SubSeq(s, 1, i - 1)
           b == SubSeq(s, i + 1, Len(s))
           t == a \o b
<1>1. a \in Seq(S) /\ Len(a) = i - 1 /\ \A k \in 1..(i - 1) : a[k] = s[k]
  OBVIOUS
<1>2. b \in Seq(S) /\ Len(b) = n - i /\ \A k \in 1..(n - i) : b[k] = s[i + k]
  OBVIOUS
<1>4. n \in Nat /\ i \in Nat /\ 1 <= i /\ i <= n
  OBVIOUS
<1>5. RemoveAt(s, i) = t
  BY DEF RemoveAt
<1> HIDE DEF a, b
<1>7. /\ t \in Seq(S) /\ Len(t) = Len(a) + Len(b)
      /\ \A k \in Nat : 1 <= k /\ k <= Len(a) => t[k] = a[k]
      /\ \A k \in Nat : Len(a) < k /\ k <= Len(a) + Len(b) => t[k] = b[k - Len(a)]
  BY <1>1, <1>2, Joined
<1> HIDE DEF t, n
<1>8. Len(t) = n - 1
  BY <1>1, <1>2, <1>4, <1>7
<1>9. ASSUME NEW k \in Nat, 1 <= k, k <= n - 1
      PROVE  t[k] = IF k < i THEN s[k] ELSE s[k + 1]
  <2>1. CASE k < i
    BY <1>1, <1>4, <1>7, <1>9, <2>1
  <2>2. CASE k >= i
    <3>1. k - (i - 1) \in 1..(n - i) /\ i + (k - (i - 1)) = k + 1
      BY <1>4, <1>9, <2>2
    <3>2. t[k] = b[k - (i - 1)]
      BY <1>1, <1>2, <1>4, <1>7, <1>9, <2>2
    <3>. QED BY <1>2, <1>4, <2>2, <3>1, <3>2
  <2>. QED BY <1>4, <2>1, <2>2
<1>10. TakenOut(s, i, t)
  BY <1>4, <1>8, <1>9 DEF TakenOut, n
<1>. QED BY <1>5, <1>7, <1>10

UsersTyped == users \in Seq(Users) /\ \A i, j \in DOMAIN users : users[i] = users[j] => i = j

\* Only those who join and leave change the list of users.
LEMMA UsersAlone ==
    ASSUME [Next]_vars
    PROVE  (\E u \in Users : Join(u) \/ Leave(u)) \/ UNCHANGED users
<1>1. ASSUME NEW r \in Requests, RequestStep(r) PROVE UNCHANGED users
  BY <1>1 DEF RequestStep, StartBulk, FetchPage, FetchFails, EndPage, SendToUser, SendToUserFails, Send,
              StartUpdate, StartProject, CreateFirebaseProject, CreateFails, UpsertCityFirebaseProject,
              UpdateFirebaseProject, DeleteFirebaseProject, Write, WriteFails, ClearAfterwards,
              ReadProjects, CacheProjects
<1>2. ASSUME NEW h \in Handlers, HandlerStep(h) PROVE UNCHANGED users
  BY <1>2 DEF HandlerStep, HandleNotificationSend, PreparePush, LookUpProject, AskFcm, FcmAnswers,
              FcmAnswerLost, PrepareMail, SendMail, MailAnswerLost, RejectChannel, UpdateNotificationStatus
<1>3. CASE Restart
  BY <1>3 DEF Restart
<1>4. ASSUME NEW c, NEW city, Notify(c, city) \/ PublishWithoutRow(c, city) PROVE UNCHANGED users
  BY <1>4 DEF Notify, PublishWithoutRow, Send
<1>5. CASE UNCHANGED vars
  BY <1>5 DEF vars
<1>. QED BY <1>1, <1>2, <1>3, <1>4, <1>5 DEF Next

\* The list of users has each of them once.
LEMMA UsersStayTyped == UsersTyped /\ [Next]_vars => UsersTyped'
<1> SUFFICES ASSUME UsersTyped, [Next]_vars PROVE UsersTyped'
  OBVIOUS
<1>0. users \in Seq(Users) /\ DOMAIN users = 1..Len(users) /\ \A i, j \in 1..Len(users) : users[i] = users[j] => i = j
  BY DEF UsersTyped
<1>1. ASSUME NEW u \in Users, Join(u) PROVE UsersTyped'
  <2>1. PICK i \in 1..(Len(users) + 1) : users' = InsertAt(users, i, u)
    BY <1>1 DEF Join
  <2>2. \A j \in 1..Len(users) : users[j] # u
    BY <1>0, <1>1 DEF Join, Listed
  <2>3. users' \in Seq(Users) /\ PutIn(users, i, u, users')
    BY <1>0, <2>1, Inserted
  <2>4. DOMAIN users' = 1..Len(users')
    BY <2>3
  <2>5. ASSUME NEW j \in 1..Len(users'), NEW k \in 1..Len(users'), users'[j] = users'[k] PROVE j = k
    BY <1>0, <2>2, <2>3, <2>5 DEF PutIn
  <2>. QED BY <2>3, <2>4, <2>5 DEF UsersTyped
<1>2. ASSUME NEW u \in Users, Leave(u) PROVE UsersTyped'
  <2>1. PICK i \in DOMAIN users : users' = RemoveAt(users, i)
    BY <1>2 DEF Leave
  <2>2. i \in 1..Len(users)
    BY <1>0
  <2>3. users' \in Seq(Users) /\ TakenOut(users, i, users')
    BY <1>0, <2>1, <2>2, Removed
  <2>4. DOMAIN users' = 1..Len(users')
    BY <2>3
  <2>5. ASSUME NEW j \in 1..Len(users'), NEW k \in 1..Len(users'), users'[j] = users'[k] PROVE j = k
    BY <1>0, <2>2, <2>3, <2>5 DEF TakenOut
  <2>. QED BY <2>3, <2>4, <2>5 DEF UsersTyped
<1>. QED BY <1>1, <1>2, UsersAlone DEF UsersTyped

\* The rows and messages, and the histories of notifications.
RowsTyped ==
    /\ row \in Seq({"PENDING", "SENT", "FAILED"}) /\ Len(row) <= MaxRows
    /\ queue \in SUBSET MessageType /\ \A m \in queue : m.id <= Len(row)
    /\ accepted \in [Ids -> Nat]
    /\ doubtful \in SUBSET Ids /\ lost \in SUBSET Ids

\* Sending adds a pending row and its message, and numbers both alike.
LEMMA SendTyped ==
    ASSUME TypeOK, NEW c \in Channels, NEW city \in BOOLEAN, NEW spent, Send(c, city, spent)
    PROVE  RowsTyped' /\ RowsGrow
<1> DEFINE n == Len(row) + 1
           m == [id |-> n, channel |-> c, city |-> city]
<1>1. /\ row \in Seq({"PENDING", "SENT", "FAILED"}) /\ Len(row) <= MaxRows /\ MaxRows \in Nat
      /\ queue \in SUBSET MessageType /\ \A x \in queue : x.id <= Len(row)
      /\ accepted \in [Ids -> Nat] /\ doubtful \in SUBSET Ids /\ lost \in SUBSET Ids
  BY DeliveriesAssumption DEF TypeOK
<1>2. row' = Append(row, "PENDING") /\ Len(row) < MaxRows /\ UNCHANGED <<accepted, doubtful>>
  BY DEF Send
<1>3. row' \in Seq({"PENDING", "SENT", "FAILED"}) /\ Len(row') = Len(row) + 1
  BY <1>1, <1>2
<1>4. n \in 1..MaxRows /\ Len(row) \in Nat
  BY <1>1, <1>2
<1>5. m \in MessageType /\ m.id = n
  BY <1>4 DEF MessageType
<1>6. queue' \in SUBSET (queue \cup {m}) /\ lost' \in SUBSET (lost \cup {n})
  BY DEF Send
<1> HIDE DEF m, n
<1>7. queue' \in SUBSET MessageType /\ lost' \in SUBSET Ids
  BY <1>1, <1>4, <1>5, <1>6 DEF Ids
<1>8. \A x \in queue' : x.id <= Len(row')
  <2>1. n = Len(row')
    BY <1>3 DEF n
  <2>2. \A x \in queue : x.id \in 0..MaxRows /\ x.id <= Len(row)
    BY <1>1 DEF MessageType
  <2>3. \A x \in queue : x.id <= Len(row')
    BY <1>1, <1>3, <1>4, <2>2
  <2>. QED BY <1>3, <1>4, <1>5, <1>6, <2>1, <2>3
<1>9. Len(row') <= MaxRows /\ Len(row) <= Len(row')
  BY <1>1, <1>2, <1>3
<1>. QED BY <1>1, <1>2, <1>3, <1>7, <1>8, <1>9 DEF RowsTyped, RowsGrow

\* Rows and messages are well typed, and no row goes.
LEMMA RowsStayTyped == TypeOK /\ [Next]_vars => RowsTyped' /\ RowsGrow
<1> SUFFICES ASSUME TypeOK, [Next]_vars PROVE RowsTyped' /\ RowsGrow
  OBVIOUS
<1>0. RowsTyped /\ Len(row) \in Nat /\ MaxRows \in Nat
  BY DeliveriesAssumption DEF TypeOK, RowsTyped
<1>1. ASSUME UNCHANGED <<rows, accepted>>, doubtful' \in SUBSET Ids, lost' \in SUBSET Ids
      PROVE  RowsTyped' /\ RowsGrow
  BY <1>0, <1>1 DEF RowsTyped, RowsGrow, rows
<1>2. ASSUME NEW h \in Handlers, handler[h].pc # "idle" PROVE handler[h].msg.id \in Ids /\ handler[h].msg.id \in 1..Len(row)
  <2>1. handler[h].msg.id \in 0..MaxRows /\ handler[h].msg.id # 0 /\ handler[h].msg.id <= Len(row)
    BY <1>2 DEF TypeOK, HandlerType, MessageType
  <2>. QED BY <1>0, <2>1 DEF Ids
<1>3. ASSUME NEW h \in Handlers, handler[h].pc # "idle", UNCHANGED <<rows, lost>>,
             accepted' = accepted \/ Accept(handler[h].msg.id),
             doubtful' \in SUBSET (doubtful \cup {handler[h].msg.id})
      PROVE  RowsTyped' /\ RowsGrow
  <2>1. accepted' \in [Ids -> Nat]
    BY <1>0, <1>2, <1>3 DEF RowsTyped, Accept
  <2>2. doubtful' \in SUBSET Ids
    BY <1>0, <1>2, <1>3 DEF RowsTyped
  <2>. QED BY <1>0, <1>3, <2>1, <2>2 DEF RowsTyped, RowsGrow, rows
<1>4. ASSUME NEW u \in Users, Join(u) \/ Leave(u) PROVE RowsTyped' /\ RowsGrow
  BY <1>0, <1>1, <1>4 DEF Join, Leave, history, RowsTyped
<1>5. ASSUME NEW c \in Channels, NEW city \in BOOLEAN, Notify(c, city) PROVE RowsTyped' /\ RowsGrow
  BY <1>5, SendTyped DEF Notify
<1>6. ASSUME NEW c \in Channels, NEW city \in BOOLEAN, PublishWithoutRow(c, city) PROVE RowsTyped' /\ RowsGrow
  <2> DEFINE m == [id |-> 0, channel |-> c, city |-> city]
  <2>1. m \in MessageType /\ m.id = 0
    BY <1>0 DEF MessageType
  <2>2. queue' = queue \cup {m} /\ UNCHANGED <<row, accepted, doubtful, lost>>
    BY <1>6 DEF PublishWithoutRow, history
  <2> HIDE DEF m
  <2>. QED BY <1>0, <2>1, <2>2 DEF RowsTyped, RowsGrow
<1>7. ASSUME NEW r \in Requests, NEW u \in Users, SendToUser(r, u) PROVE RowsTyped' /\ RowsGrow
  <2>1. request[r].channel \in Channels /\ (request[r].op = "city" \/ u \in CityUsers) \in BOOLEAN
    BY DEF TypeOK, RequestType
  <2>2. PICK city \in BOOLEAN : Send(request[r].channel, city, {})
    BY <1>7, <2>1 DEF SendToUser
  <2>. QED BY <2>1, <2>2, SendTyped
<1>8. ASSUME NEW r \in Requests, RequestStep(r), \A u \in Users : ~SendToUser(r, u) PROVE RowsTyped' /\ RowsGrow
  <2>1. UNCHANGED <<rows, history>>
    BY <1>8 DEF RequestStep, StartBulk, FetchPage, FetchFails, EndPage, SendToUserFails,
              StartUpdate, StartProject, CreateFirebaseProject, CreateFails, UpsertCityFirebaseProject,
              UpdateFirebaseProject, DeleteFirebaseProject, Write, WriteFails, ClearAfterwards,
              ReadProjects, CacheProjects
  <2>. QED BY <1>0, <1>1, <2>1 DEF history, RowsTyped
<1>9. ASSUME NEW h \in Handlers, NEW m \in queue, HandleNotificationSend(h, m) PROVE RowsTyped' /\ RowsGrow
  <2>1. m \in MessageType /\ m.id \in 0..MaxRows
    BY <1>0 DEF RowsTyped, MessageType
  <2>2. CASE m.id = 0 /\ UNCHANGED row
    <3>1. queue' = queue \ {m} /\ UNCHANGED <<accepted, doubtful, lost>>
      BY <2>2, <1>9 DEF HandleNotificationSend, history
    <3>. QED BY <1>0, <2>2, <3>1 DEF RowsTyped, RowsGrow
  <2>3. CASE m.id = 0 /\ Len(row) < MaxRows /\ row' = Append(row, "PENDING")
    <3>1. queue' = queue \ {m} /\ UNCHANGED <<accepted, doubtful, lost>>
      BY <2>3, <1>9 DEF HandleNotificationSend, history
    <3>2. row' \in Seq({"PENDING", "SENT", "FAILED"}) /\ Len(row') = Len(row) + 1
      BY <1>0, <2>3 DEF RowsTyped
    <3>3. queue' \in SUBSET MessageType /\ (\A x \in queue' : x.id <= Len(row'))
      <4>1. \A x \in queue' : x \in MessageType /\ x.id \in 0..MaxRows /\ x.id <= Len(row)
        BY <1>0, <3>1 DEF RowsTyped, MessageType
      <4>. QED BY <1>0, <3>2, <4>1
    <3>4. Len(row') <= MaxRows /\ Len(row) <= Len(row')
      BY <1>0, <2>3, <3>2
    <3>. QED BY <1>0, <3>1, <3>2, <3>3, <3>4 DEF RowsTyped, RowsGrow
  <2>4. CASE m.id # 0
    <3>1. queue' \in SUBSET queue /\ doubtful' \in SUBSET (doubtful \cup {m.id}) /\ UNCHANGED <<row, accepted, lost>>
      BY <2>4, <1>9 DEF HandleNotificationSend
    <3>2. m.id \in Ids
      BY <2>1, <2>4 DEF Ids
    <3>. QED BY <1>0, <3>1, <3>2 DEF RowsTyped, RowsGrow
  <2>. QED BY <1>9, <2>2, <2>3, <2>4 DEF HandleNotificationSend
<1>10. ASSUME NEW h \in Handlers,
              PreparePush(h) \/ LookUpProject(h) \/ AskFcm(h) \/ PrepareMail(h) \/ RejectChannel(h)
       PROVE  RowsTyped' /\ RowsGrow
  <2>1. UNCHANGED <<rows, history>>
    BY <1>10 DEF PreparePush, LookUpProject, AskFcm, PrepareMail, RejectChannel
  <2>. QED BY <1>0, <1>1, <2>1 DEF history, RowsTyped
<1>11. ASSUME NEW h \in Handlers, FcmAnswers(h) \/ FcmAnswerLost(h) \/ SendMail(h) \/ MailAnswerLost(h)
       PROVE  RowsTyped' /\ RowsGrow
  <2>1. /\ handler[h].pc # "idle" /\ UNCHANGED <<rows, lost>>
        /\ accepted' = accepted \/ Accept(handler[h].msg.id)
        /\ doubtful' \in SUBSET (doubtful \cup {handler[h].msg.id})
    BY <1>11 DEF FcmAnswers, FcmAnswerLost, SendMail, MailAnswerLost
  <2>. QED BY <1>3, <2>1
<1>12. ASSUME NEW h \in Handlers, UpdateNotificationStatus(h) PROVE RowsTyped' /\ RowsGrow
  <2>1. handler[h].msg.id \in Ids /\ handler[h].msg.id \in 1..Len(row)
    BY <1>2, <1>12 DEF UpdateNotificationStatus
  <2>2. UNCHANGED <<queue, accepted, doubtful>> /\ lost' \in SUBSET (lost \cup {handler[h].msg.id})
    BY <1>12 DEF UpdateNotificationStatus
  <2>3. row' \in Seq({"PENDING", "SENT", "FAILED"}) /\ Len(row') = Len(row)
    BY <1>0, <1>12, <2>1 DEF UpdateNotificationStatus, RowsTyped
  <2>. QED BY <1>0, <2>1, <2>2, <2>3 DEF RowsTyped, RowsGrow
<1>13. CASE Restart
  <2>1. lost' \in SUBSET Ids
    BY <1>0, <1>2, <1>13 DEF Restart, RowsTyped
  <2>. QED BY <1>0, <1>1, <1>13, <2>1 DEF Restart, RowsTyped
<1>14. CASE UNCHANGED vars
  BY <1>0, <1>1, <1>14 DEF vars, history, RowsTyped
<1>. QED
  <2>1. ASSUME NEW r \in Requests, RequestStep(r) PROVE RowsTyped' /\ RowsGrow
    BY <1>7, <1>8, <2>1
  <2>2. ASSUME NEW h \in Handlers, HandlerStep(h) PROVE RowsTyped' /\ RowsGrow
    BY <1>9, <1>10, <1>11, <1>12, <2>2 DEF HandlerStep
  <2>. QED BY <1>4, <1>5, <1>6, <1>13, <1>14, <2>1, <2>2 DEF Next

\* The projects and their apps, and who reads them.
AppsTyped ==
    /\ project \in [Projects -> [exists : BOOLEAN, active : BOOLEAN, isDefault : BOOLEAN, cred : Creds]]
    /\ \A p \in Projects : project[p].active => project[p].exists
    /\ cache \in [Projects -> Creds \cup {None}]
    /\ \A p \in Projects : cache[p] # None => project[p].exists
    /\ raced \in SUBSET Projects

\* No project disappears.
ProjectsStay == \A p \in Projects : project[p].exists => project'[p].exists

\* What filling the cache of apps does.
LEMMA FillTyped ==
    ASSUME AppsTyped, NEW read \in [Projects -> Creds \cup {None}], Fill(read),
           \A p \in Projects : read[p] # None => project[p].exists, UNCHANGED project
    PROVE  AppsTyped' /\ ProjectsStay
<1>1. cache' \in [Projects -> Creds \cup {None}]
  BY DEF AppsTyped, Fill, Cached
<1>2. \A p \in Projects : cache'[p] # None => project[p].exists
  BY DEF AppsTyped, Fill, Cached
<1>3. raced' \in SUBSET Projects
  BY DEF AppsTyped, Fill
<1>. QED BY <1>1, <1>2, <1>3 DEF AppsTyped, ProjectsStay

\* What writing the row of a project does.
LEMMA WriteTyped ==
    ASSUME AppsTyped, NEW r \in Requests, NEW p \in Projects, NEW next,
           NEW new \in [exists : BOOLEAN, active : BOOLEAN, isDefault : BOOLEAN, cred : Creds],
           project[p].exists => new.exists, new.active => new.exists, Write(r, p, new, next)
    PROVE  AppsTyped' /\ ProjectsStay
<1>1. project' = [project EXCEPT ![p] = new] /\ UNCHANGED cache /\ raced' \in SUBSET (raced \cup {p})
  BY DEF Write
<1>. QED BY <1>1 DEF AppsTyped, ProjectsStay

\* What clearing the cache of apps does.
LEMMA ClearTyped ==
    ASSUME AppsTyped, NEW p \in Projects, ClearCache(p), UNCHANGED project
    PROVE  AppsTyped' /\ ProjectsStay
<1>1. cache' = [cache EXCEPT ![p] = None] /\ raced' \in SUBSET raced
  BY DEF ClearCache
<1>. QED BY <1>1 DEF AppsTyped, ProjectsStay

\* Projects and apps are well typed, and no project goes.
LEMMA AppsStayTyped == TypeOK /\ SourcesExist /\ [Next]_vars => AppsTyped' /\ ProjectsStay
<1> SUFFICES ASSUME TypeOK, SourcesExist, [Next]_vars PROVE AppsTyped' /\ ProjectsStay
  OBVIOUS
<1> DEFINE Row == [exists : BOOLEAN, active : BOOLEAN, isDefault : BOOLEAN, cred : Creds]
<1>0. AppsTyped /\ project \in [Projects -> Row]
  BY DEF TypeOK, AppsTyped
<1>1. ASSUME UNCHANGED apps PROVE AppsTyped' /\ ProjectsStay
  BY <1>0, <1>1 DEF AppsTyped, ProjectsStay, apps
<1>2. ASSUME NEW r \in Requests
      PROVE  /\ request[r].project \in Projects /\ (request[r].pc = "write" => request[r].cred \in Creds)
             /\ request[r].read \in [Projects -> Creds \cup {None}]
             /\ \A p \in Projects : request[r].read[p] # None => project[p].exists
  <2>1. request[r] \in RequestType
    BY DEF TypeOK
  <2>. QED BY <2>1 DEF SourcesExist, RequestType
<1>3. ASSUME NEW u \in Users, Join(u) \/ Leave(u) PROVE UNCHANGED apps
  BY <1>3 DEF Join, Leave
<1>4. ASSUME NEW c, NEW city, Notify(c, city) \/ PublishWithoutRow(c, city) PROVE UNCHANGED apps
  BY <1>4 DEF Notify, PublishWithoutRow, Send
<1>5. ASSUME NEW r \in Requests, RequestStep(r) PROVE AppsTyped' /\ ProjectsStay
  <2>1. ASSUME NEW u \in Users, SendToUser(r, u) \/ SendToUserFails(r, u) PROVE UNCHANGED apps
    BY <2>1 DEF SendToUser, SendToUserFails, Send
  <2>2. ASSUME NEW op, StartBulk(r, op) PROVE UNCHANGED apps
    BY <2>2 DEF StartBulk
  <2>3. ASSUME NEW op, NEW p, StartProject(r, op, p) PROVE UNCHANGED apps
    BY <2>3 DEF StartProject
  <2>4. CASE FetchPage(r) \/ FetchFails(r) \/ EndPage(r) \/ CreateFails(r) \/ WriteFails(r) \/ ReadProjects(r)
    <3>1. UNCHANGED apps
      BY <2>4 DEF FetchPage, FetchFails, EndPage, CreateFails, WriteFails, ReadProjects
    <3>. QED BY <1>1, <3>1
  <2>5. ASSUME NEW p \in Projects, StartUpdate(r, p) PROVE AppsTyped' /\ ProjectsStay
    <3>1. UNCHANGED project /\ (ClearCache(p) \/ UNCHANGED <<cache, raced>>)
      BY <2>5 DEF StartUpdate
    <3>. QED BY <1>0, <1>1, <3>1, ClearTyped DEF apps
  <2>6. CASE ClearAfterwards(r)
    BY <1>0, <1>2, <2>6, ClearTyped DEF ClearAfterwards
  <2>7. CASE CacheProjects(r)
    BY <1>0, <1>2, <2>7, FillTyped DEF CacheProjects
  <2>8. CASE CreateFirebaseProject(r)
    <3>1. PICK d \in BOOLEAN : Write(r, request[r].project,
              [exists |-> TRUE, active |-> TRUE, isDefault |-> d, cred |-> request[r].cred], "load")
      BY <2>8 DEF CreateFirebaseProject
    <3>2. request[r].cred \in Creds
      BY <1>2, <3>1 DEF Write
    <3> DEFINE new == [exists |-> TRUE, active |-> TRUE, isDefault |-> d, cred |-> request[r].cred]
    <3>3. new \in Row /\ new.exists
      BY <3>2
    <3>. QED BY <1>0, <1>2, <3>1, <3>3, WriteTyped
  <2>9. CASE UpsertCityFirebaseProject(r)
    <3> DEFINE new == [exists |-> TRUE, active |-> TRUE, isDefault |-> FALSE, cred |-> request[r].cred]
    <3>1. Write(r, "city", new, "clear") /\ request[r].pc = "write" /\ "city" \in Projects
      BY <2>9 DEF UpsertCityFirebaseProject, Write, Projects
    <3>2. new \in Row /\ new.exists
      BY <1>2, <3>1
    <3>. QED BY <1>0, <3>1, <3>2, WriteTyped
  <2>10. CASE UpdateFirebaseProject(r)
    <3> DEFINE p == request[r].project
    <3>1. PICK a \in BOOLEAN, d \in BOOLEAN : Write(r, p, [exists |-> TRUE, active |-> a, isDefault |-> d,
              cred |-> IF request[r].op = "credentials" THEN request[r].cred ELSE project[p].cred], "load")
      BY <2>10 DEF UpdateFirebaseProject
    <3> DEFINE cred == IF request[r].op = "credentials" THEN request[r].cred ELSE project[p].cred
    <3>2. cred \in Creds
      BY <1>0, <1>2, <3>1 DEF Write
    <3> DEFINE new == [exists |-> TRUE, active |-> a, isDefault |-> d, cred |-> cred]
    <3>3. new \in Row /\ new.exists
      BY <3>2
    <3>. QED BY <1>0, <1>2, <3>1, <3>3, WriteTyped
  <2>11. CASE DeleteFirebaseProject(r)
    <3> DEFINE p == request[r].project
               new == [project[p] EXCEPT !.active = FALSE]
    <3>1. Write(r, p, new, "clear")
      BY <2>11 DEF DeleteFirebaseProject
    <3>2. new \in Row /\ ~new.active /\ new.exists = project[p].exists
      BY <1>0, <1>2
    <3>. QED BY <1>0, <1>2, <3>1, <3>2, WriteTyped
  <2>. QED BY <1>1, <1>5, <2>1, <2>2, <2>3, <2>4, <2>5, <2>6, <2>7, <2>8, <2>9, <2>10, <2>11 DEF RequestStep
<1>6. ASSUME NEW h \in Handlers, HandlerStep(h) PROVE AppsTyped' /\ ProjectsStay
  <2>1. CASE AskFcm(h)
    <3> DEFINE read == [p \in Projects |-> IF p = handler[h].project THEN handler[h].cred ELSE None]
    <3>1. handler[h].pc = "app" /\ Fill(read) /\ UNCHANGED project
      BY <2>1 DEF AskFcm
    <3>2. handler[h].cred \in Creds /\ project[handler[h].project].exists
      BY <3>1 DEF SourcesExist
    <3>3. read \in [Projects -> Creds \cup {None}] /\ \A p \in Projects : read[p] # None => project[p].exists
      BY <3>2
    <3>. QED BY <1>0, <3>1, <3>3, FillTyped
  <2>2. CASE ~AskFcm(h)
    <3>1. UNCHANGED apps
      BY <1>6, <2>2 DEF HandlerStep, HandleNotificationSend, PreparePush, LookUpProject, FcmAnswers,
              FcmAnswerLost, PrepareMail, SendMail, MailAnswerLost, RejectChannel, UpdateNotificationStatus
    <3>. QED BY <1>1, <3>1
  <2>. QED BY <2>1, <2>2
<1>7. CASE Restart
  <2>1. cache' = [p \in Projects |-> IF project[p].active THEN project[p].cred ELSE None]
        /\ raced' = {} /\ UNCHANGED project
    BY <1>7 DEF Restart
  <2>. QED BY <1>0, <2>1 DEF AppsTyped, ProjectsStay
<1>8. CASE UNCHANGED vars
  BY <1>1, <1>8 DEF vars, apps
<1>. QED BY <1>1, <1>3, <1>4, <1>5, <1>6, <1>7, <1>8 DEF Next

\* A failure is taken from the budget.
LEMMA SpendTyped ==
    ASSUME budget \in [Kinds -> Nat], NEW S, SpendAll(S)
    PROVE  budget' \in [Kinds -> Nat]
BY DEF SpendAll

\* The budget is never overdrawn.
LEMMA BudgetStaysTyped == TypeOK /\ [Next]_vars => budget' \in [Kinds -> Nat]
<1> SUFFICES ASSUME TypeOK, [Next]_vars PROVE budget' \in [Kinds -> Nat]
  OBVIOUS
<1>0. budget \in [Kinds -> Nat]
  BY DEF TypeOK
<1>1. ASSUME UNCHANGED budget \/ \E S : SpendAll(S) PROVE budget' \in [Kinds -> Nat]
  BY <1>0, <1>1, SpendTyped
<1>2. ASSUME NEW u \in Users, Join(u) \/ Leave(u) PROVE \E S : SpendAll(S)
  BY <1>2 DEF Join, Leave, Spend
<1>3. ASSUME NEW c, NEW city, Notify(c, city) \/ PublishWithoutRow(c, city) PROVE \E S : SpendAll(S)
  BY <1>3 DEF Notify, PublishWithoutRow, Send, Spend
<1>4. ASSUME NEW r \in Requests, RequestStep(r) PROVE UNCHANGED budget \/ \E S : SpendAll(S)
  <2>1. ASSUME NEW u \in Users, SendToUser(r, u) \/ SendToUserFails(r, u) PROVE \E S : SpendAll(S)
    BY <2>1 DEF SendToUser, SendToUserFails, Send, Spend
  <2>2. ASSUME NEW op, NEW p, StartBulk(r, op) \/ StartProject(r, op, p) \/ StartUpdate(r, p)
        PROVE  \E S : SpendAll(S)
    BY <2>2 DEF StartBulk, StartProject, StartUpdate, Start, Spend
  <2>3. CASE FetchFails(r) \/ WriteFails(r)
    BY <2>3 DEF FetchFails, WriteFails, Spend
  <2>4. CASE \/ FetchPage(r) \/ EndPage(r) \/ CreateFails(r) \/ ReadProjects(r) \/ CacheProjects(r)
             \/ ClearAfterwards(r) \/ CreateFirebaseProject(r) \/ UpsertCityFirebaseProject(r)
             \/ UpdateFirebaseProject(r) \/ DeleteFirebaseProject(r)
    BY <2>4 DEF FetchPage, EndPage, CreateFails, ReadProjects, CacheProjects, ClearAfterwards,
                CreateFirebaseProject, UpsertCityFirebaseProject, UpdateFirebaseProject,
                DeleteFirebaseProject, Write
  <2>. QED BY <1>4, <2>1, <2>2, <2>3, <2>4 DEF RequestStep
<1>5. ASSUME NEW h \in Handlers, HandlerStep(h) PROVE UNCHANGED budget \/ \E S : SpendAll(S)
  BY <1>5 DEF HandlerStep, HandleNotificationSend, PreparePush, LookUpProject, AskFcm, FcmAnswers, FcmAnswerLost,
              PrepareMail, SendMail, MailAnswerLost, RejectChannel, UpdateNotificationStatus, Spend
<1>6. CASE Restart
  BY <1>1, <1>6 DEF Restart, Spend
<1>7. CASE UNCHANGED vars
  BY <1>0, <1>7 DEF vars
<1>. QED BY <1>1, <1>2, <1>3, <1>4, <1>5, <1>6, <1>7 DEF Next

\* Only these steps change a request, or a handler.
LEMMA RequestsAlone ==
    ASSUME [Next]_vars
    PROVE  \/ \E r \in Requests : RequestStep(r)
           \/ \E u \in Users : Join(u) \/ Leave(u)
           \/ Restart
           \/ UNCHANGED request
<1>1. ASSUME NEW c, NEW city, Notify(c, city) \/ PublishWithoutRow(c, city) PROVE UNCHANGED request
  BY <1>1 DEF Notify, PublishWithoutRow
<1>2. ASSUME NEW h \in Handlers, HandlerStep(h) PROVE UNCHANGED request
  BY <1>2 DEF HandlerStep, HandleNotificationSend, PreparePush, LookUpProject, AskFcm, FcmAnswers, FcmAnswerLost,
              PrepareMail, SendMail, MailAnswerLost, RejectChannel, UpdateNotificationStatus
<1>3. CASE UNCHANGED vars
  BY <1>3 DEF vars
<1>. QED BY <1>1, <1>2, <1>3 DEF Next

\* Only handlers and restarts change handlers.
LEMMA HandlersAlone ==
    ASSUME [Next]_vars
    PROVE  (\E h \in Handlers : HandlerStep(h)) \/ Restart \/ UNCHANGED handler
<1>1. ASSUME NEW u \in Users, Join(u) \/ Leave(u) PROVE UNCHANGED handler
  BY <1>1 DEF Join, Leave
<1>2. ASSUME NEW c, NEW city, Notify(c, city) \/ PublishWithoutRow(c, city) PROVE UNCHANGED handler
  BY <1>2 DEF Notify, PublishWithoutRow, Send
<1>3. ASSUME NEW r \in Requests, RequestStep(r) PROVE UNCHANGED handler
  BY <1>3 DEF RequestStep, StartBulk, FetchPage, FetchFails, EndPage, SendToUser, SendToUserFails, Send,
              StartUpdate, StartProject, CreateFirebaseProject, CreateFails, UpsertCityFirebaseProject,
              UpdateFirebaseProject, DeleteFirebaseProject, Write, WriteFails, ClearAfterwards,
              ReadProjects, CacheProjects
<1>4. CASE UNCHANGED vars
  BY <1>4 DEF vars
<1>. QED BY <1>1, <1>2, <1>3, <1>4 DEF Next

\* What a step does to a request: it moves, or users come and go under a bulk.
LEMMA RequestsMove ==
    ASSUME TypeOK, SourcesExist, [Next]_vars
    PROVE  /\ request' = [r \in Requests |-> request'[r]]
           /\ \A r \in Requests :
                 \/ Becomes(request[r], request'[r])
                 \/ /\ request'[r] \in RequestType
                    /\ \A f \in {"op", "pc", "project", "cred", "read"} : request'[r][f] = request[r][f]
<1>0. request \in [Requests -> RequestType]
  BY DEF TypeOK
<1> DEFINE Moves(r) == \/ Becomes(request[r], request'[r])
                       \/ /\ request'[r] \in RequestType
                          /\ \A f \in {"op", "pc", "project", "cred", "read"} : request'[r][f] = request[r][f]
           Goal == request' = [r \in Requests |-> request'[r]] /\ \A r \in Requests : Moves(r)
<1>1. CASE UNCHANGED request
  BY <1>0, <1>1
<1>2. ASSUME NEW u \in Users, Join(u) \/ Leave(u) PROVE Goal
  <2>1. ASSUME NEW r \in Requests PROVE Moves(r)
    <3>1. \/ request'[r] = request[r]
          \/ request'[r] = [request[r] EXCEPT !.joined = @ \cup {u}]
          \/ request'[r] = [request[r] EXCEPT !.left = @ \cup {u}]
      BY <1>2 DEF Join, Leave
    <3>. QED BY <1>0, <3>1 DEF RequestType
  <2>2. request' = [r \in Requests |-> request'[r]]
    BY <1>2 DEF Join, Leave
  <2>. QED BY <2>1, <2>2
<1>3. ASSUME NEW s \in Requests, RequestStep(s) PROVE Goal
  BY <1>0, <1>3, RequestMoves
<1>4. CASE Restart
  BY <1>0, <1>4, EndsWell DEF Restart
<1>. QED BY <1>1, <1>2, <1>3, <1>4, RequestsAlone

\* What a step does to a handler.
LEMMA HandlersMove ==
    ASSUME TypeOK, [Next]_vars
    PROVE  /\ handler' = [h \in Handlers |-> handler'[h]]
           /\ \A h \in Handlers : Turns(handler[h], handler'[h]) \/ handler'[h] = handler[h]
<1>0. handler \in [Handlers -> HandlerType] /\ RowsGrow
  BY RowsStayTyped DEF TypeOK
<1> DEFINE Goal == /\ handler' = [h \in Handlers |-> handler'[h]]
                   /\ \A h \in Handlers : Turns(handler[h], handler'[h]) \/ handler'[h] = handler[h]
<1>1. ASSUME NEW k \in Handlers, HandlerStep(k) PROVE Goal
  BY <1>0, <1>1, HandlerMoves DEF Goes
<1>2. CASE Restart
  BY <1>2, NoHandlerTyped DEF Restart, Turns, NoHandler
<1>3. CASE UNCHANGED handler
  BY <1>0, <1>3
<1>. QED BY <1>1, <1>2, <1>3, HandlersAlone

\* Every step keeps the types.
LEMMA TypeStep == TypeOK /\ SourcesExist /\ [Next]_vars => TypeOK' /\ SourcesExist'
<1> SUFFICES ASSUME TypeOK, SourcesExist, [Next]_vars PROVE TypeOK' /\ SourcesExist'
  OBVIOUS
<1>1. RowsTyped' /\ RowsGrow /\ AppsTyped' /\ ProjectsStay /\ budget' \in [Kinds -> Nat]
  BY RowsStayTyped, AppsStayTyped, BudgetStaysTyped
<1>2. UsersTyped'
  BY UsersStayTyped DEF UsersTyped, TypeOK
<1>3. request' \in [Requests -> RequestType]
  BY RequestsMove DEF Becomes
<1>4. handler \in [Handlers -> HandlerType]
  BY DEF TypeOK
<1>5. handler' \in [Handlers -> HandlerType]
  BY <1>4, HandlersMove DEF Turns
<1>6. Len(row) \in Nat /\ Len(row') \in Nat /\ MaxRows \in Nat
  BY <1>1, DeliveriesAssumption DEF TypeOK, RowsTyped
<1>7. ASSUME NEW h \in Handlers
      PROVE  handler'[h].msg.id <= Len(row') /\ (handler'[h].pc # "idle" => handler'[h].msg.id # 0)
  <2>1. handler[h].msg.id \in 0..MaxRows /\ handler[h].msg.id <= Len(row)
        /\ (handler[h].pc # "idle" => handler[h].msg.id # 0)
    BY DEF TypeOK, HandlerType, MessageType
  <2>2. CASE Turns(handler[h], handler'[h])
    BY <1>6, <2>2 DEF Turns
  <2>3. CASE handler'[h] = handler[h]
    BY <1>1, <1>6, <2>1, <2>3 DEF RowsGrow
  <2>. QED BY <2>2, <2>3, HandlersMove
<1>8. TypeOK'
  BY <1>1, <1>2, <1>3, <1>5, <1>7 DEF TypeOK, RowsTyped, AppsTyped, UsersTyped
<1>9. \A p \in Projects : project[p].active => project[p].exists
  BY DEF TypeOK
<1>10. ASSUME NEW r \in Requests
       PROVE  /\ request'[r].pc = "write" => request'[r].cred \in Creds
              /\ \A p \in Projects : request'[r].read[p] # None => project'[p].exists
  <2>1. /\ request[r].pc = "write" => request[r].cred \in Creds
        /\ \A p \in Projects : request[r].read[p] # None => project[p].exists
    BY DEF SourcesExist
  <2>2. CASE Becomes(request[r], request'[r])
    BY <1>1, <1>9, <2>1, <2>2 DEF Becomes, ProjectsStay
  <2>3. CASE \A f \in {"op", "pc", "project", "cred", "read"} : request'[r][f] = request[r][f]
    BY <1>1, <2>1, <2>3 DEF ProjectsStay
  <2>. QED BY <2>2, <2>3, RequestsMove
<1>11. ASSUME NEW h \in Handlers, handler'[h].pc = "app"
       PROVE  handler'[h].cred \in Creds /\ project'[handler'[h].project].exists
  <2>1. handler[h].pc = "app" => handler[h].cred \in Creds /\ project[handler[h].project].exists
    BY DEF SourcesExist
  <2>2. handler[h].project \in Projects /\ handler'[h].project \in Projects
    BY <1>4, <1>5 DEF HandlerType
  <2>3. \A p \in Projects : project[p].cred \in Creds
    BY DEF TypeOK
  <2>4. CASE Turns(handler[h], handler'[h])
    BY <1>1, <1>9, <1>11, <2>2, <2>3, <2>4 DEF Turns, ProjectsStay
  <2>5. CASE handler'[h] = handler[h]
    BY <1>1, <1>11, <2>1, <2>2, <2>5 DEF ProjectsStay
  <2>. QED BY <2>4, <2>5, HandlersMove
<1>12. SourcesExist'
  BY <1>10, <1>11 DEF SourcesExist
<1>. QED BY <1>8, <1>12

\* The initial states are well typed.
LEMMA TypeInit == Init => TypeOK /\ SourcesExist
<1> SUFFICES ASSUME Init PROVE TypeOK /\ SourcesExist
  OBVIOUS
<1>1. UsersTyped
  <2>1. PICK S \in SUBSET Users : users \in Orders(S)
    BY DEF Init
  <2>2. IsFiniteSet(S) /\ Cardinality(S) \in Nat
    BY DeliveriesAssumption, FS_Subset, FS_CardinalityType
  <2>3. /\ users \in [1..Cardinality(S) -> S]
        /\ \A u \in S : \E i \in DOMAIN users : users[i] = u
    BY <2>1 DEF Orders
  <2>4. users \in Seq(S) /\ DOMAIN users = 1..Cardinality(S)
    BY <2>2, <2>3
  <2>5. users \in Seq(Users)
    BY <2>4
  <2>6. \A i, j \in 1..Cardinality(S) : users[i] = users[j] => i = j
    <3>1. IsFiniteSet(1..Cardinality(S)) /\ Cardinality(1..Cardinality(S)) = Cardinality(S)
      BY <2>2, FS_Interval
    <3>2. users \in Surjection(1..Cardinality(S), S)
      BY <2>3 DEF Surjection
    <3>3. users \in Injection(1..Cardinality(S), S)
      BY <2>2, <3>1, <3>2, FS_SurjSameCardinalityImpliesInj
    <3>. QED BY <3>3 DEF Injection, IsInjective
  <2>. QED BY <2>4, <2>5, <2>6 DEF UsersTyped
<1>2. AppsTyped
  <2>1. PICK here \in BOOLEAN, cred \in Creds :
          project = [p \in Projects |->
                       LET there == p = "kodi" \/ (p = "city" /\ here)
                       IN  [exists |-> there, active |-> there, isDefault |-> p = "kodi", cred |-> cred]]
    BY DEF Init
  <2>2. cache = [p \in Projects |-> IF project[p].active THEN project[p].cred ELSE None] /\ raced = {}
    BY DEF Init
  <2>3. /\ project \in [Projects -> [exists : BOOLEAN, active : BOOLEAN, isDefault : BOOLEAN, cred : Creds]]
        /\ \A p \in Projects : project[p].active => project[p].exists
    BY <2>1
  <2>. QED BY <2>2, <2>3 DEF AppsTyped
<1>3. RowsTyped
  BY DeliveriesAssumption DEF Init, RowsTyped, Ids
<1>4. budget \in [Kinds -> Nat]
  BY DeliveriesAssumption DEF Init
<1>5. request \in [Requests -> RequestType] /\ handler \in [Handlers -> HandlerType]
  BY NoRequestTyped, NoHandlerTyped DEF Init
<1>6. \A h \in Handlers : handler[h].msg.id <= Len(row) /\ handler[h].pc = "idle"
  BY NoHandlerTyped DEF Init
<1>7. TypeOK
  BY <1>1, <1>2, <1>3, <1>4, <1>5, <1>6 DEF TypeOK, UsersTyped, AppsTyped, RowsTyped
<1>8. SourcesExist
  BY <1>6 DEF SourcesExist, Init, NoRequest, NoApps
<1>. QED BY <1>7, <1>8

-----------------------------------------------------------------------------
(* Delivery                                                                *)

\* A new row, and perhaps its message.
LEMMA SendIsCarried ==
    ASSUME TypeOK, DeliveryInv, NEW c \in Channels, NEW city \in BOOLEAN, NEW spent, Send(c, city, spent)
    PROVE  DeliveryInv'
<1> DEFINE n == Len(row) + 1
           m == [id |-> n, channel |-> c, city |-> city]
<1>1. /\ row \in Seq({"PENDING", "SENT", "FAILED"}) /\ Len(row) \in Nat
      /\ \A x \in queue : x.id \in 0..MaxRows /\ x.id <= Len(row)
      /\ \A h \in Handlers : handler[h].msg.id \in 0..MaxRows /\ handler[h].msg.id <= Len(row)
      /\ accepted \in [Ids -> Nat] /\ MaxRows \in Nat
  BY DeliveriesAssumption DEF TypeOK, MessageType, HandlerType
<1>2. row' = Append(row, "PENDING") /\ UNCHANGED <<handler, accepted, doubtful>>
  BY DEF Send
<1>3. queue' \in SUBSET (queue \cup {m}) /\ m.id = n
  BY DEF Send
<1>4. Len(row') = n /\ row'[n] = "PENDING" /\ \A i \in 1..Len(row) : row'[i] = row[i]
  BY <1>1, <1>2
<1> HIDE DEF m
<1>5. \A m1, m2 \in queue' : m1.id = m2.id /\ m1.id # 0 => m1 = m2
  <2>1. \A x \in queue : x.id # n
    BY <1>1
  <2>. QED BY <1>3, <2>1 DEF DeliveryInv
<1>6. ASSUME NEW i \in Ids \ doubtful PROVE CarriedOnce(i)'
  <2>1. CarriedOnce(i) /\ i \in Nat /\ i # 0 /\ i \in 1..MaxRows
    BY <1>1, <1>6 DEF DeliveryInv, Ids
  <2>2. CASE i <= Len(row)
    <3>1. i \in 1..Len(row) /\ row'[i] = row[i] /\ i # n /\ i <= Len(row')
      BY <1>1, <1>4, <2>1, <2>2
    <3>. QED BY <1>1, <1>2, <1>3, <2>1, <2>2, <3>1 DEF CarriedOnce, Handling
  <2>3. CASE i > Len(row)
    <3>1. \A h \in Handlers : ~Handling(h, i)
      BY <1>1, <2>1, <2>3 DEF Handling
    <3>2. \A x \in queue' : x.id = i => i = n
      BY <1>1, <1>3, <2>1, <2>3
    <3>3. accepted[i] = 0 /\ (i <= Len(row') => i = n)
      BY <1>1, <1>4, <2>1, <2>3 DEF CarriedOnce
    <3>. QED BY <1>2, <1>4, <2>1, <3>1, <3>2, <3>3 DEF CarriedOnce, Handling
  <2>. QED BY <1>1, <2>1, <2>2, <2>3
<1>. QED BY <1>2, <1>5, <1>6 DEF DeliveryInv

\* A handler that has no answer yet goes on with its message; with an answer it is
\* "sent", unless the answer was lost.
LEMMA GoesOn ==
    ASSUME TypeOK, DeliveryInv, NEW h \in Handlers, NEW v,
           handler' = [handler EXCEPT ![h] = v], handler[h].pc \notin {"idle", "sent"},
           v.pc # "idle", v.msg = handler[h].msg, UNCHANGED rows,
           \/ UNCHANGED <<accepted, doubtful>>
           \/ Accept(handler[h].msg.id) /\ doubtful' = doubtful \cup {handler[h].msg.id}
           \/ Accept(handler[h].msg.id) /\ UNCHANGED doubtful /\ v.pc = "sent"
    PROVE  DeliveryInv'
<1> DEFINE n == handler[h].msg.id
<1>1. accepted \in [Ids -> Nat] /\ handler \in [Handlers -> HandlerType] /\ Handling(h, n)
  BY DEF TypeOK, Handling
<1>2. row' = row /\ queue' = queue
  BY DEF rows
<1>3. \A k \in Handlers, i \in Ids : Handling(k, i)' <=> Handling(k, i)
  BY <1>1 DEF Handling
<1>4. handler'[h] = v /\ \A k \in Handlers \ {h} : handler'[k] = handler[k]
  BY <1>1
<1>5. ASSUME NEW i \in Ids \ doubtful' PROVE CarriedOnce(i)'
  <2>1. CarriedOnce(i) /\ accepted[i] \in Nat
    BY <1>1, <1>5 DEF DeliveryInv
  <2>2. CASE i # n
    <3>1. accepted'[i] = accepted[i] /\ \A k \in Handlers : Handling(k, i) => k # h
      BY <1>1, <2>2 DEF Accept, Handling
    <3>. QED BY <1>2, <1>3, <1>4, <2>1, <3>1 DEF CarriedOnce
  <2>3. CASE i = n
    <3>1. /\ row[i] = "PENDING" /\ accepted[i] = 0 /\ (\A k \in Handlers : Handling(k, i) => k = h)
          /\ \A m \in queue : m.id # i
      BY <1>1, <2>1, <2>3 DEF CarriedOnce
    <3>2. CASE UNCHANGED accepted
      BY <1>2, <1>3, <1>4, <2>1, <3>1, <3>2 DEF CarriedOnce
    <3>3. CASE Accept(n) /\ v.pc = "sent"
      <4>1. accepted'[i] = 1
        BY <1>1, <2>3, <3>1, <3>3 DEF Accept
      <4>2. i <= Len(row)
        <5>1. n \in 0..MaxRows /\ n <= Len(row)
          BY <1>1 DEF TypeOK, HandlerType, MessageType
        <5>. QED BY <2>3, <5>1
      <4>3. Len(row) \in Nat /\ i \in Nat
        BY <1>5 DEF TypeOK, Ids
      <4>. QED BY <1>2, <1>3, <1>4, <3>1, <3>3, <4>1, <4>2, <4>3 DEF CarriedOnce
    <3>. QED BY <1>5, <2>3, <3>2, <3>3
  <2>. QED BY <2>2, <2>3
<1>. QED BY <1>2, <1>5 DEF DeliveryInv

\* What RabbitMQ delivers goes from the queue to a handler.
LEMMA TakenIsCarried ==
    ASSUME TypeOK, DeliveryInv, NEW h \in Handlers, NEW m \in queue, HandleNotificationSend(h, m)
    PROVE  DeliveryInv'
<1>1. /\ row \in Seq({"PENDING", "SENT", "FAILED"}) /\ Len(row) \in Nat
      /\ \A x \in queue : x \in MessageType /\ x.id \in 0..MaxRows /\ x.id <= Len(row)
      /\ \A k \in Handlers : handler[k].msg.id \in 0..MaxRows /\ handler[k].msg.id <= Len(row)
      /\ accepted \in [Ids -> Nat] /\ MaxRows \in Nat /\ handler \in [Handlers -> HandlerType]
  BY DeliveriesAssumption DEF TypeOK, MessageType, HandlerType
<1>2. handler[h].pc = "idle" /\ UNCHANGED accepted
  BY DEF HandleNotificationSend, history
<1>3. queue' \in SUBSET queue
  BY DEF HandleNotificationSend
<1>4. \A m1, m2 \in queue' : m1.id = m2.id /\ m1.id # 0 => m1 = m2
  BY <1>3 DEF DeliveryInv
<1>5. CASE m.id = 0 /\ UNCHANGED <<row, handler>>
  <2>1. doubtful' = doubtful
    BY <1>5 DEF HandleNotificationSend, history
  <2>2. ASSUME NEW i \in Ids \ doubtful PROVE CarriedOnce(i)'
    BY <1>2, <1>3, <1>5, <2>2 DEF CarriedOnce, Handling, DeliveryInv
  <2>. QED BY <1>4, <2>1, <2>2 DEF DeliveryInv
<1>6. CASE m.id = 0 /\ row' = Append(row, "PENDING")
           /\ handler' = [handler EXCEPT ![h] = With([m EXCEPT !.id = Len(row) + 1], "route")] /\ Len(row) < MaxRows
  <2> DEFINE n == Len(row) + 1
             w == [m EXCEPT !.id = n]
             v == With(w, "route")
  <2>0. n \in 0..MaxRows /\ n \in Nat
    BY <1>1, <1>6
  <2>1. w \in MessageType /\ w.id = n
    BY <1>1, <2>0 DEF MessageType
  <2>2. v.pc = "route" /\ v.msg.id = n
    <3> HIDE DEF w, n
    <3>. QED BY <2>1, NoHandlerTyped
  <2>3. doubtful' = doubtful
    BY <1>6 DEF HandleNotificationSend, history
  <2>4. Len(row') = n /\ row'[n] = "PENDING" /\ \A i \in 1..Len(row) : row'[i] = row[i]
    BY <1>1, <1>6
  <2>5. handler'[h] = v /\ \A k \in Handlers \ {h} : handler'[k] = handler[k]
    BY <1>1, <1>6
  <2> HIDE DEF v, w
  <2>6. ASSUME NEW i \in Ids \ doubtful PROVE CarriedOnce(i)'
    <3>1. CarriedOnce(i) /\ i \in 1..MaxRows /\ accepted[i] \in Nat
      BY <1>1, <2>6 DEF DeliveryInv, Ids
    <3>2. CASE i <= Len(row)
      <4>1. row'[i] = row[i] /\ i # n /\ i <= Len(row')
        BY <1>1, <2>4, <3>1, <3>2
      <4>2. \A k \in Handlers : Handling(k, i)' <=> Handling(k, i)
        BY <1>2, <2>2, <2>5, <4>1 DEF Handling
      <4>3. \A k \in Handlers : Handling(k, i) => handler'[k] = handler[k]
        BY <1>2, <2>5 DEF Handling
      <4>. QED BY <1>1, <1>2, <1>3, <3>1, <3>2, <4>1, <4>2, <4>3 DEF CarriedOnce
    <3>3. CASE i > Len(row)
      <4>1. \A k \in Handlers : Handling(k, i)' => k = h /\ i = n
        BY <1>1, <2>2, <2>5, <3>1, <3>3 DEF Handling
      <4>2. \A x \in queue' : x.id # i
        BY <1>1, <1>3, <3>1, <3>3
      <4>3. accepted'[i] = 0 /\ (i <= Len(row') => i = n)
        BY <1>1, <1>2, <2>4, <3>1, <3>3 DEF CarriedOnce
      <4>. QED BY <2>4, <4>1, <4>2, <4>3 DEF CarriedOnce
    <3>. QED BY <1>1, <3>1, <3>2, <3>3
  <2>. QED BY <1>4, <2>3, <2>6 DEF DeliveryInv
<1>7. CASE m.id # 0
  <2> DEFINE v == With(m, "route")
  <2>1. handler' = [handler EXCEPT ![h] = v] /\ row' = row
        /\ (queue' = queue \ {m} \/ m.id \in doubtful') /\ doubtful \subseteq doubtful'
    BY <1>7 DEF HandleNotificationSend, With
  <2>2. v.pc = "route" /\ v.msg = m
    BY <1>1, NoHandlerTyped
  <2>3. handler'[h] = v /\ \A k \in Handlers \ {h} : handler'[k] = handler[k]
    BY <1>1, <2>1
  <2> HIDE DEF v
  <2>4. ASSUME NEW i \in Ids \ doubtful' PROVE CarriedOnce(i)'
    <3>1. CarriedOnce(i) /\ i # 0
      BY <1>1, <2>1, <2>4 DEF DeliveryInv, Ids
    <3>2. CASE i # m.id
      <4>1. \A k \in Handlers : Handling(k, i)' <=> Handling(k, i)
        BY <1>2, <2>2, <2>3, <3>2 DEF Handling
      <4>2. \A k \in Handlers : Handling(k, i) => handler'[k] = handler[k]
        BY <1>2, <2>3 DEF Handling
      <4>. QED BY <1>2, <1>3, <2>1, <3>1, <4>1, <4>2 DEF CarriedOnce
    <3>3. CASE i = m.id
      <4>1. \A x \in queue' : x.id # i
        BY <1>3, <2>1, <2>4, <3>1, <3>3 DEF DeliveryInv
      <4>2. accepted[i] = 0 /\ row[i] = "PENDING" /\ \A k \in Handlers : ~Handling(k, i)
        BY <3>1, <3>3 DEF CarriedOnce
      <4>3. \A k \in Handlers : Handling(k, i)' => k = h
        BY <2>3, <4>2 DEF Handling
      <4>. QED BY <1>2, <2>1, <2>2, <2>3, <3>1, <4>1, <4>2, <4>3 DEF CarriedOnce
    <3>. QED BY <3>2, <3>3
  <2>. QED BY <1>4, <2>4 DEF DeliveryInv
<1>. QED BY <1>5, <1>6, <1>7 DEF HandleNotificationSend, With

\* The status of a notification is written when nobody carries it any more.
LEMMA StatusIsCarried ==
    ASSUME TypeOK, DeliveryInv, NEW h \in Handlers, UpdateNotificationStatus(h)
    PROVE  DeliveryInv'
<1> DEFINE n == handler[h].msg.id
<1>1. /\ row \in Seq({"PENDING", "SENT", "FAILED"}) /\ Len(row) \in Nat
      /\ handler \in [Handlers -> HandlerType] /\ n \in 0..MaxRows /\ n <= Len(row)
      /\ handler[h].pc \in {"sent", "failed"} /\ MaxRows \in Nat
  BY DeliveriesAssumption DEF TypeOK, MessageType, HandlerType, UpdateNotificationStatus
<1>2. n # 0 /\ n \in 1..Len(row)
  BY <1>1 DEF TypeOK
<1>3. /\ handler' = [handler EXCEPT ![h] = NoHandler] /\ UNCHANGED <<queue, accepted, doubtful>>
      /\ row' = row \/ row' = [row EXCEPT ![n] = IF handler[h].pc = "sent" THEN "SENT" ELSE "FAILED"]
  BY DEF UpdateNotificationStatus
<1>4. /\ Len(row') = Len(row) /\ \A i \in 1..Len(row) : i # n => row'[i] = row[i]
      /\ row'[n] = row[n] \/ row'[n] = IF handler[h].pc = "sent" THEN "SENT" ELSE "FAILED"
  BY <1>1, <1>2, <1>3
<1>5. handler'[h].pc = "idle" /\ \A k \in Handlers \ {h} : handler'[k] = handler[k]
  BY <1>1, <1>3, NoHandlerTyped
<1>6. ASSUME NEW i \in Ids \ doubtful PROVE CarriedOnce(i)'
  <2>1. CarriedOnce(i) /\ i \in 1..MaxRows
    BY <1>6 DEF DeliveryInv, Ids
  <2>2. CASE i # n
    <3>1. \A k \in Handlers : Handling(k, i)' => Handling(k, i) /\ handler'[k] = handler[k]
      BY <1>5 DEF Handling
    <3>2. \A k \in Handlers : Handling(k, i) => i <= Len(row)
      BY <1>1, <2>1 DEF Handling, TypeOK
    <3>3. \A m \in queue : m.id = i => i <= Len(row)
      BY DEF TypeOK
    <3>4. i <= Len(row) => row'[i] = row[i]
      BY <1>1, <1>4, <2>1, <2>2
    <3>. QED BY <1>3, <1>4, <2>1, <3>1, <3>2, <3>3, <3>4 DEF CarriedOnce
  <2>3. CASE i = n
    <3>1. Handling(h, i)
      BY <1>1, <2>3 DEF Handling
    <3>2. /\ \A m \in queue' : m.id # i
          /\ \A k \in Handlers : ~Handling(k, i)'
      BY <1>3, <1>5, <2>1, <3>1 DEF CarriedOnce, Handling
    <3>3. row[i] = "PENDING" /\ (handler[h].pc # "sent" => accepted[i] = 0)
      BY <2>1, <3>1 DEF CarriedOnce
    <3>. QED BY <1>1, <1>2, <1>3, <1>4, <2>1, <2>3, <3>2, <3>3 DEF CarriedOnce
  <2>. QED BY <2>2, <2>3
<1>. QED BY <1>3, <1>6 DEF DeliveryInv

\* Every step keeps each notification with one carrier.
LEMMA DeliveryStep == TypeOK /\ SourcesExist /\ DeliveryInv /\ [Next]_vars => DeliveryInv'
<1> SUFFICES ASSUME TypeOK, SourcesExist, DeliveryInv, [Next]_vars PROVE DeliveryInv'
  OBVIOUS
<1>0. handler \in [Handlers -> HandlerType] /\ \A h \in Handlers : handler[h].pc # "idle" => handler[h].msg.id # 0
  BY DEF TypeOK
<1>1. ASSUME UNCHANGED <<rows, handler, accepted, doubtful>> PROVE DeliveryInv'
  BY <1>1 DEF DeliveryInv, CarriedOnce, Handling, rows
<1>2. ASSUME NEW u \in Users, Join(u) \/ Leave(u) PROVE DeliveryInv'
  BY <1>1, <1>2 DEF Join, Leave, history
<1>3. ASSUME NEW c \in Channels, NEW city \in BOOLEAN, Notify(c, city) PROVE DeliveryInv'
  BY <1>3, SendIsCarried DEF Notify
<1>4. ASSUME NEW c \in Channels, NEW city \in BOOLEAN, PublishWithoutRow(c, city) PROVE DeliveryInv'
  <2> DEFINE m == [id |-> 0, channel |-> c, city |-> city]
  <2>1. queue' = queue \cup {m} /\ UNCHANGED <<row, handler, accepted, doubtful>> /\ m.id = 0
    BY <1>4 DEF PublishWithoutRow, history
  <2> HIDE DEF m
  <2>2. \A i \in Ids : i # 0
    BY DeliveriesAssumption DEF Ids
  <2>3. ASSUME NEW i \in Ids \ doubtful PROVE CarriedOnce(i)'
    BY <2>1, <2>2, <2>3 DEF DeliveryInv, CarriedOnce, Handling
  <2>. QED BY <2>1, <2>3 DEF DeliveryInv
<1>5. ASSUME NEW r \in Requests, RequestStep(r) PROVE DeliveryInv'
  <2>1. ASSUME NEW u \in Users, SendToUser(r, u) PROVE DeliveryInv'
    <3>1. request[r].channel \in Channels /\ (request[r].op = "city" \/ u \in CityUsers) \in BOOLEAN
      BY DEF TypeOK, RequestType
    <3>2. PICK city \in BOOLEAN : Send(request[r].channel, city, {})
      BY <2>1, <3>1 DEF SendToUser
    <3>. QED BY <3>1, <3>2, SendIsCarried
  <2>2. CASE \A u \in Users : ~SendToUser(r, u)
    <3>1. UNCHANGED <<rows, handler, history>>
      BY <1>5, <2>2 DEF RequestStep, StartBulk, FetchPage, FetchFails, EndPage, SendToUserFails,
              StartUpdate, StartProject, CreateFirebaseProject, CreateFails, UpsertCityFirebaseProject,
              UpdateFirebaseProject, DeleteFirebaseProject, Write, WriteFails, ClearAfterwards,
              ReadProjects, CacheProjects
    <3>. QED BY <1>1, <3>1 DEF history
  <2>. QED BY <2>1, <2>2
<1>6. ASSUME NEW h \in Handlers, HandlerStep(h) PROVE DeliveryInv'
  <2> DEFINE g == handler[h]
  <2>0. ASSUME g.pc \notin {"idle", "sent", "failed"}
        PROVE  \E v : handler' = [handler EXCEPT ![h] = v] /\ v.pc # "idle" /\ v.msg = g.msg
    <3>1. CASE UNCHANGED handler
      <4>1. handler' = [handler EXCEPT ![h] = g]
        BY <1>0, <3>1
      <4>. QED BY <2>0, <4>1
    <3>2. CASE \E v : Goes(g, v) /\ handler' = [handler EXCEPT ![h] = v]
      BY <2>0, <3>2 DEF Goes, Turns
    <3>. QED BY <1>6, <3>1, <3>2, HandlerMoves, RowsStayTyped
  <2>1. ASSUME NEW v, handler' = [handler EXCEPT ![h] = v], g.pc \notin {"idle", "sent"},
               v.pc # "idle", v.msg = g.msg, UNCHANGED <<rows, history>>
        PROVE  DeliveryInv'
    BY <2>1, GoesOn DEF history
  <2>2. g \in HandlerType /\ (g.pc # "idle" => g.msg.id # 0 /\ g.msg.id <= Len(row))
    BY DEF TypeOK
  <2>3. ASSUME NEW verdict \in {"sent", "failed"}, handler' = Ended(h, verdict), g.pc \notin {"idle", "sent"},
               UNCHANGED rows
        PROVE  \E v : handler' = [handler EXCEPT ![h] = v] /\ v.pc = verdict /\ v.msg = g.msg
    BY <2>2, <2>3, EndedTurns DEF rows
  <2>5. ASSUME NEW m \in queue, HandleNotificationSend(h, m) PROVE DeliveryInv'
    BY <2>5, TakenIsCarried
  <2>6. CASE PreparePush(h) \/ LookUpProject(h) \/ AskFcm(h) \/ PrepareMail(h) \/ RejectChannel(h)
    <3>1. UNCHANGED <<rows, history>> /\ g.pc \notin {"idle", "sent"}
      BY <2>6 DEF PreparePush, LookUpProject, AskFcm, PrepareMail, RejectChannel
    <3>2. g.pc # "failed"
      BY <2>6 DEF PreparePush, LookUpProject, AskFcm, PrepareMail, RejectChannel
    <3>. QED BY <2>1, <2>0, <3>1, <3>2
  <2>7. CASE FcmAnswers(h)
    <3>1. PICK some \in BOOLEAN, invalid \in BOOLEAN :
            /\ IF some THEN Accept(g.msg.id) ELSE UNCHANGED accepted
            /\ handler' = Ended(h, Verdict(g.tokens, some, invalid))
      BY <2>7 DEF FcmAnswers
    <3>2. UNCHANGED <<rows, doubtful, lost>> /\ g.pc = "fcm" /\ (some => Verdict(g.tokens, some, invalid) = "sent")
      BY <2>7 DEF FcmAnswers, Verdict
    <3>3. PICK v : handler' = [handler EXCEPT ![h] = v] /\ v.pc = Verdict(g.tokens, some, invalid) /\ v.msg = g.msg
      <4>1. PICK verdict \in {"sent", "failed"} : Verdict(g.tokens, some, invalid) = verdict
        BY VerdictIs
      <4>. QED BY <2>3, <3>1, <3>2, <4>1
    <3>4. v.pc # "idle"
      BY <3>3, VerdictIs
    <3>. QED BY <3>1, <3>2, <3>3, <3>4, GoesOn
  <2>8. CASE FcmAnswerLost(h)
    <3>1. /\ UNCHANGED <<rows, lost>> /\ g.pc = "fcm" /\ Accept(g.msg.id)
          /\ doubtful' = doubtful \cup {g.msg.id} /\ handler' = Ended(h, Verdict(g.tokens, FALSE, FALSE))
      BY <2>8 DEF FcmAnswerLost
    <3>2. PICK v : handler' = [handler EXCEPT ![h] = v] /\ v.pc = Verdict(g.tokens, FALSE, FALSE) /\ v.msg = g.msg
      <4>1. PICK verdict \in {"sent", "failed"} : Verdict(g.tokens, FALSE, FALSE) = verdict
        BY VerdictIs
      <4>. QED BY <2>3, <3>1, <4>1
    <3>3. v.pc # "idle"
      BY <3>2, VerdictIs
    <3>. QED BY <3>1, <3>2, <3>3, GoesOn
  <2>9. CASE SendMail(h) \/ MailAnswerLost(h)
    <3>1. g.pc = "mail" /\ UNCHANGED <<rows, lost>>
      BY <2>9 DEF SendMail, MailAnswerLost
    <3>2. CASE Accept(g.msg.id) /\ handler' = Ended(h, "sent") /\ UNCHANGED doubtful
      <4>1. PICK v : handler' = [handler EXCEPT ![h] = v] /\ v.pc = "sent" /\ v.msg = g.msg
        BY <2>3, <3>1, <3>2
      <4>. QED BY <3>1, <3>2, <4>1, GoesOn
    <3>3. CASE handler' = RetryMail(h)
      <4>1. PICK v : handler' = [handler EXCEPT ![h] = v] /\ v.pc # "idle" /\ v.msg = g.msg
        BY <2>0, <3>1
      <4>2. \/ UNCHANGED <<accepted, doubtful>>
            \/ Accept(g.msg.id) /\ doubtful' = doubtful \cup {g.msg.id}
            \/ Accept(g.msg.id) /\ UNCHANGED doubtful /\ handler' = Ended(h, "sent")
        BY <2>9 DEF SendMail, MailAnswerLost
      <4>3. CASE handler' = Ended(h, "sent") /\ Accept(g.msg.id) /\ UNCHANGED doubtful
        BY <3>2, <4>3
      <4>. QED BY <3>1, <4>1, <4>2, <4>3, GoesOn
    <3>. QED BY <2>9, <3>2, <3>3 DEF SendMail, MailAnswerLost
  <2>10. CASE UpdateNotificationStatus(h)
    BY <2>10, StatusIsCarried
  <2>. QED BY <1>6, <2>5, <2>6, <2>7, <2>8, <2>9, <2>10 DEF HandlerStep
<1>7. CASE Restart
  <2>1. UNCHANGED <<rows, accepted, doubtful>> /\ \A h \in Handlers : handler'[h].pc = "idle"
    BY <1>7, NoHandlerTyped DEF Restart
  <2>2. \A n \in Ids \ doubtful : CarriedOnce(n)'
    BY <2>1 DEF DeliveryInv, CarriedOnce, Handling, rows
  <2>. QED BY <2>1, <2>2 DEF DeliveryInv, rows
<1>8. CASE UNCHANGED vars
  BY <1>1, <1>8 DEF vars, history
<1>. QED BY <1>2, <1>3, <1>4, <1>5, <1>6, <1>7, <1>8 DEF Next

\* It holds of every reachable state.
LEMMA DeliveryInvariant == Spec => [](TypeOK /\ SourcesExist /\ DeliveryInv)
<1>1. Init => DeliveryInv
  <2> SUFFICES ASSUME Init PROVE DeliveryInv
    OBVIOUS
  <2>1. /\ row = <<>> /\ queue = {} /\ accepted = [n \in Ids |-> 0]
        /\ \A h \in Handlers : handler[h].pc = "idle"
    BY NoHandlerTyped DEF Init
  <2>. QED BY <2>1 DEF DeliveryInv, CarriedOnce, Handling, Ids
<1>. QED BY <1>1, TypeInit, TypeStep, DeliveryStep, PTL DEF Spec

\* The state is well typed; a notification recorded as failed has reached nobody, and
\* nobody is notified twice, unless the message was doubled or an answer got lost,
\* however many requests and handlers overlap, calls fail and processes restart.
THEOREM FailedIsNotReached == Spec => []FailedReachedNobody
<1>1. TypeOK /\ DeliveryInv => FailedReachedNobody
  <2> SUFFICES ASSUME TypeOK, DeliveryInv, NEW n \in DOMAIN row, n \notin doubtful
               PROVE  accepted[n] <= 1 /\ (row[n] = "FAILED" => accepted[n] = 0)
    BY DEF FailedReachedNobody
  <2>1. n \in Ids /\ n <= Len(row)
    <3>1. DOMAIN row = 1..Len(row) /\ Len(row) <= MaxRows /\ Len(row) \in Nat /\ MaxRows \in Nat
      BY DeliveriesAssumption DEF TypeOK
    <3>. QED BY <3>1 DEF Ids
  <2>. QED BY <2>1 DEF DeliveryInv, CarriedOnce
<1>. QED BY <1>1, DeliveryInvariant, PTL

-----------------------------------------------------------------------------
(* What is pending                                                         *)

UnderWay(n) ==
    \/ \E m \in queue : m.id = n
    \/ \E h \in Handlers : Handling(h, n)

\* A pending row that is there stays under way in a step that neither loses it nor
\* takes its message from the queue or from a handler.
LEMMA StaysUnderWay ==
    ASSUME NEW n, UnderWay(n), queue \subseteq queue',
           \A h \in Handlers : Handling(h, n) => Handling(h, n)'
    PROVE  UnderWay(n)'
BY DEF UnderWay

\* What has just been sent is queued, or known to be lost.
LEMMA SendIsUnderWay ==
    ASSUME TypeOK, PendingIsUnderWay, NEW c, NEW city, NEW spent, Send(c, city, spent)
    PROVE  PendingIsUnderWay'
<1> DEFINE n == Len(row) + 1
           m == [id |-> n, channel |-> c, city |-> city]
<1>1. row \in Seq({"PENDING", "SENT", "FAILED"}) /\ Len(row) \in Nat
  BY DEF TypeOK
<1>2. row' = Append(row, "PENDING") /\ UNCHANGED handler
  BY DEF Send
<1>3. /\ DOMAIN row' = 1..n /\ DOMAIN row = 1..Len(row)
      /\ \A i \in 1..Len(row) : row'[i] = row[i]
  BY <1>1, <1>2
<1>4. (queue' = queue \cup {m} /\ lost' = lost) \/ (queue' = queue /\ lost' = lost \cup {n})
  BY DEF Send
<1> SUFFICES ASSUME NEW i \in DOMAIN row', row'[i] = "PENDING", i \notin lost'
             PROVE  UnderWay(i)'
  BY DEF PendingIsUnderWay, UnderWay, Handling
<1>5. CASE i = n
  <2>1. m \in queue' /\ m.id = i
    BY <1>4, <1>5
  <2>. QED BY <2>1 DEF UnderWay
<1>6. CASE i \in DOMAIN row
  <2>1. UnderWay(i)
    BY <1>3, <1>4, <1>6 DEF PendingIsUnderWay, UnderWay, Handling
  <2>2. queue \subseteq queue'
    BY <1>4
  <2>. QED BY <1>2, <2>1, <2>2 DEF UnderWay, Handling
<1>7. i = n \/ i \in DOMAIN row
  BY <1>1, <1>3
<1>. QED BY <1>5, <1>6, <1>7

\* Every step keeps pending notifications under way.
LEMMA PendingStep == TypeOK /\ SourcesExist /\ PendingIsUnderWay /\ [Next]_vars => PendingIsUnderWay'
<1> SUFFICES ASSUME TypeOK, SourcesExist, PendingIsUnderWay, [Next]_vars PROVE PendingIsUnderWay'
  OBVIOUS
<1>0. /\ handler \in [Handlers -> HandlerType]
      /\ row \in Seq({"PENDING", "SENT", "FAILED"}) /\ Len(row) \in Nat
      /\ \A n \in DOMAIN row : row[n] = "PENDING" /\ n \notin lost => UnderWay(n)
  BY DEF TypeOK, PendingIsUnderWay, UnderWay, Handling
<1>1. ASSUME UNCHANGED row, lost \subseteq lost', queue \subseteq queue', UNCHANGED handler
      PROVE  PendingIsUnderWay'
  BY <1>0, <1>1 DEF PendingIsUnderWay, UnderWay, Handling
<1>2. ASSUME NEW u \in Users, Join(u) \/ Leave(u) PROVE PendingIsUnderWay'
  BY <1>1, <1>2 DEF Join, Leave, history, rows
<1>3. ASSUME NEW c, NEW city, Notify(c, city) PROVE PendingIsUnderWay'
  BY <1>3, SendIsUnderWay DEF Notify
<1>4. ASSUME NEW c, NEW city, PublishWithoutRow(c, city) PROVE PendingIsUnderWay'
  BY <1>1, <1>4 DEF PublishWithoutRow, history
<1>5. ASSUME NEW r \in Requests, RequestStep(r) PROVE PendingIsUnderWay'
  <2>1. ASSUME NEW u \in Users, SendToUser(r, u) PROVE PendingIsUnderWay'
    BY <2>1, SendIsUnderWay DEF SendToUser
  <2>2. CASE \A u \in Users : ~SendToUser(r, u)
    <3>1. UNCHANGED <<rows, handler, history>>
      BY <1>5, <2>2 DEF RequestStep, StartBulk, FetchPage, FetchFails, EndPage, SendToUserFails,
              StartUpdate, StartProject, CreateFirebaseProject, CreateFails, UpsertCityFirebaseProject,
              UpdateFirebaseProject, DeleteFirebaseProject, Write, WriteFails, ClearAfterwards,
              ReadProjects, CacheProjects
    <3>. QED BY <1>1, <3>1 DEF history, rows
  <2>. QED BY <2>1, <2>2
<1>6. ASSUME NEW h \in Handlers, NEW m \in queue, HandleNotificationSend(h, m) PROVE PendingIsUnderWay'
  <2>0. handler[h].pc = "idle" /\ UNCHANGED lost /\ (queue' = queue \/ queue' = queue \ {m})
    BY <1>6 DEF HandleNotificationSend, history
  <2>1. CASE m.id = 0 /\ UNCHANGED <<row, handler>>
    <3>1. \A n \in DOMAIN row : n # 0
      BY <1>0
    <3>. QED BY <1>0, <2>0, <2>1, <3>1 DEF PendingIsUnderWay, UnderWay, Handling
  <2>2. CASE m.id = 0 /\ row' = Append(row, "PENDING") /\ Len(row) < MaxRows
             /\ handler' = [handler EXCEPT ![h] = With([m EXCEPT !.id = Len(row) + 1], "route")]
    <3> DEFINE n == Len(row) + 1
               w == [m EXCEPT !.id = n]
               v == With(w, "route")
    <3>1. n \in 0..MaxRows
      BY <1>0, <2>2, DeliveriesAssumption
    <3>2. w \in MessageType /\ w.id = n
      BY <3>1 DEF TypeOK, MessageType
    <3>3. v.pc = "route" /\ v.msg.id = n
      <4> HIDE DEF w, n
      <4>. QED BY <3>2, NoHandlerTyped
    <3>4. handler'[h] = v /\ \A k \in Handlers \ {h} : handler'[k] = handler[k]
      BY <1>0, <2>2
    <3> HIDE DEF v, w
    <3>5. DOMAIN row' = 1..n /\ DOMAIN row = 1..Len(row) /\ \A i \in 1..Len(row) : row'[i] = row[i] /\ i # 0
      BY <1>0, <2>2
    <3>6. \A i \in 1..n : i = n \/ i \in 1..Len(row)
      BY <1>0
    <3>7. ASSUME NEW i, i = n PROVE UnderWay(i)'
      BY <3>3, <3>4, <3>7 DEF UnderWay, Handling
    <3>8. ASSUME NEW i \in 1..Len(row), row[i] = "PENDING", i \notin lost PROVE UnderWay(i)'
      BY <1>0, <2>0, <2>2, <3>4, <3>5, <3>8 DEF UnderWay, Handling
    <3>9. ASSUME NEW i \in DOMAIN row', row'[i] = "PENDING", i \notin lost' PROVE UnderWay(i)'
      <4>1. i = n \/ i \in 1..Len(row)
        BY <3>5, <3>6, <3>9
      <4>2. i \in 1..Len(row) => row[i] = "PENDING" /\ i \notin lost
        BY <2>0, <3>5, <3>9
      <4> HIDE DEF n
      <4>. QED BY <3>7, <3>8, <4>1, <4>2
    <3>. QED BY <3>9 DEF PendingIsUnderWay, UnderWay, Handling
  <2>3. CASE m.id # 0
    <3> DEFINE v == With(m, "route")
    <3>1. handler' = [handler EXCEPT ![h] = v] /\ row' = row
      BY <2>3, <1>6 DEF HandleNotificationSend, With
    <3>2. v.pc = "route" /\ v.msg = m
      <4>1. m \in MessageType
        BY DEF TypeOK
      <4>. QED BY <4>1, NoHandlerTyped
    <3>3. handler'[h] = v /\ \A k \in Handlers \ {h} : handler'[k] = handler[k]
      BY <1>0, <3>1
    <3> HIDE DEF v
    <3>4. ASSUME NEW i \in DOMAIN row, row[i] = "PENDING", i \notin lost PROVE UnderWay(i)'
      <4>1. CASE i = m.id
        BY <3>2, <3>3, <4>1 DEF UnderWay, Handling
      <4>2. CASE i # m.id
        BY <1>0, <2>0, <3>3, <3>4, <4>2 DEF UnderWay, Handling
      <4>. QED BY <4>1, <4>2
    <3>. QED BY <2>0, <3>1, <3>4 DEF PendingIsUnderWay, UnderWay, Handling
  <2>. QED BY <1>6, <2>1, <2>2, <2>3 DEF HandleNotificationSend, With
<1>7. ASSUME NEW h \in Handlers, UpdateNotificationStatus(h) PROVE PendingIsUnderWay'
  <2> DEFINE n == handler[h].msg.id
  <2>1. /\ handler' = [handler EXCEPT ![h] = NoHandler] /\ UNCHANGED queue
        /\ \/ UNCHANGED lost /\ row' = [row EXCEPT ![n] = IF handler[h].pc = "sent" THEN "SENT" ELSE "FAILED"]
           \/ UNCHANGED row /\ lost' = lost \cup {n}
    BY <1>7 DEF UpdateNotificationStatus
  <2>2. ASSUME NEW i \in DOMAIN row', row'[i] = "PENDING", i \notin lost' PROVE UnderWay(i)'
    <3>1. i \in DOMAIN row /\ i # n /\ row[i] = "PENDING" /\ i \notin lost
      BY <1>0, <2>1, <2>2
    <3>. QED BY <1>0, <2>1, <3>1 DEF UnderWay, Handling
  <2>. QED BY <2>2 DEF PendingIsUnderWay, UnderWay, Handling
<1>8. ASSUME NEW h \in Handlers, HandlerStep(h), \A m \in queue : ~HandleNotificationSend(h, m),
             ~UpdateNotificationStatus(h)
      PROVE  PendingIsUnderWay'
  <2>1. UNCHANGED <<rows, lost>> /\ handler[h].pc \notin {"idle", "sent", "failed"}
    BY <1>8 DEF HandlerStep, PreparePush, LookUpProject, AskFcm, FcmAnswers, FcmAnswerLost,
                PrepareMail, SendMail, MailAnswerLost, RejectChannel, history
  <2>2. \/ UNCHANGED handler
        \/ \E v : /\ handler' = [handler EXCEPT ![h] = v]
                 /\ v.pc # "idle" /\ v.msg = handler[h].msg
    <3>1. RowsGrow
      BY RowsStayTyped
    <3>. QED BY <1>8, <2>1, <3>1, HandlerMoves DEF Goes, Turns
  <2>3. \A k \in Handlers : \A n : Handling(k, n) => Handling(k, n)'
    BY <1>0, <2>2 DEF Handling
  <2>. QED BY <1>0, <2>1, <2>3 DEF PendingIsUnderWay, UnderWay, Handling, rows
<1>9. CASE Restart
  <2>1. /\ UNCHANGED <<row, queue>>
        /\ lost' = lost \cup {handler[h].msg.id : h \in {k \in Handlers : handler[k].pc # "idle"}}
    BY <1>9 DEF Restart, rows
  <2>2. \A n : n \notin lost' => n \notin lost /\ \A h \in Handlers : ~Handling(h, n)
    BY <2>1 DEF Handling
  <2>. QED BY <1>0, <2>1, <2>2 DEF PendingIsUnderWay, UnderWay
<1>10. CASE UNCHANGED vars
  BY <1>1, <1>10 DEF vars, history, rows
<1>. QED BY <1>2, <1>3, <1>4, <1>5, <1>6, <1>7, <1>8, <1>9, <1>10 DEF Next, HandlerStep

\* A notification is pending only as long as its message is queued or handled: for
\* any number of handlers, whatever goes wrong with a message ends in a status.
THEOREM PendingEnds == Spec => []PendingIsUnderWay
<1>1. Init => PendingIsUnderWay
  BY DEF Init, PendingIsUnderWay
<1>. QED BY <1>1, DeliveryInvariant, PendingStep, PTL DEF Spec

-----------------------------------------------------------------------------
(* Firebase apps                                                           *)

\* No request starts to replace the credentials of p, or forgets to clear its app.
Calm(p) ==
    /\ Replacing(p)' => Replacing(p)
    /\ \A r \in Requests : Clearing(r, p) => Clearing(r, p)'

\* A request that neither clears the cache nor comes to replace credentials leaves
\* every project calm.
LEMMA CalmRequest ==
    ASSUME TypeOK, NEW r \in Requests, NEW v, request' = [request EXCEPT ![r] = v],
           request[r].pc # "clear",
           v.pc = "write" /\ v.op = "credentials" =>
              request[r].pc = "write" /\ request[r].op = "credentials" /\ v.project = request[r].project,
           NEW p \in Projects
    PROVE  Calm(p)
<1>1. request'[r] = v /\ \A s \in Requests \ {r} : request'[s] = request[s]
  BY DEF TypeOK
<1>. QED BY <1>1 DEF Calm, Replacing, Clearing

\* A project stays faithful when its credentials do not change and its app is kept,
\* cleared or made with them.
LEMMA StaysFaithful ==
    ASSUME TypeOK, SourcesExist, [Next]_vars, NEW p \in Projects, Faithful(p),
           project'[p].cred = project[p].cred,
           \/ cache'[p] = cache[p] /\ Calm(p)
           \/ cache'[p] = project[p].cred /\ ~Replacing(p)'
           \/ cache'[p] = None
    PROVE  Faithful(p)'
<1>1. /\ cache'[p] \in {None, project'[p].cred} \/ \E r \in Requests : Clearing(r, p)'
      /\ Replacing(p)' => cache'[p] = None
  BY DEF Faithful, Calm
<1>2. ASSUME NEW h \in Handlers, handler'[h].pc = "app", handler'[h].project = p
      PROVE  handler'[h].cred = project'[p].cred
  <2>1. Turns(handler[h], handler'[h]) \/ handler'[h] = handler[h]
    BY HandlersMove
  <2>. QED BY <1>2, <2>1 DEF Turns, Faithful
<1>3. ASSUME NEW r \in Requests, request'[r].read[p] # None
      PROVE  request'[r].read[p] = project'[p].cred
  <2>1. \/ Becomes(request[r], request'[r])
        \/ request'[r].read = request[r].read
    BY RequestsMove
  <2>. QED BY <1>3, <2>1 DEF Becomes, Faithful
<1>. QED BY <1>1, <1>2, <1>3 DEF Faithful

\* A project that nobody reads is faithful when its app is cleared.
LEMMA FaithfulAnew ==
    ASSUME NEW p \in Projects, ~Reading(p), cache'[p] = None, UNCHANGED handler,
           \A r \in Requests : request'[r].read[p] \in {None, request[r].read[p]}
    PROVE  Faithful(p)'
BY DEF Faithful, Reading

\* The app of q is cleared.
LEMMA ClearedFaithful ==
    ASSUME TypeOK, SourcesExist, AppInv, [Next]_vars, NEW q \in Projects, ClearCache(q),
           UNCHANGED <<project, handler>>, \A p \in Projects \ {q} : Calm(p),
           \A r \in Requests, p \in Projects : request'[r].read[p] \in {None, request[r].read[p]}
    PROVE  \A p \in Projects \ raced' : Faithful(p)'
<1>1. cache' = [cache EXCEPT ![q] = None] /\ raced' = IF Reading(q) THEN raced ELSE raced \ {q}
  BY DEF ClearCache
<1>2. cache'[q] = None /\ \A p \in Projects \ {q} : cache'[p] = cache[p]
  BY <1>1 DEF TypeOK
<1> SUFFICES ASSUME NEW p \in Projects \ raced' PROVE Faithful(p)'
  OBVIOUS
<1>3. CASE p \in raced
  BY <1>1, <1>2, <1>3, FaithfulAnew
<1>4. CASE p \notin raced
  <2>1. Faithful(p)
    BY <1>4 DEF AppInv
  <2>. QED BY <1>2, <2>1, StaysFaithful
<1>. QED BY <1>3, <1>4

\* Apps are made of what was read.
LEMMA FilledFaithful ==
    ASSUME TypeOK, SourcesExist, AppInv, [Next]_vars, NEW read \in [Projects -> Creds \cup {None}], Fill(read),
           UNCHANGED project, \A p \in Projects : Calm(p),
           \A p \in Projects \ raced : read[p] \in {None, project[p].cred}
    PROVE  \A p \in Projects \ raced' : Faithful(p)'
<1> SUFFICES ASSUME NEW p \in Projects \ raced' PROVE Faithful(p)'
  OBVIOUS
<1>1. /\ cache'[p] = IF cache[p] = None THEN read[p] ELSE cache[p]
      /\ p \notin raced /\ ~(cache[p] = None /\ read[p] # None /\ Replacing(p))
  BY DEF Fill, Cached
<1>2. Faithful(p) /\ Calm(p)
  BY <1>1 DEF AppInv
<1>3. CASE cache'[p] = cache[p]
  BY <1>2, <1>3, StaysFaithful
<1>4. CASE cache[p] = None /\ read[p] # None
  <2>1. cache'[p] = project[p].cred /\ ~Replacing(p)'
    BY <1>1, <1>2, <1>4 DEF Calm
  <2>. QED BY <1>2, <2>1, StaysFaithful
<1>. QED BY <1>1, <1>3, <1>4

\* The row of q is written: the request knows that there is no app of the old
\* credentials, or is going to clear it.
LEMMA WrittenFaithful ==
    ASSUME TypeOK, SourcesExist, AppInv, [Next]_vars, NEW r \in Requests, NEW q \in Projects, NEW new,
           NEW next \in {"load", "clear"}, Write(r, q, new, next),
           \/ new.cred = project[q].cred
           \/ ~project[q].exists
           \/ request[r].op = "credentials" /\ request[r].project = q
           \/ next = "clear" /\ request[r].project = q
    PROVE  \A p \in Projects \ raced' : Faithful(p)'
<1>1. /\ request[r].pc = "write" /\ project' = [project EXCEPT ![q] = new] /\ UNCHANGED <<cache, handler>>
      /\ raced' = IF new.cred # project[q].cred /\ Reading(q) THEN raced \cup {q} ELSE raced
      /\ request' = [request EXCEPT ![r].pc = next, ![r].cred = None]
  BY DEF Write
<1>2. request \in [Requests -> RequestType]
  BY DEF TypeOK
<1> DEFINE v == [request[r] EXCEPT !.pc = next, !.cred = None]
<1>3. request' = [request EXCEPT ![r] = v]
  BY <1>1, <1>2
<1>4. v.pc = next /\ v.project = request[r].project /\ v.read = request[r].read
  BY <1>2 DEF RequestType
<1> HIDE DEF v
<1>5. \A p \in Projects : Calm(p)
  BY <1>1, <1>3, <1>4, CalmRequest
<1> SUFFICES ASSUME NEW p \in Projects \ raced' PROVE Faithful(p)'
  OBVIOUS
<1>6. p \notin raced /\ Faithful(p)
  BY <1>1 DEF AppInv
<1>7. CASE p # q \/ new.cred = project[q].cred
  <2>1. project'[p].cred = project[p].cred
    BY <1>1, <1>7 DEF TypeOK
  <2>. QED BY <1>1, <1>5, <1>6, <2>1, StaysFaithful
<1>8. CASE p = q /\ new.cred # project[q].cred
  <2>1. ~Reading(p)
    BY <1>1, <1>8
  <2>2. request'[r] = v /\ \A s \in Requests \ {r} : request'[s] = request[s]
    BY <1>2, <1>3
  <2>3. \A s \in Requests : request'[s].read = request[s].read
    BY <1>4, <2>2
  <2>4. cache'[p] = None \/ Clearing(r, p)'
    <3>1. ~project[q].exists => cache[q] = None
      BY DEF TypeOK
    <3>2. request[r].op = "credentials" /\ request[r].project = q => Replacing(q)
      BY <1>1 DEF Replacing
    <3>. QED BY <1>1, <1>4, <1>6, <1>8, <2>2, <3>1, <3>2 DEF Faithful, Clearing
  <2>5. Replacing(p)' => cache'[p] = None
    BY <1>1, <1>5, <1>6 DEF Calm, Faithful
  <2>. QED BY <1>1, <2>1, <2>3, <2>4, <2>5 DEF Faithful, Reading
<1>. QED BY <1>7, <1>8

\* An upsert is about the project of a city in every step.
LEMMA UpsertsStay ==
    ASSUME TypeOK, SourcesExist, AppInv, [Next]_vars, NEW r \in Requests, request'[r].op = "upsert"
    PROVE  request'[r].project = "city"
<1>1. \/ Becomes(request[r], request'[r])
      \/ request'[r].op = request[r].op /\ request'[r].project = request[r].project
  BY RequestsMove
<1>. QED BY <1>1 DEF Becomes, AppInv

\* A step of a request that neither touches a project nor an app.
LEMMA CalmSteps ==
    ASSUME TypeOK, NEW r \in Requests, RequestStep(r), NEW p \in Projects,
           ~ClearAfterwards(r), \A q \in Projects : ~StartUpdate(r, q)
    PROVE  Calm(p)
<1>0. request \in [Requests -> RequestType] /\ request[r] \in RequestType
  BY DEF TypeOK
<1> DEFINE w(q, op, c) == [NoRequest EXCEPT !.op = op, !.pc = "write", !.project = q, !.cred = c]
<1>1. ASSUME NEW op \in {"city", "all"}, StartBulk(r, op) PROVE Calm(p)
  <2>1. PICK c \in Channels : request' = [request EXCEPT ![r] = [NoRequest EXCEPT !.op = op, !.pc = "fetch", !.channel = c]]
    BY <1>1 DEF StartBulk
  <2>2. [NoRequest EXCEPT !.op = op, !.pc = "fetch", !.channel = c].pc = "fetch"
    BY NoRequestTyped DEF RequestType
  <2>3. request[r].pc # "clear"
    BY <1>1 DEF StartBulk
  <2>. QED BY <2>1, <2>2, <2>3, CalmRequest
<1>2. CASE FetchPage(r)
  <2>1. request[r].pc = "fetch"
    BY <1>2 DEF FetchPage
  <2>2. PICK s \in Listings(request[r].op) : request' = [request EXCEPT ![r] =
          Fetched(request[r], Page(s, request[r].page),
                  Page(s, request[r].page) = {} \/ LastPage(s, request[r].page))]
    BY <1>2, Zenon DEF FetchPage
  <2> DEFINE page == Page(s, request[r].page)
             end  == page = {} \/ LastPage(s, request[r].page)
  <2>3. end \in BOOLEAN /\ request' = [request EXCEPT ![r] = Fetched(request[r], page, end)]
    BY <2>2 DEF LastPage
  <2> HIDE DEF page, end
  <2>4. Fetched(request[r], page, end).pc \in {"fetch", "send"}
    BY <1>0, <2>3, FetchedTyped
  <2>. QED BY <2>1, <2>3, <2>4, CalmRequest
<1>3. CASE FetchFails(r) \/ CreateFails(r) \/ WriteFails(r) \/ CacheProjects(r)
  <2>1. request' = [request EXCEPT ![r] = NoRequest] /\ request[r].pc # "clear"
    BY <1>3 DEF FetchFails, CreateFails, WriteFails, CacheProjects
  <2>2. NoRequest.pc = "idle"
    BY DEF NoRequest
  <2>. QED BY <2>1, <2>2, CalmRequest
<1>4. CASE EndPage(r)
  <2> DEFINE pc == IF request[r].last THEN "done" ELSE "fetch"
             v == [request[r] EXCEPT !.pc = pc]
  <2>1. request' = [request EXCEPT ![r] = v] /\ pc \in {"done", "fetch"} /\ request[r].pc = "send"
    BY <1>4, <1>0 DEF EndPage
  <2> HIDE DEF pc
  <2>2. v.pc = pc
    BY <1>0 DEF RequestType
  <2>. QED BY <2>1, <2>2, CalmRequest
<1>5. ASSUME NEW u \in Users, SendToUser(r, u) \/ SendToUserFails(r, u) PROVE Calm(p)
  <2>1. /\ request[r].todo[u] > 0 /\ request[r].pc = "send"
        /\ \/ request' = [request EXCEPT ![r] = Served(request[r], u)]
           \/ request' = [request EXCEPT ![r] = NotServed(request[r], u)]
    BY <1>5 DEF SendToUser, SendToUserFails
  <2>2. Served(request[r], u).pc = "send" /\ NotServed(request[r], u).pc = "send"
    BY <1>0, <2>1, ServedTyped
  <2>. QED BY <2>1, <2>2, CalmRequest
<1>6. ASSUME NEW q \in Projects, NEW op \in {"create", "upsert", "delete"}, StartProject(r, op, q) PROVE Calm(p)
  <2>1. PICK c \in Creds : request' = [request EXCEPT ![r] =
                               [NoRequest EXCEPT !.op = op, !.pc = "write", !.project = q, !.cred = c]]
    BY <1>6 DEF StartProject, Start
  <2>2. [NoRequest EXCEPT !.op = op, !.pc = "write", !.project = q, !.cred = c].op = op
    BY NoRequestTyped DEF RequestType
  <2>3. request[r].pc # "clear"
    BY <1>6 DEF StartProject, Start
  <2>. QED BY <2>1, <2>2, <2>3, CalmRequest
<1>7. CASE \/ CreateFirebaseProject(r) \/ UpsertCityFirebaseProject(r)
           \/ UpdateFirebaseProject(r) \/ DeleteFirebaseProject(r)
  <2>1. PICK next \in {"load", "clear"} :
          request' = [request EXCEPT ![r].pc = next, ![r].cred = None] /\ request[r].pc = "write"
    BY <1>7 DEF CreateFirebaseProject, UpsertCityFirebaseProject, UpdateFirebaseProject,
                DeleteFirebaseProject, Write
  <2> DEFINE v == [request[r] EXCEPT !.pc = next, !.cred = None]
  <2>2. request' = [request EXCEPT ![r] = v]
    BY <1>0, <2>1
  <2>3. v.pc = next
    BY <1>0 DEF RequestType
  <2>. QED BY <2>1, <2>2, <2>3, CalmRequest
<1>8. CASE ReadProjects(r)
  <2> DEFINE read == [q \in Projects |-> IF project[q].active THEN project[q].cred ELSE None]
             v == [NoRequest EXCEPT !.pc = "fill", !.read = read]
  <2>1. v.pc = "fill"
    BY NoRequestTyped DEF RequestType
  <2>2. request' = [request EXCEPT ![r] = v] /\ request[r].pc = "load"
    BY <1>8 DEF ReadProjects
  <2>. QED BY <2>1, <2>2, CalmRequest
<1>. QED BY <1>1, <1>2, <1>3, <1>4, <1>5, <1>6, <1>7, <1>8 DEF RequestStep, Projects

\* Every step keeps the cached apps faithful.
LEMMA AppStep == TypeOK /\ SourcesExist /\ AppInv /\ [Next]_vars => AppInv'
<1> SUFFICES ASSUME TypeOK, SourcesExist, AppInv, [Next]_vars PROVE AppInv'
  OBVIOUS
<1> DEFINE Goal == \A p \in Projects \ raced' : Faithful(p)'
<1>0. request \in [Requests -> RequestType] /\ handler \in [Handlers -> HandlerType]
  BY DEF TypeOK
<1>1. ASSUME UNCHANGED apps, \A p \in Projects : Calm(p) PROVE Goal
  BY <1>1, StaysFaithful DEF AppInv, apps
<1>2. ASSUME UNCHANGED request PROVE \A p \in Projects : Calm(p)
  BY <1>2 DEF Calm, Replacing, Clearing
<1>3. ASSUME NEW u \in Users, Join(u) \/ Leave(u) PROVE Goal
  <2>1. ASSUME NEW r \in Requests
        PROVE  \A f \in {"op", "pc", "project"} : request'[r][f] = request[r][f]
    <3>1. \/ request'[r] = request[r]
          \/ request'[r] = [request[r] EXCEPT !.joined = @ \cup {u}]
          \/ request'[r] = [request[r] EXCEPT !.left = @ \cup {u}]
      BY <1>3 DEF Join, Leave
    <3>. QED BY <1>0, <3>1 DEF RequestType
  <2>2. \A r \in Requests :
          request'[r].op = request[r].op /\ request'[r].pc = request[r].pc /\ request'[r].project = request[r].project
    BY <2>1
  <2>3. UNCHANGED apps /\ \A p \in Projects : Calm(p)
    BY <1>3, <2>2 DEF Join, Leave, Calm, Replacing, Clearing
  <2>. QED BY <1>1, <2>3
<1>4. ASSUME NEW c, NEW city, Notify(c, city) \/ PublishWithoutRow(c, city) PROVE Goal
  <2>1. UNCHANGED <<apps, request>>
    BY <1>4 DEF Notify, PublishWithoutRow, Send
  <2>. QED BY <1>1, <1>2, <2>1
<1>5. ASSUME NEW r \in Requests, RequestStep(r) PROVE Goal
  <2>0. request[r].project \in Projects /\ request[r].read \in [Projects -> Creds \cup {None}]
    BY <1>0 DEF RequestType
  <2>1. ASSUME ~ClearAfterwards(r), \A q \in Projects : ~StartUpdate(r, q) PROVE \A p \in Projects : Calm(p)
    BY <1>5, <2>1, CalmSteps
  <2>2. ASSUME NEW q \in Projects, StartUpdate(r, q) PROVE Goal
    <3>1. PICK op \in {"update", "credentials"}, c \in Creds :
            /\ request' = [request EXCEPT ![r] = [NoRequest EXCEPT !.op = op, !.pc = "write", !.project = q, !.cred = c]]
            /\ request[r].pc \in {"idle", "done"} /\ UNCHANGED <<project, handler>>
            /\ \/ op = "credentials" /\ ClearCache(q)
               \/ op = "update" /\ UNCHANGED <<cache, raced>>
      BY <2>2 DEF StartUpdate, Start
    <3> DEFINE v == [NoRequest EXCEPT !.op = op, !.pc = "write", !.project = q, !.cred = c]
    <3>2. v.op = op /\ v.project = q /\ v.read = NoApps
      BY NoRequestTyped DEF NoRequest, RequestType
    <3>3. request' = [request EXCEPT ![r] = v]
      BY <3>1
    <3> HIDE DEF v
    <3>4. request'[r] = v /\ \A s \in Requests \ {r} : request'[s] = request[s]
      BY <1>0, <3>3
    <3>5. CASE op = "update"
      <4>1. \A p \in Projects : Calm(p)
        BY <3>1, <3>2, <3>3, <3>5, CalmRequest
      <4>. QED BY <1>1, <3>1, <3>5, <4>1 DEF apps
    <3>6. CASE op = "credentials"
      <4>1. \A p \in Projects \ {q} : Calm(p)
        BY <3>1, <3>2, <3>4 DEF Calm, Replacing, Clearing
      <4>2. \A s \in Requests, p \in Projects : request'[s].read[p] \in {None, request[s].read[p]}
        BY <3>2, <3>4 DEF NoApps
      <4>. QED BY <3>1, <3>6, <4>1, <4>2, ClearedFaithful
    <3>. QED BY <3>5, <3>6
  <2>3. CASE ClearAfterwards(r)
    <3> DEFINE q == request[r].project
               v == IF request[r].op = "delete" THEN NoRequest ELSE [request[r] EXCEPT !.pc = "load"]
    <3>1. ClearCache(q) /\ request' = [request EXCEPT ![r] = v] /\ UNCHANGED <<project, handler>>
      BY <2>3 DEF ClearAfterwards
    <3>2. v.pc \in {"idle", "load"} /\ v.read \in {NoApps, request[r].read}
      BY <1>0 DEF NoRequest, RequestType
    <3> HIDE DEF v
    <3>3. request'[r] = v /\ \A s \in Requests \ {r} : request'[s] = request[s]
      BY <1>0, <3>1
    <3>4. \A p \in Projects \ {q} : Calm(p)
      BY <3>2, <3>3 DEF Calm, Replacing, Clearing
    <3>5. \A s \in Requests, p \in Projects : request'[s].read[p] \in {None, request[s].read[p]}
      BY <3>2, <3>3 DEF NoApps
    <3>. QED BY <2>0, <3>1, <3>4, <3>5, ClearedFaithful
  <2>4. CASE CacheProjects(r)
    <3>1. Fill(request[r].read) /\ UNCHANGED project /\ request[r].pc = "fill"
      BY <2>4 DEF CacheProjects
    <3>2. \A p \in Projects : Calm(p)
      <4>1. request' = [request EXCEPT ![r] = NoRequest] /\ NoRequest.pc = "idle"
        BY <2>4 DEF CacheProjects, NoRequest
      <4>. QED BY <3>1, <4>1, CalmRequest
    <3>3. \A p \in Projects \ raced : request[r].read[p] \in {None, project[p].cred}
      BY DEF AppInv, Faithful
    <3>. QED BY <2>0, <3>1, <3>2, <3>3, FilledFaithful
  <2>5. CASE CreateFirebaseProject(r)
    <3>1. PICK d \in BOOLEAN : Write(r, request[r].project,
              [exists |-> TRUE, active |-> TRUE, isDefault |-> d, cred |-> request[r].cred], "load")
      BY <2>5 DEF CreateFirebaseProject
    <3>2. ~project[request[r].project].exists
      BY <2>5 DEF CreateFirebaseProject
    <3>. QED BY <2>0, <3>1, <3>2, WrittenFaithful
  <2>6. CASE UpsertCityFirebaseProject(r)
    <3>1. request[r].project = "city" /\ "city" \in Projects
      BY <2>6 DEF AppInv, UpsertCityFirebaseProject, Projects
    <3>2. PICK new : Write(r, "city", new, "clear")
      BY <2>6 DEF UpsertCityFirebaseProject
    <3>. QED BY <3>1, <3>2, WrittenFaithful
  <2>7. CASE UpdateFirebaseProject(r)
    <3> DEFINE q == request[r].project
               cred == IF request[r].op = "credentials" THEN request[r].cred ELSE project[q].cred
    <3>1. PICK a \in BOOLEAN, d \in BOOLEAN :
            Write(r, q, [exists |-> TRUE, active |-> a, isDefault |-> d, cred |-> cred], "load")
      BY <2>7 DEF UpdateFirebaseProject
    <3> DEFINE new == [exists |-> TRUE, active |-> a, isDefault |-> d, cred |-> cred]
    <3>2. new.cred = project[q].cred \/ request[r].op = "credentials"
      OBVIOUS
    <3>3. Write(r, q, new, "load")
      BY <3>1
    <3> HIDE DEF new
    <3>. QED BY <2>0, <3>2, <3>3, WrittenFaithful
  <2>8. CASE DeleteFirebaseProject(r)
    <3> DEFINE q == request[r].project
               new == [project[q] EXCEPT !.active = FALSE]
    <3>1. Write(r, q, new, "clear")
      BY <2>8 DEF DeleteFirebaseProject
    <3> HIDE DEF new
    <3>. QED BY <2>0, <3>1, WrittenFaithful
  <2>9. CASE /\ \A q \in Projects : ~StartUpdate(r, q)
             /\ ~ClearAfterwards(r) /\ ~CacheProjects(r)
             /\ ~CreateFirebaseProject(r) /\ ~UpsertCityFirebaseProject(r)
             /\ ~UpdateFirebaseProject(r) /\ ~DeleteFirebaseProject(r)
    <3>1. UNCHANGED apps
      BY <1>5, <2>9 DEF RequestStep, StartBulk, FetchPage, FetchFails, EndPage, SendToUser, SendToUserFails, Send,
              StartProject, CreateFails, WriteFails, ReadProjects
    <3>. QED BY <1>1, <2>1, <2>9, <3>1
  <2>. QED BY <2>2, <2>3, <2>4, <2>5, <2>6, <2>7, <2>8, <2>9
<1>6. ASSUME NEW h \in Handlers, HandlerStep(h) PROVE Goal
  <2>0. UNCHANGED request
    BY <1>6 DEF HandlerStep, HandleNotificationSend, PreparePush, LookUpProject, AskFcm, FcmAnswers, FcmAnswerLost,
              PrepareMail, SendMail, MailAnswerLost, RejectChannel, UpdateNotificationStatus
  <2>1. CASE AskFcm(h)
    <3> DEFINE read == [p \in Projects |-> IF p = handler[h].project THEN handler[h].cred ELSE None]
    <3>1. handler[h].pc = "app" /\ Fill(read) /\ UNCHANGED project
      BY <2>1 DEF AskFcm
    <3>2. handler[h].cred \in Creds
      BY <3>1 DEF SourcesExist
    <3>3. read \in [Projects -> Creds \cup {None}]
      BY <3>2
    <3>4. \A p \in Projects \ raced : read[p] \in {None, project[p].cred}
      BY <3>1 DEF AppInv, Faithful
    <3>. QED BY <1>2, <2>0, <3>1, <3>3, <3>4, FilledFaithful
  <2>2. CASE ~AskFcm(h)
    <3>1. UNCHANGED apps
      BY <1>6, <2>2 DEF HandlerStep, HandleNotificationSend, PreparePush, LookUpProject, FcmAnswers,
              FcmAnswerLost, PrepareMail, SendMail, MailAnswerLost, RejectChannel, UpdateNotificationStatus
    <3>. QED BY <1>1, <1>2, <2>0, <3>1
  <2>. QED BY <2>1, <2>2
<1>7. ASSUME Restart PROVE Goal
  <2>1. /\ request' = [r \in Requests |-> NoRequest] /\ handler' = [h \in Handlers |-> NoHandler]
        /\ cache' = [p \in Projects |-> IF project[p].active THEN project[p].cred ELSE None]
        /\ UNCHANGED project
    BY <1>7 DEF Restart
  <2>2. NoRequest.pc = "idle" /\ NoRequest.read = NoApps /\ NoHandler.pc = "idle"
    BY DEF NoRequest, NoHandler
  <2>3. ASSUME NEW p \in Projects PROVE Faithful(p)'
    <3>1. cache'[p] \in {None, project'[p].cred}
      BY <2>1
    <3>2. ~Replacing(p)'
      BY <2>1, <2>2 DEF Replacing
    <3>3. \A h \in Handlers : handler'[h].pc # "app"
      BY <2>1, <2>2
    <3>4. \A r \in Requests : request'[r].read[p] = None
      BY <2>1, <2>2 DEF NoApps
    <3>. QED BY <3>1, <3>2, <3>3, <3>4 DEF Faithful
  <2>. QED BY <2>3
<1>8. ASSUME UNCHANGED vars PROVE Goal
  <2>1. UNCHANGED apps /\ UNCHANGED request
    BY <1>8 DEF vars
  <2>. QED BY <1>1, <1>2, <2>1
<1> HIDE DEF Goal
<1>9. Goal
  BY <1>3, <1>4, <1>5, <1>6, <1>7, <1>8 DEF Next
<1>. QED BY <1>9, UpsertsStay DEF AppInv, Goal

\* An app is made with the credentials of its row, unless somebody had read the row
\* before these were replaced, or the request that did is about to clear it, for any
\* number of requests and handlers that overlap, fail and restart.
THEOREM AppsAreCurrent == Spec => []AppsFollowCredentials
<1>1. Init => AppInv
  <2> SUFFICES ASSUME Init PROVE AppInv
    OBVIOUS
  <2>1. /\ \A r \in Requests : request[r] = NoRequest
        /\ \A h \in Handlers : handler[h].pc = "idle"
        /\ cache = [p \in Projects |-> IF project[p].active THEN project[p].cred ELSE None]
    BY NoHandlerTyped DEF Init
  <2>. QED BY <2>1 DEF AppInv, Faithful, Replacing, NoRequest, NoApps
<1>2. AppInv => AppsFollowCredentials
  BY DEF AppInv, Faithful, Clearing, AppsFollowCredentials
<1>. QED BY <1>1, <1>2, DeliveryInvariant, AppStep, PTL DEF Spec

-----------------------------------------------------------------------------
(* Bulk notifications                                                      *)

\* How often a bulk notification serves a user, or is about to.
Times(q, u) == q.todo[u] + q.got[u]

\* What a bulk notification q has made of the users s.  While it collects all of
\* them, those on the pages it has read, and only those: a user who joins moves
\* others to later pages, one who leaves to earlier ones.  When it serves them:
\* all of them, and nobody twice.
Fits(q, s) ==
    /\ q.pc \in {"fetch", "send", "done"} => q.op \in {"city", "all"}
    /\ q.pc = "fetch" /\ q.op = "city" /\ q.page = 1 => \A u \in Users : Times(q, u) = 0
    /\ q.pc = "fetch" /\ q.op = "all" =>
          /\ q.left = {} /\ ~q.failed =>
                \A i \in 1..Len(s) : i <= (q.page - 1) * Limit /\ s[i] \notin q.joined =>
                    Times(q, s[i]) > 0
          /\ q.joined = {} =>
                /\ \A u \in Users : Times(q, u) <= 1
                /\ \A i \in 1..Len(s) : Times(q, s[i]) > 0 => i <= (q.page - 1) * Limit
    /\ q.pc \in {"send", "done"} /\ (q.op = "all" \/ q.page = 1) =>
          /\ q.last
          /\ q.left = {} /\ ~q.failed =>
                \A i \in 1..Len(s) : s[i] \notin q.joined /\ (q.op = "city" => s[i] \in CityUsers) =>
                    Times(q, s[i]) > 0
          /\ q.joined = {} => \A u \in Users : Times(q, u) <= 1
    /\ q.pc = "done" => \A u \in Users : q.todo[u] = 0

BulkInv == \A r \in Requests : Fits(request[r], users)

\* A request that does something else.
LEMMA ElseFits == \A q, s : q.pc \notin {"fetch", "send", "done"} => Fits(q, s)
BY DEF Fits

\* After the last page of a list nobody is left.
LEMMA PagesEnd ==
    ASSUME NEW s \in Seq(Users), NEW n \in Nat \ {0}
    PROVE  /\ (n - 1) * Limit \in Nat /\ n * Limit = (n - 1) * Limit + Limit
           /\ Page(s, n) = {} \/ LastPage(s, n) => Len(s) <= n * Limit
<1>1. Limit \in Nat /\ Limit > 0
  BY DeliveriesAssumption
<1>2. (n - 1) * Limit \in Nat /\ n * Limit = (n - 1) * Limit + Limit
  <2>1. \A a, b \in Nat : a * b \in Nat /\ a * b + b = (a + 1) * b
    OBVIOUS
  <2>2. n - 1 \in Nat /\ (n - 1) + 1 = n
    OBVIOUS
  <2>. QED BY <1>1, <2>1, <2>2
<1>3. Len(s) \in Nat /\ DOMAIN s = 1..Len(s)
  OBVIOUS
<1>4. ASSUME Page(s, n) = {} PROVE Len(s) <= n * Limit
  <2> DEFINE low == (n - 1) * Limit
             high == n * Limit
  <2>1. low \in Nat /\ high = low + Limit
    BY <1>2
  <2>2. \A k \in DOMAIN s : ~(low < k /\ k <= high)
    BY <1>4 DEF Page
  <2> HIDE DEF low, high
  <2>3. ~(low + 1 \in 1..Len(s))
    BY <1>1, <1>3, <2>1, <2>2
  <2>4. Len(s) <= high
    BY <1>1, <1>3, <2>1, <2>3
  <2>. QED BY <2>4 DEF high
<1>5. ASSUME LastPage(s, n) PROVE Len(s) <= n * Limit
  <2> DEFINE d == (Len(s) + Limit - 1) \div Limit
  <2>1. d \in Int /\ Len(s) + Limit - 1 < d * Limit + Limit
    BY <1>1, <1>3
  <2>2. n >= d
    BY <1>5 DEF LastPage, Pages
  <2> HIDE DEF d
  <2>3. d * Limit <= n * Limit
    BY <1>1, <2>1, <2>2
  <2>4. d * Limit \in Int /\ n * Limit \in Int
    BY <1>1, <2>1
  <2>. QED BY <1>1, <1>3, <2>1, <2>3, <2>4
<1>. QED BY <1>2, <1>4, <1>5

\* What a page adds.
LEMMA FetchedAdds ==
    ASSUME NEW q \in RequestType, NEW page, NEW end \in BOOLEAN
    PROVE  LET v == Fetched(q, page, end)
           IN  /\ \A f \in {"op", "got", "joined", "left", "failed"} : v[f] = q[f]
               /\ v.last = end /\ v.pc = (IF q.op = "city" \/ end THEN "send" ELSE "fetch")
               /\ v.page = (IF end THEN q.page ELSE q.page + 1)
               /\ \A u \in Users : Times(v, u) = Times(q, u) + IF u \in page THEN 1 ELSE 0
<1> DEFINE pc == IF q.op = "city" \/ end THEN "send" ELSE "fetch"
           pg == IF end THEN q.page ELSE q.page + 1
           todo == Adding(q.todo, page)
           v == Fetched(q, page, end)
<1>1. v = [q EXCEPT !.todo = todo, !.last = end, !.pc = pc, !.page = pg]
  BY DEF Fetched
<1>2. \A u \in Users : todo[u] = q.todo[u] + IF u \in page THEN 1 ELSE 0
  BY DEF Adding, RequestType
<1>3. \A u \in Users : q.todo[u] \in Nat /\ q.got[u] \in Nat
  BY DEF RequestType
<1> HIDE DEF pc, pg, todo
<1>4. /\ \A f \in {"op", "got", "joined", "left", "failed"} : v[f] = q[f]
      /\ v.last = end /\ v.pc = pc /\ v.page = pg /\ v.todo = todo
  BY <1>1 DEF RequestType
<1> HIDE DEF v
<1>5. \A u \in Users : Times(v, u) = Times(q, u) + IF u \in page THEN 1 ELSE 0
  BY <1>2, <1>3, <1>4 DEF Times
<1>. QED BY <1>4, <1>5 DEF v, pc, pg

\* The next page of all users.
LEMMA NextPageFits ==
    ASSUME UsersTyped, NEW q \in RequestType, Fits(q, users), q.pc = "fetch", q.op = "all",
           NEW end \in BOOLEAN, end <=> Page(users, q.page) = {} \/ LastPage(users, q.page)
    PROVE  Fits(Fetched(q, Page(users, q.page), end), users)
<1> DEFINE n == q.page
           low == (n - 1) * Limit
           high == n * Limit
           page == Page(users, n)
           v == Fetched(q, page, end)
<1>1. /\ users \in Seq(Users) /\ Len(users) \in Nat /\ DOMAIN users = 1..Len(users)
      /\ \A i, j \in 1..Len(users) : users[i] = users[j] => i = j
      /\ \A i \in 1..Len(users) : users[i] \in Users
  BY DEF UsersTyped
<1>2. n \in Nat \ {0} /\ \A u \in Users : Times(q, u) \in Nat
  BY DEF RequestType, Times
<1>3. low \in Nat /\ high = low + Limit /\ Limit \in Nat /\ (end => Len(users) <= high)
  BY <1>1, <1>2, PagesEnd, DeliveriesAssumption
<1>4. \A i \in 1..Len(users) : users[i] \in page <=> low < i /\ i <= high
  BY <1>1 DEF Page
<1>5. \A u \in page : \E i \in 1..Len(users) : u = users[i] /\ low < i
  BY <1>1 DEF Page
<1>6. /\ \A f \in {"op", "got", "joined", "left", "failed"} : v[f] = q[f]
      /\ v.last = end /\ v.pc = (IF end THEN "send" ELSE "fetch")
      /\ v.page = (IF end THEN n ELSE n + 1)
      /\ \A u \in Users : Times(v, u) = Times(q, u) + IF u \in page THEN 1 ELSE 0
  BY FetchedAdds
<1>7. ASSUME q.left = {}, ~q.failed
      PROVE  \A i \in 1..Len(users) : i <= high /\ users[i] \notin q.joined => Times(v, users[i]) > 0
  <2>1. \A i \in 1..Len(users) : i <= low /\ users[i] \notin q.joined => Times(q, users[i]) > 0
    BY <1>7 DEF Fits
  <2> HIDE DEF low, high, page, v
  <2> SUFFICES ASSUME NEW i \in 1..Len(users), i <= high, users[i] \notin q.joined
               PROVE  Times(v, users[i]) > 0
    OBVIOUS
  <2>2. Times(v, users[i]) = Times(q, users[i]) + IF users[i] \in page THEN 1 ELSE 0
    BY <1>1, <1>6
  <2>3. Times(q, users[i]) \in Nat
    BY <1>1, <1>2
  <2>4. CASE i <= low
    BY <2>1, <2>2, <2>3, <2>4
  <2>5. CASE ~(i <= low)
    <3>1. users[i] \in page
      BY <1>3, <1>4, <2>5
    <3>. QED BY <2>2, <2>3, <3>1
  <2>. QED BY <2>4, <2>5
<1>8. ASSUME q.joined = {}
      PROVE  /\ \A u \in Users : Times(v, u) <= 1
             /\ \A i \in 1..Len(users) : Times(v, users[i]) > 0 => i <= high
  <2>1. /\ \A u \in Users : Times(q, u) <= 1
        /\ \A i \in 1..Len(users) : Times(q, users[i]) > 0 => i <= low
    BY <1>8 DEF Fits
  <2> HIDE DEF low, high, page, v
  <2>2. ASSUME NEW u \in Users PROVE Times(v, u) <= 1
    <3>1. CASE u \in page
      <4>1. PICK i \in 1..Len(users) : u = users[i] /\ low < i
        BY <1>5, <3>1
      <4>2. Times(q, u) = 0
        BY <1>2, <1>3, <2>1, <4>1
      <4>. QED BY <1>6, <3>1, <4>2
    <3>2. CASE u \notin page
      BY <1>2, <1>6, <2>1, <3>2
    <3>. QED BY <3>1, <3>2
  <2>3. ASSUME NEW i \in 1..Len(users), Times(v, users[i]) > 0 PROVE i <= high
    <3>1. CASE users[i] \in page
      BY <1>4, <3>1
    <3>2. CASE users[i] \notin page
      <4>1. Times(q, users[i]) > 0
        BY <1>1, <1>2, <1>6, <2>3, <3>2
      <4>. QED BY <1>3, <2>1, <4>1
    <3>. QED BY <3>1, <3>2
  <2>. QED BY <2>2, <2>3
<1>9. (v.page - 1) * Limit = high \/ end
  <2>1. ~end => v.page - 1 = n
    BY <1>2, <1>6
  <2>. QED BY <2>1
<1> HIDE DEF v, page, low
<1>10. CASE end
  <2>1. v.pc = "send" /\ v.op = "all" /\ v.last
    BY <1>6, <1>10
  <2>2. \A i \in 1..Len(users) : i <= high
    BY <1>1, <1>3, <1>10
  <2> HIDE DEF high
  <2>3. Fits(v, users)
    BY <1>6, <1>7, <1>8, <2>1, <2>2 DEF Fits
  <2>. QED BY <2>3 DEF v, page
<1>11. CASE ~end
  <2>1. v.pc = "fetch" /\ v.op = "all" /\ (v.page - 1) * Limit = high
    BY <1>6, <1>9, <1>11
  <2> HIDE DEF high
  <2>2. Fits(v, users)
    BY <1>6, <1>7, <1>8, <2>1 DEF Fits
  <2>. QED BY <2>2 DEF v, page
<1>. QED BY <1>10, <1>11

\* A page of the users of the city.
LEMMA CityPageFits ==
    ASSUME UsersTyped, NEW q \in RequestType, Fits(q, users), q.pc = "fetch", q.op = "city",
           NEW s \in Orders(Listed \cap CityUsers),
           NEW end \in BOOLEAN, end <=> Page(s, q.page) = {} \/ LastPage(s, q.page)
    PROVE  Fits(Fetched(q, Page(s, q.page), end), users)
<1> DEFINE page == Page(s, q.page)
           v == Fetched(q, page, end)
           here == Listed \cap CityUsers
<1>1. /\ \A f \in {"op", "got", "joined", "left", "failed"} : v[f] = q[f]
      /\ v.last = end /\ v.pc = "send"
      /\ v.page = (IF end THEN q.page ELSE q.page + 1)
      /\ \A u \in Users : Times(v, u) = Times(q, u) + IF u \in page THEN 1 ELSE 0
  BY FetchedAdds
<1>2. q.page \in Nat \ {0}
  BY DEF RequestType
<1>3. CASE v.page # 1
  <2> HIDE DEF v
  <2>1. Fits(v, users)
    BY <1>1, <1>3 DEF Fits
  <2>. QED BY <2>1 DEF v
<1>4. CASE v.page = 1
  <2>1. q.page = 1 /\ end
    BY <1>1, <1>2, <1>4
  <2>2. \A u \in Users : Times(q, u) = 0
    BY <2>1 DEF Fits
  <2>3. /\ users \in Seq(Users) /\ DOMAIN users = 1..Len(users)
        /\ \A i \in 1..Len(users) : users[i] \in Users
    BY DEF UsersTyped
  <2>4. here \subseteq Users /\ \A i \in 1..Len(users) : users[i] \in CityUsers => users[i] \in here
    BY <2>3 DEF Listed
  <2>5. IsFiniteSet(here) /\ Cardinality(here) \in Nat
    BY <2>4, DeliveriesAssumption, FS_Subset, FS_CardinalityType
  <2>6. /\ s \in [1..Cardinality(here) -> here]
        /\ \A u \in here : \E i \in DOMAIN s : s[i] = u
    BY DEF Orders
  <2> HIDE DEF here
  <2>7. s \in Seq(Users) /\ DOMAIN s = 1..Len(s)
    BY <2>4, <2>5, <2>6
  <2>8. Len(s) <= Limit /\ Limit \in Nat
    <3>1. 1 \in Nat \ {0} /\ Limit \in Nat
      BY DeliveriesAssumption
    <3>2. Len(s) <= 1 * Limit
      BY <2>1, <2>7, <3>1, PagesEnd
    <3>. QED BY <3>1, <3>2
  <2>9. \A u \in here : u \in page
    <3> SUFFICES ASSUME NEW u \in here PROVE u \in page
      OBVIOUS
    <3>1. PICK i \in 1..Len(s) : s[i] = u
      BY <2>6, <2>7
    <3>2. (1 - 1) * Limit < i /\ i <= 1 * Limit
      BY <2>7, <2>8
    <3>. QED BY <2>1, <2>7, <3>1, <3>2 DEF Page
  <2> HIDE DEF v, page
  <2>10. \A u \in Users : Times(v, u) <= 1 /\ (u \in here => Times(v, u) > 0)
    BY <1>1, <2>2, <2>9
  <2>11. Fits(v, users)
    BY <1>1, <2>1, <2>3, <2>4, <2>10 DEF Fits
  <2>. QED BY <2>11 DEF v, page
<1>. QED BY <1>3, <1>4

\* What is served is no longer to be served; what fails is known to have failed.
LEMMA ServedFits ==
    ASSUME NEW q \in RequestType, NEW s \in Seq(Users), Fits(q, s), q.pc = "send",
           NEW u \in Users, q.todo[u] > 0
    PROVE  Fits(Served(q, u), s) /\ Fits(NotServed(q, u), s)
<1> DEFINE todo == [q.todo EXCEPT ![u] = @ - 1]
           got  == [q.got EXCEPT ![u] = @ + 1]
           v == Served(q, u)
           w == NotServed(q, u)
<1>1. /\ q.todo \in [Users -> Nat] /\ q.got \in [Users -> Nat]
      /\ todo \in [Users -> Nat] /\ got \in [Users -> Nat]
  BY DEF RequestType
<1>2. v = [q EXCEPT !.todo = todo, !.got = got] /\ w = [q EXCEPT !.todo = todo, !.failed = TRUE]
  BY DEF Served, NotServed, RequestType
<1>3. ASSUME NEW x \in Users
      PROVE  /\ todo[x] + got[x] = q.todo[x] + q.got[x]
             /\ todo[x] + q.got[x] <= q.todo[x] + q.got[x]
             /\ q.todo[x] + q.got[x] \in Nat /\ todo[x] + q.got[x] \in Nat
  <2>1. q.todo[x] \in Nat /\ q.got[x] \in Nat
    BY <1>1
  <2>2. CASE x = u
    <3>1. todo[x] = q.todo[x] - 1 /\ got[x] = q.got[x] + 1 /\ q.todo[x] > 0
      BY <1>1, <2>2
    <3>2. \A a, b \in Nat : a > 0 => /\ (a - 1) + (b + 1) = a + b /\ (a - 1) + b <= a + b
                                    /\ a + b \in Nat /\ (a - 1) + b \in Nat
      OBVIOUS
    <3> HIDE DEF todo, got
    <3>. QED BY <2>1, <3>1, <3>2
  <2>3. CASE x # u
    <3>1. todo[x] = q.todo[x] /\ got[x] = q.got[x]
      BY <1>1, <2>3
    <3> HIDE DEF todo, got
    <3>. QED BY <2>1, <3>1
  <2>. QED BY <2>2, <2>3
<1> HIDE DEF todo, got
<1>5. /\ \A f \in {"op", "pc", "page", "last", "joined", "left", "failed"} : v[f] = q[f]
      /\ v.todo = todo /\ v.got = got
  BY <1>2 DEF RequestType
<1>6. /\ \A f \in {"op", "pc", "page", "last", "joined", "left", "got"} : w[f] = q[f]
      /\ w.todo = todo /\ w.failed = TRUE
  BY <1>2 DEF RequestType
<1> HIDE DEF v, w
<1>7. \A x \in Users : Times(v, x) = Times(q, x)
  BY <1>3, <1>5 DEF Times
<1>8. \A x \in Users : /\ Times(w, x) <= Times(q, x)
                       /\ Times(w, x) \in Nat /\ Times(q, x) \in Nat
  BY <1>3, <1>6 DEF Times
<1>9. \A i \in 1..Len(s) : s[i] \in Users
  OBVIOUS
<1>10. Fits(v, s)
  BY <1>5, <1>7, <1>9 DEF Fits
<1>11. ASSUME q.joined = {}, \A x \in Users : Times(q, x) <= 1
       PROVE  \A x \in Users : Times(w, x) <= 1
  BY <1>8, <1>11
<1>12. Fits(w, s)
  BY <1>6, <1>11 DEF Fits
<1>. QED BY <1>10, <1>12 DEF v, w

\* A request in one of its steps.
LEMMA BulkMoves ==
    ASSUME TypeOK, NEW r \in Requests, RequestStep(r), Fits(request[r], users)
    PROVE  Fits(request'[r], users)
<1> DEFINE q == request[r]
           Goal == Fits(request'[r], users)
           Else == request'[r].pc \notin {"fetch", "send", "done"}
<1>0. q \in RequestType /\ request \in [Requests -> RequestType] /\ UsersTyped
  BY DEF TypeOK, UsersTyped
<1>1. ASSUME NEW op \in {"city", "all"}, StartBulk(r, op) PROVE Goal
  <2>1. PICK c \in Channels : request' = [request EXCEPT ![r] = [NoRequest EXCEPT !.op = op, !.pc = "fetch", !.channel = c]]
    BY <1>1 DEF StartBulk
  <2> DEFINE v == [NoRequest EXCEPT !.op = op, !.pc = "fetch", !.channel = c]
  <2>2. /\ v.pc = "fetch" /\ v.op = op /\ v.page = NoRequest.page
        /\ v.todo = NoRequest.todo /\ v.got = NoRequest.got
    BY NoRequestTyped DEF RequestType
  <2> HIDE DEF v
  <2>3. v.page = 1 /\ v.todo = NoBag /\ v.got = NoBag
    BY <2>2 DEF NoRequest
  <2>4. \A u \in Users : Times(v, u) = 0
    BY <2>3 DEF Times, NoBag
  <2>5. (v.page - 1) * Limit = 0 /\ Len(users) \in Nat /\ \A i \in 1..Len(users) : users[i] \in Users
    BY <1>0, <2>3, DeliveriesAssumption DEF UsersTyped
  <2>6. Fits(v, users)
    BY <2>2, <2>4, <2>5 DEF Fits
  <2>7. request'[r] = v
    BY <1>0, <2>1 DEF v
  <2>. QED BY <2>6, <2>7
<1>2. CASE FetchPage(r)
  <2>1. PICK s \in Listings(q.op) : request' = [request EXCEPT ![r] =
          Fetched(q, Page(s, q.page), Page(s, q.page) = {} \/ LastPage(s, q.page))]
    BY <1>2, Zenon DEF FetchPage
  <2>2. q.pc = "fetch"
    BY <1>2 DEF FetchPage
  <2> DEFINE end == Page(s, q.page) = {} \/ LastPage(s, q.page)
  <2>3. end \in BOOLEAN /\ (end <=> Page(s, q.page) = {} \/ LastPage(s, q.page))
    BY DEF LastPage
  <2>4. request'[r] = Fetched(q, Page(s, q.page), end)
    BY <1>0, <2>1
  <2> HIDE DEF end
  <2>5. CASE q.op = "all"
    <3>1. s = users
      BY <2>5 DEF Listings
    <3>. QED BY <1>0, <2>2, <2>3, <2>4, <2>5, <3>1, NextPageFits
  <2>6. CASE q.op = "city"
    <3>1. s \in Orders(Listed \cap CityUsers)
      BY <2>6 DEF Listings
    <3>. QED BY <1>0, <2>2, <2>3, <2>4, <2>6, <3>1, CityPageFits
  <2>7. q.op \in {"city", "all"}
    BY <2>2 DEF Fits
  <2>. QED BY <2>5, <2>6, <2>7
<1>3. CASE FetchFails(r) \/ CreateFails(r) \/ WriteFails(r) \/ CacheProjects(r)
  <2>1. request' = [request EXCEPT ![r] = NoRequest]
    BY <1>3 DEF FetchFails, CreateFails, WriteFails, CacheProjects
  <2>. QED BY <1>0, <2>1, ElseFits DEF NoRequest
<1>4. CASE EndPage(r)
  <2> DEFINE pc == IF q.last THEN "done" ELSE "fetch"
             v == [q EXCEPT !.pc = pc]
  <2>1. request'[r] = v /\ q.pc = "send" /\ q.todo = NoBag
    BY <1>4, <1>0 DEF EndPage
  <2> HIDE DEF pc
  <2>2. /\ v.pc = pc /\ v.todo = NoBag
        /\ \A f \in {"op", "page", "last", "joined", "left", "failed", "todo", "got"} : v[f] = q[f]
    BY <1>0, <2>1 DEF RequestType
  <2> HIDE DEF v
  <2>3. \A u \in Users : Times(v, u) = Times(q, u) /\ v.todo[u] = 0
    BY <2>2 DEF Times, NoBag
  <2>4. \A i \in 1..Len(users) : users[i] \in Users
    BY <1>0 DEF UsersTyped
  <2>5. CASE q.last
    <3>1. v.pc = "done"
      BY <2>2, <2>5 DEF pc
    <3>. QED BY <2>1, <2>2, <2>3, <2>4, <3>1 DEF Fits
  <2>6. CASE ~q.last
    <3>1. v.pc = "fetch" /\ q.op = "city" /\ q.page # 1
      BY <2>1, <2>2, <2>6 DEF pc, Fits
    <3>. QED BY <2>1, <2>2, <3>1 DEF Fits
  <2>. QED BY <2>5, <2>6
<1>5. ASSUME NEW u \in Users, SendToUser(r, u) \/ SendToUserFails(r, u) PROVE Goal
  <2>1. /\ q.todo[u] > 0 /\ q.pc = "send" /\ users \in Seq(Users)
        /\ request'[r] \in {Served(q, u), NotServed(q, u)}
    BY <1>0, <1>5 DEF SendToUser, SendToUserFails, UsersTyped
  <2>. QED BY <1>0, <2>1, ServedFits
<1>6. ASSUME NEW p \in Projects, NEW op, Start(r, op, p, "write") PROVE Goal
  <2>1. PICK c \in Creds : request' = [request EXCEPT ![r] =
                               [NoRequest EXCEPT !.op = op, !.pc = "write", !.project = p, !.cred = c]]
    BY <1>6 DEF Start
  <2>2. [NoRequest EXCEPT !.op = op, !.pc = "write", !.project = p, !.cred = c].pc = "write"
    BY NoRequestTyped DEF RequestType
  <2>. QED BY <1>0, <2>1, <2>2, ElseFits
<1>7. CASE \/ CreateFirebaseProject(r) \/ UpsertCityFirebaseProject(r)
           \/ UpdateFirebaseProject(r) \/ DeleteFirebaseProject(r)
  <2>1. PICK next \in {"load", "clear"} : request' = [request EXCEPT ![r].pc = next, ![r].cred = None]
    BY <1>7 DEF CreateFirebaseProject, UpsertCityFirebaseProject, UpdateFirebaseProject,
                DeleteFirebaseProject, Write
  <2>2. request'[r].pc = next
    BY <1>0, <2>1 DEF RequestType
  <2>. QED BY <2>2, ElseFits
<1>8. CASE ClearAfterwards(r)
  <2>1. request'[r] = NoRequest \/ request'[r] = [q EXCEPT !.pc = "load"]
    BY <1>0, <1>8 DEF ClearAfterwards
  <2>2. request'[r].pc \in {"idle", "load"}
    BY <1>0, <2>1 DEF NoRequest, RequestType
  <2>. QED BY <2>2, ElseFits
<1>9. CASE ReadProjects(r)
  <2> DEFINE read == [p \in Projects |-> IF project[p].active THEN project[p].cred ELSE None]
             v == [NoRequest EXCEPT !.pc = "fill", !.read = read]
  <2>1. v.pc = "fill"
    BY NoRequestTyped DEF RequestType
  <2>2. request'[r] = v
    BY <1>0, <1>9 DEF ReadProjects
  <2>. QED BY <2>1, <2>2, ElseFits
<1>. QED
  <2>1. ASSUME NEW p \in Projects, StartUpdate(r, p) PROVE Goal
    BY <2>1, <1>6 DEF StartUpdate
  <2>2. ASSUME NEW p \in Projects, NEW op \in {"create", "upsert", "delete"}, StartProject(r, op, p)
        PROVE  Goal
    BY <2>2, <1>6 DEF StartProject
  <2>. QED BY <1>1, <1>2, <1>3, <1>4, <1>5, <1>7, <1>8, <1>9, <2>1, <2>2 DEF RequestStep, Projects

\* Somebody joins under a request.
LEMMA JoinFits ==
    ASSUME NEW s \in Seq(Users), NEW t \in Seq(Users), NEW u \in Users, NEW i \in 1..(Len(s) + 1),
           PutIn(s, i, u, t), NEW q \in RequestType, Fits(q, s)
    PROVE  Fits([q EXCEPT !.joined = @ \cup {u}], t)
<1> DEFINE v == [q EXCEPT !.joined = q.joined \cup {u}]
<1>1. /\ \A f \in {"op", "pc", "page", "last", "left", "failed", "todo", "got"} : v[f] = q[f]
      /\ v.joined = q.joined \cup {u}
  BY DEF RequestType
<1>2. \A x : Times(v, x) = Times(q, x)
  BY <1>1 DEF Times
<1>3. ASSUME NEW j \in 1..Len(t), t[j] # u PROVE \E k \in 1..Len(s) : k <= j /\ s[k] = t[j]
  <2>1. Len(t) = Len(s) + 1 /\ t[j] = IF j < i THEN s[j] ELSE IF j = i THEN u ELSE s[j - 1]
    BY DEF PutIn
  <2>2. CASE j < i
    BY <2>1, <2>2
  <2>3. CASE j > i
    <3>1. j - 1 \in 1..Len(s) /\ j - 1 <= j /\ s[j - 1] = t[j]
      BY <2>1, <2>3
    <3>. QED BY <3>1
  <2>. QED BY <1>3, <2>1, <2>2, <2>3
<1> DEFINE low == (q.page - 1) * Limit
<1>4. low \in Int
  BY DeliveriesAssumption DEF RequestType
<1> HIDE DEF v, low
<1>5. \A j \in 1..Len(t) : j <= low /\ t[j] \notin v.joined =>
         \E k \in 1..Len(s) : k <= low /\ s[k] = t[j] /\ s[k] \notin q.joined
  <2> SUFFICES ASSUME NEW j \in 1..Len(t), j <= low, t[j] \notin v.joined
               PROVE  \E k \in 1..Len(s) : k <= low /\ s[k] = t[j] /\ s[k] \notin q.joined
    OBVIOUS
  <2>1. t[j] # u /\ t[j] \notin q.joined
    BY <1>1
  <2>2. PICK k \in 1..Len(s) : k <= j /\ s[k] = t[j]
    BY <1>3, <2>1
  <2>. QED BY <1>4, <2>1, <2>2
<1>6. \A j \in 1..Len(t) : t[j] \notin v.joined =>
         \E k \in 1..Len(s) : s[k] = t[j] /\ s[k] \notin q.joined
  BY <1>1, <1>3
<1>7. ASSUME q.pc = "fetch", q.op = "all", q.left = {}, ~q.failed
      PROVE  \A j \in 1..Len(t) : j <= low /\ t[j] \notin v.joined => Times(v, t[j]) > 0
  BY <1>2, <1>5, <1>7 DEF Fits, low
<1>8. ASSUME q.pc \in {"send", "done"}, q.op = "all" \/ q.page = 1, q.left = {}, ~q.failed
      PROVE  \A j \in 1..Len(t) : t[j] \notin v.joined /\ (q.op = "city" => t[j] \in CityUsers) =>
                Times(v, t[j]) > 0
  BY <1>2, <1>6, <1>8 DEF Fits
<1>9. v.joined # {}
  BY <1>1
<1>10. Fits(v, t)
  BY <1>1, <1>2, <1>7, <1>8, <1>9 DEF Fits, low
<1>. QED BY <1>10 DEF v

\* Somebody leaves under a request.
LEMMA LeaveFits ==
    ASSUME NEW s \in Seq(Users), NEW t \in Seq(Users), NEW u \in Users, NEW i \in 1..Len(s),
           TakenOut(s, i, t), NEW q \in RequestType, Fits(q, s)
    PROVE  Fits([q EXCEPT !.left = @ \cup {u}], t)
<1> DEFINE v == [q EXCEPT !.left = q.left \cup {u}]
           low == (q.page - 1) * Limit
<1>1. /\ \A f \in {"op", "pc", "page", "last", "joined", "failed", "todo", "got"} : v[f] = q[f]
      /\ v.left = q.left \cup {u}
  BY DEF RequestType
<1>2. \A x : Times(v, x) = Times(q, x)
  BY <1>1 DEF Times
<1>3. ASSUME NEW j \in 1..Len(t) PROVE \E k \in 1..Len(s) : j <= k /\ s[k] = t[j]
  <2>1. Len(t) = Len(s) - 1 /\ t[j] = IF j < i THEN s[j] ELSE s[j + 1]
    BY DEF TakenOut
  <2>2. j \in 1..Len(s) /\ j + 1 \in 1..Len(s) /\ j <= j + 1
    BY <2>1
  <2>. QED BY <2>1, <2>2
<1>4. low \in Int
  BY DeliveriesAssumption DEF RequestType
<1> HIDE DEF v, low
<1>5. ASSUME q.pc = "fetch", q.op = "all", q.joined = {}
      PROVE  \A j \in 1..Len(t) : Times(v, t[j]) > 0 => j <= low
  <2>1. \A k \in 1..Len(s) : Times(q, s[k]) > 0 => k <= low
    BY <1>5 DEF Fits, low
  <2> SUFFICES ASSUME NEW j \in 1..Len(t), Times(v, t[j]) > 0 PROVE j <= low
    OBVIOUS
  <2>2. PICK k \in 1..Len(s) : j <= k /\ s[k] = t[j]
    BY <1>3
  <2>3. k <= low
    BY <1>2, <2>1, <2>2
  <2>. QED BY <1>4, <2>2, <2>3
<1>6. v.left # {}
  BY <1>1
<1>7. Fits(v, t)
  BY <1>1, <1>2, <1>5, <1>6 DEF Fits, low
<1>. QED BY <1>7 DEF v

\* Every step keeps what the bulk notifications have made of the users.
LEMMA BulkStep == TypeOK /\ SourcesExist /\ BulkInv /\ [Next]_vars => BulkInv'
<1> SUFFICES ASSUME TypeOK, SourcesExist, BulkInv, [Next]_vars PROVE BulkInv'
  OBVIOUS
<1>0. /\ request \in [Requests -> RequestType]
      /\ users \in Seq(Users) /\ DOMAIN users = 1..Len(users)
  BY DEF TypeOK
<1>1. ASSUME NEW u \in Users, Join(u) PROVE BulkInv'
  <2>1. PICK i \in 1..(Len(users) + 1) : users' = InsertAt(users, i, u)
    BY <1>1 DEF Join
  <2>2. users' \in Seq(Users) /\ PutIn(users, i, u, users')
    BY <1>0, <2>1, Inserted
  <2> SUFFICES ASSUME NEW r \in Requests PROVE Fits(request'[r], users')
    BY DEF BulkInv
  <2>3. request[r] \in RequestType /\ Fits(request[r], users)
    BY <1>0 DEF BulkInv
  <2>4. CASE r \in Bulks
    <3>1. request'[r] = [request[r] EXCEPT !.joined = @ \cup {u}]
      BY <1>1, <2>4 DEF Join
    <3>. QED BY <1>0, <2>2, <2>3, <3>1, JoinFits
  <2>5. CASE r \notin Bulks
    <3>1. request'[r] = request[r]
      BY <1>1, <2>5 DEF Join
    <3>2. request[r].pc \notin {"fetch", "send", "done"}
      BY <2>3, <2>5 DEF Bulks, Fits
    <3>. QED BY <3>1, <3>2, ElseFits
  <2>. QED BY <2>4, <2>5
<1>2. ASSUME NEW u \in Users, Leave(u) PROVE BulkInv'
  <2>1. PICK i \in 1..Len(users) : users' = RemoveAt(users, i)
    BY <1>0, <1>2 DEF Leave
  <2>2. users' \in Seq(Users) /\ TakenOut(users, i, users')
    BY <1>0, <2>1, Removed
  <2> SUFFICES ASSUME NEW r \in Requests PROVE Fits(request'[r], users')
    BY DEF BulkInv
  <2>3. request[r] \in RequestType /\ Fits(request[r], users)
    BY <1>0 DEF BulkInv
  <2>4. CASE r \in Bulks
    <3>1. request'[r] = [request[r] EXCEPT !.left = @ \cup {u}]
      BY <1>2, <2>4 DEF Leave
    <3>. QED BY <1>0, <2>2, <2>3, <3>1, LeaveFits
  <2>5. CASE r \notin Bulks
    <3>1. request'[r] = request[r]
      BY <1>2, <2>5 DEF Leave
    <3>2. request[r].pc \notin {"fetch", "send", "done"}
      BY <2>3, <2>5 DEF Bulks, Fits
    <3>. QED BY <3>1, <3>2, ElseFits
  <2>. QED BY <2>4, <2>5
<1>3. CASE UNCHANGED users
  <2>1. ASSUME NEW r \in Requests, RequestStep(r) PROVE BulkInv'
    <3>1. PICK v : request' = [request EXCEPT ![r] = v]
      BY <2>1, RequestMoves
    <3>2. Fits(request'[r], users)
      BY <2>1, BulkMoves DEF BulkInv
    <3>3. \A k \in Requests : k # r => request'[k] = request[k]
      BY <1>0, <3>1
    <3>. QED BY <1>3, <3>2, <3>3 DEF BulkInv
  <2>2. CASE Restart
    <3>1. \A r \in Requests : request'[r] = NoRequest
      BY <2>2 DEF Restart
    <3>. QED BY <3>1, ElseFits DEF BulkInv, NoRequest
  <2>3. CASE UNCHANGED request
    BY <1>3, <2>3 DEF BulkInv
  <2>. QED BY <1>1, <1>2, <2>1, <2>2, <2>3, RequestsAlone
<1>. QED BY <1>1, <1>2, <1>3, UsersAlone

\* Every bulk notification that has ended has reached each user who was active all
\* the time once, however many users join and leave while its pages are read, for
\* any size of the pages: of all users, or of a city whose users fit on one page.
THEOREM BulksReachOnce == Spec => []BulkReachesOnce
<1>1. Init => BulkInv
  <2> SUFFICES ASSUME Init, NEW r \in Requests PROVE Fits(request[r], users)
    BY DEF BulkInv
  <2>1. request[r].pc = "idle"
    BY DEF Init, NoRequest
  <2>. QED BY <2>1, ElseFits
<1>2. TypeOK /\ BulkInv => BulkReachesOnce
  <2> SUFFICES ASSUME TypeOK, BulkInv, NEW r \in Requests, request[r].pc = "done", Sorted(r)
               PROVE  LET q == request[r]
                          meant == {u \in Listed \ q.joined : q.op = "city" => u \in CityUsers}
                      IN  /\ q.left = {} /\ ~q.failed => \A u \in meant : q.got[u] > 0
                          /\ q.joined = {} => \A u \in Users : q.got[u] <= 1
    BY DEF BulkReachesOnce
  <2> DEFINE q == request[r]
             meant == {u \in Listed \ q.joined : q.op = "city" => u \in CityUsers}
  <2>1. Fits(q, users) /\ q \in RequestType /\ users \in Seq(Users)
    BY DEF BulkInv, TypeOK
  <2>2. \A u \in Users : q.todo[u] = 0 /\ Times(q, u) = q.got[u]
    BY <2>1 DEF Fits, Times, RequestType
  <2>3. \A u \in meant : u \in Users /\ \E i \in 1..Len(users) : users[i] = u
    BY <2>1 DEF Listed
  <2>4. ASSUME q.left = {}, ~q.failed PROVE \A u \in meant : q.got[u] > 0
    BY <2>1, <2>2, <2>3, <2>4 DEF Fits, Sorted
  <2>5. ASSUME q.joined = {} PROVE \A u \in Users : q.got[u] <= 1
    BY <2>1, <2>2, <2>5 DEF Fits, Sorted
  <2>. QED BY <2>4, <2>5
<1>. QED BY <1>1, <1>2, TypeInit, TypeStep, BulkStep, PTL DEF Spec
====
