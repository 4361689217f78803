# TLA+ models of the Kodi backend

This directory holds TLA+ specifications of the Kodi backend template, a set of
NestJS services that talk over RabbitMQ, keep their rows in PostgreSQL (through
Prisma) and share a Redis. TLC checks small instances of the specifications;
TLAPS proves theorems that hold for every value of their constants. File and
line numbers below refer to the source tree, services under `apps/<service>`.

The code is sequential TypeScript, but every `await` is a place where another
request, another instance of the service, a timeout or a crash may come in
between. Almost all of its hazards are of that kind, and so is the granularity
of the models: **one action is the code from one await to the next**. A read
and the decision it leads to are one action, the write that follows is another.

## 1. Inventory

| Component | State | Operations | Interacts with | Status |
|---|---|---|---|---|
| Redis lock (`libs/redis`) | one key with a TTL | `acquireLock` (SET NX EX), `releaseLock` (DEL) | scheduler, core | modelled |
| Scheduler: tasks | `schedules`, `schedule_run_logs` | cron handler, `runById`, `create`, start-up backfill | lock; requests and events to core | modelled |
| Scheduler: translations | in-process timers and limiter | translate, retry, requeue, upsert | core, DeepL | modelled |
| Core: event reminders, clean-up | `listing_reminders`, `user_favorites` | `processFavoriteEventReminders`, `cleanupUserData`, `cleanupExpiredEventListings`, favourites | lock; request to users for preferences; event to notification | partly |
| Core: listings | `listings` with cities, intervals, tags, media | create, edit, submit, moderate, expire; lists and their pages | users, storage, scheduler | partly |
| Core: categories, sub-services, tiles | their tables, a Redis cache per city | CRUD, assignment, requests and approvals | scheduler (translations), storage | partly |
| Auth | refresh tokens in Redis, `user_sessions` | login, guest login, conversion, refresh, logout, revocation | users; notification (resend) | partly |
| Users: registration and saga | `users`, saga document in Redis | `register`, `registerWithCity`, orchestrator steps | core (city assignment), notification (`USER_CREATED`) | partly; saga modelled |
| Users: guests, devices, terms, deletion | `users`, `devices`, `terms` | find-then-write operations, `isLatest` | auth, notification | partly |
| Notification: verification | `verification_tokens` | send, resend, verify, cancel | users (`VERIFICATION_VERIFIED`), auth (login resends) | modelled |
| Notification: password reset | `password_reset_tokens` | request, verify, mark used | users | modelled |
| Notification: e-mail, push | `notifications`, `firebase_projects`, cache of Firebase apps | bulk fan-out, deliver, retry, credentials | all services; SMTP, FCM | partly |
| RabbitMQ client (`libs/rabbitmq`) | connection, event channel | connect, publish with retry | all services | partly |
| Storage (`libs/storage`) | objects by key | upload, delete, key from URL | core, city, users | partly |
| City, admin, terminal | single rows | CRUD | | partly (images) |
| RBAC and tenancy | city hierarchy, roles | decisions | all controllers | not modelled |
| Configuration, i18n, errors, interceptors, logging, metrics, monitoring, health, contracts | none with a protocol | | | not modelled |

What is hard, and what makes each component correct:

- **Scheduler.** Cron occurrences are not awaited and run on every instance; the
  lock's TTL (300 s) equals the timeout of *one* request while a run makes one
  request per schedule; a release deletes the key whoever owns it; a run works
  on a list it read once; `runById` ignores the lock. Correct: while a run owns
  the lock it is alone, no occurrence is executed twice by owners, run logs
  agree with `runCount`, and a due schedule is executed in the end.
- **Reminders.** Overlapping runs check for a row, then create it, then send.
  Correct: at most one notification per user, event and window; opt-outs are
  respected; a run that ends normally has served everybody it found.
- **Tokens and sessions.** Redis and the session rows are written separately, by
  handlers that run concurrently for several devices, a legacy key and a guest
  being converted. Correct: devices do not cost each other their access, a
  logged-out token does not return.
- **Registration.** A saga over two databases, one message with a timeout, and a
  Redis that loses writes silently. Correct: who is told he is registered has
  what he asked for, a failure leaves nothing behind, everybody is answered.
- **Verification and password reset.** Older links are cancelled, then a new one
  is created; a link is read, then updated unconditionally; another service
  learns of it by an event that may be late or lost. Correct: links replace each
  other, the services agree, nobody is left without a way in, a reset link
  changes one password.
- **Images.** A row's URL and the object store are written in separate steps, in
  an order that differs from handler to handler. Correct: a URL has its file,
  and a deleted image leaves none.
- **Listings.** A verdict is written over whatever the listing has become; a slug
  is looked up before the transaction that writes it; columns are derived from
  related rows that partial updates replace. Correct: nothing is published
  unseen, a publication is dated, derived columns agree with their rows, slugs
  do not creep.
- **Browsing.** Each page of a list is a request that filters, reads up to a
  limit, sorts in memory and cuts for itself; three places decide whether an
  event is over. Correct: pages fit together, the festival's events stay in its
  window, what the clean-up deletes is over everywhere.
- **Catalogue.** A cached list is filled with what was read some awaits ago;
  categories form a tree that any update may cut or close to a circle. Correct:
  the list is what the tables say, the tree shows exactly the complete chains,
  an approved category is assigned.
- **Accounts.** Guests, devices, links and terms are found, then written, mostly
  without a key of the database behind it. Correct: what no key keeps unique is,
  and pushes follow the last login until that user himself logs out.
- **Translations.** A limiter shared by waiters, failures and hand-overs; timers
  that a restart forgets; jobs for several texts of one field in any order.
  Correct: slots are neither lost nor doubled, subscribers get the translation
  of their text, a text that is asked for is translated in the end.
- **Deliveries.** A message to a city is paged by offset while users come and go;
  a row is created as PENDING and finished by another write; errors are swallowed
  or rethrown by kind. Correct: a bulk reaches each user once, the statuses are
  true, a cached Firebase app has its project's credentials.

- **RabbitMQ client.** `emit()` is not awaited, and all events of a service share
  one connection and channel that whoever finds them missing makes, and whoever
  fails throws away. Correct: events reach the exchange, no connection leaks.

`PROJECT.json` lists all components with their status and all hazards with the
properties that cover them.

## 2. Modules

| Module | Models | Composed of |
|---|---|---|
| `RedisLock` | the abstract lease both lock users rely on | |
| `Scheduler` | `apps/scheduler/src/modules/tasks/tasks.service.ts` | implements `RedisLock` |
| `Reminders` | reminders, favourites and account clean-up of `apps/core` (`core.service.ts`) | implements `RedisLock` |
| `AuthSessions` | tokens and sessions of one account, `apps/auth/.../auth.service.ts` | |
| `Registration` | `UsersService.register*`, `libs/saga`, `createUserCityAssignment` of core | |
| `Verification` | links of one user, `apps/notification/.../verification.service.ts` | |
| `EventClient` | publishing of events, `libs/rabbitmq/src/rmq-client-wrapper.ts` | |
| `Images` | the twelve image columns and the galleries: controllers of core, city and users, `libs/storage` | |
| `Listings` | `listings.service.ts`: create, update, submit, moderate | |
| `Browsing` | `listings.service.ts`: lists and favourites; `core.service.ts`: what is over | |
| `Catalogue` | `categories.service.ts`, `sub-services.service.ts`, `tiles.service.ts` and their cache | |
| `Accounts` | guests, devices, password reset and terms of the users service, `password-reset.service.ts` | |
| `Translations` | `libs/translations`, the scheduler's handler, the broadcast of tiles | |
| `Deliveries` | `apps/notification`: bulk, delivery, Firebase projects and their cache | |
| `MC*` | model values, symmetry and definitions for TLC | extend the above |
| `*Proofs` | theorems | extend the above and `TLAPS` |

`MCListings` puts `Browsing` beside `Listings`, and `MCVerification` puts
`EventClient` beside `Verification`: they share no state, a behaviour of the run
is of the one or of the other, chosen by the initial state. `Listings`,
`Catalogue` and `Accounts` have a variable `focus` for the same purpose: it
picks, at the start, the family of operations a behaviour is about, where
families touch no common column. `Images` picks a `kind` of image.

Every definition that stands for code is mapped to its lines in `PROJECT.json`.
Definitions whose comment begins with "Slip:" are not part of a specification:
each is a plausible mistake in the definition that follows it (or comes later),
and shows that a property would notice it. Variables marked "history" are not
state of the code: they record what a property remembers or excuses.

### RedisLock

`key` is what remains of the TTL (0: no key), `inside` the clients that believe
they hold the lock, `lease` those that really do. The key's value is the
constant `'1'`, so `Release` takes the key away from whoever has it and every
lease with it; `Abandon` is a crash, or a DEL whose error is swallowed;
`AcquireLost` is a SET whose reply was lost: the key is there and nobody is
inside. The specification does **not** promise mutual exclusion of `inside`;
what it promises is `LeaseSafe`.

### Scheduler

A runner is one invocation of `handleHourlyTasks` or `runById`; `pc` is where it
is. `AcquireLock`, `FetchDue`, `StartTask`/`EndLoop`, `ReleaseLock` are the cron
handler; `CreateRunLog`, `SendRequest`/`EmitExecute`, `Reply`/`ReplyError`/
`RequestTimeout`, `RecordSuccess`, `FinishLogOk`, `RecordFailure`,
`FinishLogFailed` are `executeTask`, with the failure of each call as an action
of its own that goes where the code's try blocks lead. `RunById`, `Create`,
`StartInstance`/`BackfillOne` are the other writers of `nextRun`. Time is
relative: `nextRun` is absent, null, due or future; `lock` and `deadline` count
down by `Tick`. `lease` and `moved` are history variables. The enabled flag is
constant, since no code of the service changes it.

### Reminders

A run is one request of the scheduler to `processFavoriteEventReminders`:
`Trigger`, `AcquireLock`/`LockBusy`, `FetchFavorites`, then per favourite
`NextFavorite`, `CheckPrefs` (with the cache of the run), `CheckReminder`
(findUnique), `CreateReminder` (or `CreateRejected` by the unique key or a
missing listing), `EmitNotification`; `Done`, `ReleaseLock`. Users add and
remove favourites, moderators hide and show listings, expired ones are deleted,
and a deleted account is cleaned up in two separate writes. `seen` is the clock
the run read at its start: windows are decided by it, not by the present.

### AuthSessions

One account, several clients each with one request at a time. `slots` are the
Redis keys (one per device and the legacy one without), `sessions` the device
columns of the session rows not revoked. Login, guest login, conversion and
refresh end in `StoreToken` and `StoreSession`; refresh reads the device's key,
then the legacy key, compares and loads the user; logout deletes one key, or
scans and deletes, then revokes rows; `RevokeAllSessions` and `RevokeSession`
are the other two endpoints. A token is its payload and the second it was
issued in, so that two of them may be the same string, as in the code.

### Registration

`Register` .. `EmitUserCreated` follow `register` and `registerWithCity`. The
saga document is read and written by each orchestrator call: `SaveSaga` may
lose the write, `NotFound` may miss the document, both silently. `message` is
the request to core and its reply; core may carry it out after the timeout.

### Verification

`status`, `used`, `expired`, `mailed` describe the tokens of one address, in the
order of their creation. `Send` is `USER_CREATED` or the send endpoint, `Resend`
the refused login or the resend endpoint with its look at the newest token
(`MayResend`);
both go on to `CancelPending`, `CreateToken`, `SendMail`. `ClickVerify` and
`ClickCancel` are the click and the read of the token, `MarkVerified`,
`ExpireToken` and `MarkCancelled` the write that was decided then.
`HandleVerified` is `markEmailAsVerified` of the users service. A click or
resend that is refused changes nothing and is no action. The branch for too
many attempts cannot be taken (attempts are counted only together with
`isUsed`) and is left out.

### EventClient

A call of `emit()` is at the await its `publishEvent` has reached (`emit[e].at`);
`eventConnection` and `eventChannel` are the two fields of the wrapper, a
channel being named by its connection. `PublishEvent`, `Connect`,
`CreateChannel`, `AssertExchange` are the way through `ensureEventChannel`, with
`EnsureFails` for its catch block; `Publish` and `Retry` write to the channel;
`Catch` and `Closed` are the two halves of the outer catch block, around its
await of `close()`. A connection breaks by `Break` (several at once when the
broker restarts) and confirms a close by `CloseOk`; both call the handlers of
the connections that have some. `disturbed` and `muddled` record what the code
gives no promise for: events that overlapped a failure, and set-ups that
overlapped or ended half way. Not modelled: the process that ends on an
unhandled `error` event before the handlers are attached, channel errors without
the loss of the connection, `send()`, and `onModuleDestroy`.

### Images

One column of one row, of the kind the behaviour has picked. An upload reads the
row (`Start`, one operator per handler), then deletes the old file, stores the
new one and writes the URL (`DeleteOld`, `StoreFile`, `WriteUrl`), in the order
of its handler; a deletion goes `RemoveFile`, `ClearUrl`; `DeleteTile`,
`DeleteCategory` and `ExpireListing` end the row. What a handler takes for the
key of the old file is `KeysDeleted`, which depends on whether the configured
endpoint puts the bucket into the path. A gallery is a set of rows with files
named after the millisecond and the place in the upload (`MediaKey`).

### Listings

`row` is what a listing's columns and related rows are, as far as the focus has
them: `review` (status, moderation status, `publishAt`), `slug`, `cities` or
`dates`. A create or update looks for a free slug in `CheckSlug`, one candidate
at a time, and writes in one transaction (`CreateListing`, `UpdateByUser`,
`UpdateByAdmin`), which may meet the unique key (`SlugConflict`).
`ModerateListing` writes the verdict after `ReadPublishAt` has read the date.
`SyncCities` and `SyncDates` derive the primary city and the event's dates as
the transaction does. A slug is the number appended to the base.

### Browsing

A walk asks for page after page of a `Query`; `ListListings` and
`GetUserFavorites` are one page each: `Matching` (the where clause with the
festival's `Bounds`), `Ordered` (in the database, or read up to `FetchLimit` and
sorted in memory by time or distance), `Skip`, `Slice`, `TotalPages`. `Change`
edits, adds and removes listings, `Tick` lets time pass. `FindExpired` and
`DeleteExpired` are the two halves of the clean-up; `IsListingExpired`,
`Priority` and `HasOccurrence` are the three places that decide what is over.

### Catalogue

`d` in the operators is the tables: categories with parent and flags,
assignments to the city with their requests, tiles and links. A reader tries the
cache (`GetCache`), reads (`ReadCategories`, or `ReadLinks` and `ReadTiles`) and
fills it (`SetCache`); a writer writes, then clears it (`ThenInvalidate`,
`InvalidateCache`) or, for the operations that do not, leaves it
(`LeaveCache`). `CityTree` and `TileList` are what the code makes of the rows;
the loop of `excludeCategoriesWithMissingParentInCity` ends with the largest set
that has the parents of its members (`WithoutOrphans`), and the tree is the least
one with the roots and all children (`Tree`).
`HandleCategoryRequest` and `AssignApproved` are the two writes of an approval.

### Accounts

Four families, by `focus`: guests (`CreateGuest`/`InsertGuest`,
`ConvertGuestToUser`/`WriteConversion`, soft deletion, restoring, erasure),
devices (`RegisterDevice` looks for the token, `FindByDeviceId` for the device,
then `ReuseRow`, `TransferRow` or `InsertRow`; the log-out `DeleteDevice` looks
for a row of the user who asks, `Deactivate` then switches it off by its id,
whoever has it by now), the password reset (the users
service's request and use of a link, the notification service's `CreateLink`,
and `MarkTokenAsUsed` by an event that may be late or lost), and the terms
(`Unmark`, then `WriteTerms`).

### Translations

One field of one entity. A reader (`ReadText`, `ShowText`) that finds no
translation, or an old one, publishes a job; `HandleAutoTranslate` takes it,
`Translate` asks DeepL inside the limiter, `RetryTranslate`, `RateLimited` and
`Requeue` are the ways on from a 429, `UpsertTranslation` stores the answer.
A broadcast goes through the locales by itself (`CheckLocale` .. `EmitBroadcast`)
with the limiter of the core service. `Release` hands the slot to the first
waiter. `RestartScheduler` loses timers and requests under way. The locale of
the source text is fixed; equal jobs in the queue are one; a job given up after
`MaxRequeues` needs two faults.

### Deliveries

A bulk (`StartBulk`, `FetchPage`, `SendToUser`, `EndPage`) pages through the
users, who join and leave, and makes for each a row and a message
(`Notify`). A handler takes a message (`HandleNotificationSend`), looks up the
Firebase app (`LookUpProject`, `Fill`), sends (`AskFcm`, `FcmAnswers`, or
`SendMail` with `RetryMail`) and writes the status (`UpdateNotificationStatus`).
The requests about Firebase projects write the row and replace the cached app
in a step of its own (`ClearCache`, `ReadProjects`, `CacheProjects`). A page and
its count are read as one; errors of look-ups in the database are not modelled;
a city matters only to a push.

## 3. Runs

| Run | Instance | What it shows |
|---|---|---|
| `scheduler` | 2 runners, 2 schedules (one enabled and run by request, one disabled with a bad cron expression), TTL 1, timeout 1, 3 triggers, 1 fault | `NoStaleStart`: no occurrence is started twice under the lock; `LogAccounting`: logs and `runCount` agree; `LockUse`: the runs refine `RedisLock`; `DueIsServed`: a due schedule is executed |
| `reminders_safety` | 2 runs, 2 users (one opted out), 1 listing, TTL 1, 3 triggers, 1 fault, 2 changes | `AtMostOnce`, `OptOutRespected`, `FinishedRunsServeAll` |
| `auth_safety` | 2 clients, 2 devices, one of them a guest's, 2 seconds, 2 faults or expired keys | `KeepsAccess`: no device costs another its token; `DeletedStaysDeleted` |
| `registration` | 2 requests with a city for one e-mail and one without, 2 faults | `RegisteredIsComplete` (also of the saga document), `FailureLeavesNoUser`, `EveryRequestAnswered` |
| `verification` | 2 requests, 4 tokens, 2 sends, 2 expiries, 1 cancellation, 1 fault; beside it 3 events published at once, 2 troubles | `OnlyRacingLinksCoexist`, `ServicesAgree`, `NeverStuck`; `EventsArePublished`, `OneConnection` |
| `images` | 3 requests at once, 4 in all, uploads of 2 files, 2 milliseconds, 1 fault | `NoBrokenImage`, `NothingLeftBehind` |
| `listings` | 2 requests at once, 4 in all, 3 listings, 2 cities; beside it walks over 3 listings of 8 kinds with 9 queries | `ApprovedWasSeen`, `ApprovedIsDated`, `DerivedColumnsAgree`, `SlugNeverGrows`; `WalkIsComplete`, `FestivalStaysInside`, `ShownIsKept` |
| `catalogue` | 2 requests at once, 3 in all, 3 categories or 2 tiles, 1 administrator, 1 fault | `CacheIsFresh`, `TreeShowsWholeChains`, `ApprovedIsAssigned` |
| `accounts` | 2 requests at once, 4 in all, 2 users, 2 phones with 2 push tokens each, 3 rows, 2 links, 2 versions, 1 fault | `OneOfEach`, `PushFollowsLogin`, `LinkWorksOnce` |
| `translations` | 2 texts, 2 locales (one asked for), 2 handlers with 1 slot, 1 reader, 1 broadcast, 1 retry, 1 requeue, 1 edit, 1 fault | `SlotsAreKept`, `BroadcastIsTranslated`, `EventuallyTranslated` |
| `deliveries` | 3 users, 2 of the city, pages of 2, 2 requests, 1 handler, 2 credentials, 2 attempts per mail, 4 rows, 5 budgets | `BulkReachesOnce`, `FailedReachedNobody`, `PendingIsUnderWay`, `AppsFollowCredentials` |

What each property says, and what it excuses, stands in the comment before it.
An excuse is a behaviour the code really has: two requests about the same thing
that overlapped, a call that failed, a message that was lost. The properties
then show that nothing else leads there. The type invariant of a module is the
first conjunct of one of its properties where no theorem states it.

One run shows that the code does not do what a comment of the repository says:

| Run | Statement | What happens |
|---|---|---|
| `catalogue_search` | `categories.controller.ts:398` "with optional search and pagination" | the key of the cached list (`categories.service.ts:846`) does not name the search term: the result of a search is cached as the city's list |

Further disagreements met while modelling, which the properties exclude by name
or which lie outside the models:

- *Scheduler.* `tasks.service.ts:301` "set nextRun to null": the update leaves
  the column alone, and a null counts as due; a bad expression runs at every
  occurrence.
- *Clean-up and reminders.* `core.service.ts:99`: a reminder run that read the
  favourites earlier creates a row after the clean-up of its user.
- *Sessions.* `auth.controller.ts:168`: revoking all sessions deletes only the
  legacy key (`auth.service.ts:865`); rows written by a login have no
  `deviceId`, by which a logout selects them (481).
- *Registration.* `users.service.ts:269`, `libs/saga/README.md:287`: the outer
  handler compensates nothing; `libs/saga/README.md:267`: an assignment core
  makes after the rollback is not removed.
- *Guests.* `auth.controller.ts:417`: a device whose guest was converted cannot
  have a guest again (`users.service.ts:884`, 1039).
- *Devices.* `users.service.ts:1435`: a log-out deactivates the row it found by
  its id alone; if another user registered on the phone in between (1304, 1352),
  it is his row that goes inactive, and his pushes stop though he never logged
  out, until he registers again (`cutOff`).
- *Images.* `storage.service.ts:293`: with the bucket in the host, the key cut
  out of a URL lacks its first segment, and old files stay.
- *Lists.* `(a.distance || Infinity)` (`listings.service.ts:2172`) puts a listing
  at distance 0 last; lists sorted by time re-read without an order, so that
  ties repeat or are skipped; a recurring event leaves the list after its first
  occurrence, though the clean-up keeps it; an event whose dates contradict its
  intervals, or that ends before it begins (nothing forbids it), is deleted while
  it is shown; favourites ignore the bounds of the
  festival (comment at 2007), and an empty list of its categories is cached for
  good (104).
- *Parking.* The cache key of `getParkingSpaces` (`core.service.ts:482`) does not
  name the order.
- *Deliveries.* `notification-message.controller.ts:127`, 144: "Throwing error
  causes NestJS to NACK" is not true of consumers without acknowledgement; a row
  says SENT after batches that failed, a single invalid token or a missing
  default project; `deactivateInvalidTokens` only logs; `findByCity`
  (`users.service.ts:400`) pages without an order; an app refreshed while another
  request reads the row may keep the older credentials
  (`notification.service.ts:344`).
- *Terms.* `acceptTerms` raises no error for another locale, though the
  description of its endpoint says so; `getAcceptanceStatus`
  (`terms.service.ts:441`) ignores the city.
- *Occurrences.* The fallback of `computeUpcomingOccurrences`
  (`core.service.ts:930` and on) is never reached: its caller skips listings
  without a start and passes no intervals. The hierarchy of cities is walked
  without a mark, so that a circle of parents would not end.

### Bounds

All unbounded behaviour is cut by named constants, which the modules declare
with the comment "bound". They are enough for the cases the properties are about:

- Two requests, runners or clients are what an overlap needs. Three would be
  needed for "a stale owner deletes its successor's key and a third gets in";
  slots are used again once they are idle, so that one of the two plays that
  part, and where there is a proof it covers any number. Images has three
  requests, so that one may overlap two that are alike; there are three events,
  because a third finds what two overlapping set-ups have left.
- `Tick` interleaves with everything: a lock expires before, during and after
  every step of its owner, though TTL and timeout are 1.
- One fault at any step shows each failure path. Registration, sessions and
  events have two: a saga write lost *and* a failing compensation, a failed call
  after a key has expired, a break while the client is set up after a failure.
- Three triggers and two changes let a favourite be added, reminded of, removed
  or its account deleted while two runs overlap, and a schedule be due again.
- Four tokens allow two links from a race, and two rounds of replacement; two
  seconds, milliseconds or credentials are enough for equal and different ones.
- Three categories make a chain, a gap in it and a circle. Three listings on pages
  of two (the largest size) make two pages, the second not full.
- Two texts and one edit make a job of an old text; one slot and two handlers
  make a waiter.
- The five budgets of `deliveries` (`MCBudgets`) are each enough for one question:
  a behaviour with everything at once is too large, and bulks, deliveries and
  projects touch each other only through messages and cached apps, which the
  budgets combine in pairs.

Symmetry is used in the safety runs, of sets whose members the specification
treats alike; never with a liveness property. Deadlock is checked for the scheduler, the
sessions and the translations. It is not where the system may really stop: when
all requests a bound allows are answered, and nothing is left to do.

### Fairness

- `Scheduler`: weak fairness of each runner's next step and of `AcquireLock`,
  because the cron library calls the handler every minute and Node.js resumes
  every awaited call; of `Tick`, because time passes. A request ends by a reply,
  an error or its timeout, so a runner never waits for ever. Nothing is assumed
  of manual triggers, start-ups, failures and crashes.
- `Registration`: weak fairness of each request's next step, which includes its
  timeout, but not of the core service: it may never answer. `EveryRequestAnswered`
  counts a crashed request as over.
- `Translations`: weak fairness of taking a job from the queue (the broker
  delivers) and of each task's next step (a call to DeepL ends). Nothing is
  assumed of readers, edits, timers lost in a restart and faults:
  `EventuallyTranslated` speaks of a text that requests keep asking for.

The other specifications are safety specifications and assume none.

## 4. Proofs

| Theorem | States |
|---|---|
| `RedisProofs!LeaseIsExclusive` | `LockSpec => []LeaseSafe` |
| `RedisProofs!RegistrationIsComplete`, `FailureLeavesNothing` | `RegisteredIsComplete`, `FailureLeavesNoUser` |
| `RedisProofs!CacheFollowsTables`, `TreesAreWhole`, `ApprovalsHold` | `CacheIsFresh`, `TreeShowsWholeChains`, `ApprovedIsAssigned` of `Catalogue` |
| `SchedulerProofs!TypeCorrect`, `LockSerialisesRuns`, `NoDoubleStart`, `LogsAreAccounted`, `RunsFollowLock` | `TypeOK`, `LeaseExclusive`, `NoStaleStart`, `LogAccounting`, `LockUse` (refinement of `RedisLock`) |
| `RemindersProofs!TypeCorrect`, `NoDoubleReminder`, `OptOutIsRespected`, `RunsServeAll`, `RunsFollowLock` | `TypeOK`, `AtMostOnce`, `OptOutRespected`, `FinishedRunsServeAll`, refinement of `RedisLock` |
| `AuthSessionsProofs!TypeCorrect`, `DeletedTokensStayDeleted`, `ClientsKeepAccess` | `TypeOK`, `DeletedStaysDeleted`, `KeepsAccess` |
| `AuthSessionsProofs!WhatExistsOnce`, `PushesFollow`, `LinksWorkOnce` | `OneOfEach`, `PushFollowsLogin`, `LinkWorksOnce` of `Accounts` |
| `VerificationProofs!TypeCorrect`, `NewLinkReplacesOld`, `ServicesDoAgree`, `NobodyIsStuck` | `TypeOK`, `OnlyRacingLinksCoexist`, `ServicesAgree`, `NeverStuck` |
| `VerificationProofs!EventsReachTheExchange`, `ConnectionIsOne` | `EventsArePublished`, `OneConnection` of `EventClient` |
| `ListingsProofs!TypeCorrect`, `ApprovalNeedsALook`, `ApprovalIsDated`, `DerivedColumnsFollow`, `SlugsDoNotClimb` | `TypeOK`, `ApprovedWasSeen`, `ApprovedIsDated`, `DerivedColumnsAgree`, `SlugNeverGrows` |
| `ListingsProofs!DeletedIsOver`, `FestivalIsKept`, `WalksShowAll` | `ShownIsKept`, `FestivalStaysInside`, `WalkIsComplete` of `Browsing` |
| `TranslationsProofs!LimiterIsExact`, `BroadcastsAreTranslated` | `SlotsAreKept`, `BroadcastIsTranslated` |
| `TranslationsProofs!ImagesAreWhole`, `NothingIsLeft` | `NoBrokenImage`, `NothingLeftBehind` of `Images` |
| `DeliveriesProofs!FailedIsNotReached`, `PendingEnds`, `AppsAreCurrent`, `BulksReachOnce` | `FailedReachedNobody`, `PendingIsUnderWay`, `AppsFollowCredentials`, `BulkReachesOnce` |

They assume what the modules' `ASSUME`s say: TTL and timeout are positive, the
special values are none of the ordinary ones, the bounds are naturals, what is
counted is finite (runners, workers, broadcasts and their locales, the users of a
bulk), a device has one client, the distance of a listing is an integer, and
listings, intervals and queries consist of the values their types allow. Otherwise sets of runners, schedules, users,
listings, categories, requests, clients, events and connections may be of any size.
The type theorems, and those about the lease of scheduler and reminders that no
run lists, are what the others rest on.

- *Types.* `TypeOK` is inductive because it relates `pc` to the variables that
  mean something there: a runner has a task exactly while it is in `executeTask`,
  a reminder run past its window check has a favourite in a window, a click has
  a token that exists. `Listings` needs `Control` beside it: what a request at
  each of its steps has found.
- *Lock.* `LeaseExclusive` is inductive together with `TypeOK`: acquiring needs
  `lock = 0`, and a lease needs `lock > 0`, so nobody had one; `ReleaseLock`
  takes every lease away, `Tick` does so when the key runs out.
- *NoDoubleStart.* What a runner starts was put on its list earlier, so the
  invariant speaks of the list: `SnapshotFresh` says that every schedule a run
  with a lease has still to start is due, or was written by somebody without
  the lock (`moved`). It is kept because a writer that owns the lock is, by
  `LeaseExclusive`, the run itself, and the schedule it has just written is
  off its list.
- *LogsAreAccounted.* The logs of a schedule are compared with the runners that
  execute it, a cardinality. One runner comes or goes at a time (`RunnerSets`),
  a log belongs to a runner that executes (`LogOwned`), and steps that neither
  change logs nor executing runners keep the account (`Quiet`), so that each
  action changes the account of one schedule by one on both sides.
- *NoDoubleReminder.* "Sent at most once" is not inductive: what forbids the
  second is the row. `RowFirst` says, for a user with an account, that what was
  sent or is about to be sent (a run at `emit`) has its row, that at most one
  run is about to send it, and none when it has been sent. `CreateReminder` is
  possible only without the row, and the row of an active account goes only
  with its listing, after which nobody creates it again.
- *OptOutIsRespected.* `OptOutInv` follows the answer on its way: what the cache of
  a run says, and whom the run goes on to serve, had the preference switched on
  unless a call has failed.
- *RunsServeAll.* About steps: `Done` is possible only with nothing left to serve,
  so the invariant (`ServeInv`) is that each reminder a run found due is still on
  its list or in its hands, or has its row, or has lost its listing or account.
- *Registration.* `OnItsWay` says for each place of a request what is there: a
  user row from its creation to the answer, an assignment before success is
  reported, and nobody but the request itself removes its row. `SagaFollows`
  relates what Redis holds to that place, although writes of it may be lost.
  `FailureLeavesNothing` needs `Undisturbed`: without a fault the saga document
  names the step to undo, and a request that will report a failure has no user.
- *Catalogue.* A reader that nobody overtook holds what the tables say now
  (`ReadersKnow`), so what it stores is fresh; a cached list that is not is owed to
  a write whose request still has to clear the cache, `map`ping a category that
  exists included (`StaleIsKnown`). Every writer has the form `WritesTables`,
  every other step of a request leaves the list alone. `TreeIsWhole` needs no
  behaviour: chain, tree and what is left without orphans are each a least or
  greatest set with a closure property, and the categories with whole chains
  have those properties, as has the part of a chain outside the tree.
- *Tokens.* `DeletedStaysDeleted` needs that a token in Redis is under the key of
  its own device (`KeyedByDevice`) and that a token about to be stored is not
  among the dead (`NewIsNotDead`): issuing makes a new one, and deleting a key
  kills what is stored, never what is under way. `KeepsAccess` needs `OwnTokens` (a
  client's requests hold tokens and keys of its own device), `Control` and
  `Access` (who has logged in and lost nothing finds its token).
- *Accounts.* Two requests about the same thing at once are recorded
  (`RacesAreKnown`), so that what one of them has found is still so when it
  writes, or is in `raced`. For devices, a row and a request belong to the phone of
  their push token and carry its device id if it always gave it (`RowFits`,
  `RequestFits`): a phone's row is then found by one or the other, and the row a
  request is about to take or to switch off is that of its own phone. A log-out
  that is alone still has the row of its own user, so that `LoginsHold` needs one
  exception: a phone in `cutOff`, whose row another user's log-out has switched
  off, and that it lies in `raced`. `LinkInv` says that a
  link that has worked is marked or its mark is on its way, `MailInv` and
  `TermsInv` that who is about to write has cleared the others first.
- *Links.* `NewLinkReplacesOld` needs that tokens are numbered without gaps and
  that what a request missed since its `CancelPending` is what is pending
  (`MissedArePending`): a token created then is recorded as raced with exactly
  those. `ServicesDoAgree` follows from the event being on its way whenever a
  token has been used. `NobodyIsStuck` needs `MailFollows`: unless a call failed,
  a pending link has been mailed or its request is about to do so.
- *Events.* `EventInv` says of each call which connection it holds and what the two
  fields may be while it does: fields are set only to connections that somebody
  has opened, a channel belongs to the connection before it, a failure disturbs
  what is under way (`FailuresDisturb`), and each write to the exchange is the
  call's first or was preceded by a full buffer (`WrittenOnce`).
- *Images.* While nothing has gone wrong (`Smooth`), requests about the column are
  alike: several only if they upload to one key (`Alike`). Who is about to write
  then finds its file in the store, or another is about to store it (`Written`);
  keys of a gallery's rows and of files that have no row yet all differ
  (`MediaInv`). For what is left behind, `KnowsImage` says that a request still
  knows the image it found, or it was replaced by one like the request, and that
  it is gone once deleted: the file of a URL that is overwritten is no more.
- *Listings.* The properties of rows speak of one listing each, so that a step is a
  step of one row (`OneRowReplaced`) or none (`RowsUntouched`); `DateReadHolds`
  says that the date a verdict has read is still there when it is written.
  `SlugNeverGrows` is about steps: a candidate below the listing's number is free
  or the update overlapped (`CandidateBelow`, `OverlapKnown`), with
  `UniqueSlugs` for the key of the database.
- *Lists.* What the clean-up found over (`OverInv`) was over then, and time only
  advances: all of such an event began and ended before the present
  (`OverIsPast`), so that neither the order of lists nor the occurrences count it
  in. This needs least and greatest members of finite sets of hours
  (`LeastExists`, `GreatestExists`). A walk that has shown something has looked up
  the festival's categories before (`WalkInv`), and from then on each page is part
  of an ordering of what matches bounds that were cut (`PageIsOfList`, `BoundsCut`).
  For `WalksShowAll` (`WalkFits`) a list sorted by keys that all differ is unique
  (`SortedOnce`, `ListStays`), so that each request of a quiet walk cuts its page
  from the same list (`PageShown`), and pages join without gap or overlap.
- *Translations.* `SlotInv` counts the tasks with a slot, again a cardinality, and
  says that the queue of waiters lists each once; `Release` hands the slot on
  without letting the count drop. `PhaseInv` ties the tasks of a broadcast to its
  phase, its text and their locales, `CopyInv` what they have translated to the
  row, and then to what the broadcast will send.
- *Deliveries.* `CarriedOnce` says of each notification that one message or one
  handler carries it, so that whoever writes its status is alone with it; a
  message is accepted only by the handler's own call, after which it goes on to
  write SENT. `PendingEnds` is inductive as it stands, given the types. For the
  apps, `Faithful` says that until somebody has raced, what anybody has read of a
  project is what its row says, no app is cached while its credentials are being
  replaced by an update, and a cached one is current or about to be cleared.
  For `BulksReachOnce`, `Fits` bounds what a bulk has collected by the pages it has
  read: who joins moves others to later pages, so that nobody is missed, and who
  leaves to earlier ones, so that nobody is listed twice (`JoinFits`, `LeaveFits`);
  serving takes from what is left and adds to what is done (`ServedFits`).
- *Refinement.* A step of scheduler or reminders maps to `Acquire`,
  `AcquireLost`, `Release`, `Abandon` (a crash or a failed DEL), `Expire`
  (`Tick`) or leaves the three variables alone. With `LeaseIsExclusive` this
  gives the lease's safety to both users.

Every safety invariant that a run checks is stated by one of these theorems. Only
model-checked, because fairness is out of the prover's reach, are the liveness
properties `DueIsServed`, `EveryRequestAnswered` and `EventuallyTranslated`.

## 5. Not modelled, and the plan

Left out for good:

- Most of the large services and nearly all of their controllers is reading:
  queries, the mapping of rows to answers, their translation, the documentation
  of endpoints. It has no state of its own. The lists whose order and pages are
  more than one query are in `Browsing`, what is cached in `Catalogue`.
- Roles, permissions and tenancy: decisions without a protocol, inputs of the
  models. The assignment of city administrators is one upsert and one call.
- Preferences and topics of a user, filters, tags, quick filters, acceptance of
  terms, templates, city, admin and terminal data: single-row reads and writes.
- Monitoring and health are imported by no application; configuration, i18n,
  errors, logging and metrics have no state that others depend on.
- Contracts and DTOs are declarations, scripts and seeds run once by hand.
- SMTP, FCM, DeepL, the object store, the broker and the database are external:
  modelled by what the code may see of them.

What is worth doing next:

1. `send()` of the RabbitMQ client, with one client per queue and replies that
   come after their timeout, composed with `Registration`.
2. A composition of `Scheduler` and `Reminders`: a run that finds the reminder
   lock busy reports success, so a success may stand for a window nobody served.
3. Exceptions of intervals and the counters of listings.

## 6. Running

    tlc -workers 2 -config Scheduler_all.cfg MCScheduler.tla
    tlapm SchedulerProofs.tla

The other configurations are `Reminders_safety.cfg`, `AuthSessions_safety.cfg`,
`Registration_all.cfg`, `Verification_all.cfg`, `Images_all.cfg`,
`Listings_all.cfg`, `Catalogue_all.cfg`, `Catalogue_search.cfg`,
`Accounts_all.cfg`, `Translations_all.cfg` and `Deliveries_all.cfg`, each for the
`MC` module of its name. A run takes from 14 seconds to two and a half minutes
with two workers. Run names, modules, configurations and the properties of each
are in `PROJECT.json`.
