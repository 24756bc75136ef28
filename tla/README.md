# A verification of the RBAC user API

TLA+ models of the server in `src/` (Express, GraphQL and Socket.IO over MongoDB,
with role-based access control and a persistent cron scheduler), TLC runs that check
them on small instances, and TLAPS proofs of the results that hold for every
instance. Paths below are relative to the repository, `US` is
`src/services/user.service.ts`.

    tlc -workers 2 -config MCCronConfigure.cfg MCCronScheduler     (one run)
    tlapm CronSchedulerProofs.tla                                  (one proof module)

`PROJECT.json` lists components, runs, hazards and theorems, the source lines every
definition models, and for each checked property a mutation of the model (the
operators marked `Mutant:`) under which TLC finds it violated.

## 1. The system

| Component | State | Operations | Interacts with |
|---|---|---|---|
| Role hierarchy and policy (`src/rbac`) | definitions, validated once at load | validate, expand, build abilities, `can` | every service |
| Access checks (`src/api/common/utils/auth.util.ts`, `src/security`, controllers, resolvers, `base.service.ts`) | the execution context of a call | middlewares, token, route guard, grant, ability check | policy; accounts, read anew for each token; errors |
| Errors and answers (`src/errors`, `src/guards`, the error middlewares of both transports) | none | throw, recognise, map to a status and a code | every call |
| User administration (`US`, `auth.service.ts`, `user.model.ts`, `scripts/`) | `users` collection with two unique indexes | register, create, role, status, profile, password, e-mail, username, delete | access checks, events, pictures |
| Pictures (`US`, `storage.service.ts`, `file.service.ts`, `prevent-delete.plugin.ts`) | accounts, `files` collection, files on disk | register, updatePicture, deletePicture, delete | user administration |
| Cron scheduler (`src/cron`, `cron-job.service.ts`, `server.ts`) | `cronjobs` collection; task map, reload chains and locks in memory | configure, reload, fire, start, shutdown | node-cron, server life cycle |
| Realtime (`src/api/socket.io`, `src/events`) | sockets, rooms, the bus, the bridge | connect, subscribe, unsubscribe, publish, shut down | accounts; events of the services |
| Event listeners (`src/listeners`) | subscriptions to the bus | subscribe, clean up | life cycle |
| Login throttling (the rate limiters of both transports) | a counter and a window per address | count, refuse, give back, block | logins |
| Payload limit (`payload.middleware.ts`) | bytes counted, the stream, the answer | patch, push, refuse, destroy | HTTP parser, body consumers |
| Paginated queries (`paginate-query.plugin.ts`) | none | filter, sort, page | `users` collection |
| Server and script life cycle (`server.ts`, `bootstrap.ts`, `env.config.ts`, `scripts/index.ts`) | phase, connections, signal handlers, exit code | start, serve, shut down, run a script | all of the above |
| Validation and mapping (`src/validation`, DTOs, GraphQL schemas) | none | decode, encode | every call |
| Tokens and passwords (`tokenizer.util.ts`, `hasher.util.ts`) | none | sign, verify, hash, compare | access checks |

Node runs one thread, so everything between two `await`s is one atomic step, and
everything that is awaited (MongoDB, the file system, node-cron) lets any other
request, handler, timer or signal in. No MongoDB transaction is used. That is where
the hard behaviour is:

* **User administration.** Actor and target are read, the ability is checked on those
  copies, uniqueness is looked up, and then `updateOne({ _id })` writes without any
  condition on what was read. Correct if races open no way around the policy, two
  accounts never share a contact, and the interleaved requests reach nothing that whole
  operations could not reach.
* **Cron.** Configure requests race through read, save and reload; reloads of a key are
  chained promises; while a task is replaced, both the old and the new one are live;
  a reload can fail, the shutdown can begin, the process can die at any `await`.
  Correct if a job runs once at a time, what is stored is what is scheduled, no task
  escapes, and nothing is scheduled after a shutdown.
* **Pictures.** Account, file document and file are changed one after another. Correct
  if no account refers to a missing document, nobody sees the picture of an account whose
  upload did not get the same millisecond, the shared default picture survives, and
  nothing is left behind.
* **Realtime.** A subscription awaits the database twice before it joins a room, and
  rooms are named by ids as they were written. Correct if the rooms follow the answers,
  closed sockets stay out, and events reach the right sockets once.
* **Policy, calls and answers.** The rules are data: a hierarchy, an expansion, scopes
  computed from the caller's role, route guards written by hand in two transports, and
  two hand-written mappings of errors. Correct if all of them say what the documented
  rule mapping says and the transports answer alike.
* **Limits.** The GraphQL limiter looks first and counts after the resolver has failed;
  the REST one counts first and gives back after the answer; the payload limit replaces
  `push` of a stream whose parser, consumer and application act on their own. Correct
  if the bounds hold under overlap, and nobody within them notices.
* **Life cycle.** A start fails half way, a signal arrives while connections, sockets and
  jobs are at work, a step of the shutdown rejects. Correct if work always finds its
  database and an end is clean.

## 2. Modules

| Module | Models | Remarks |
|---|---|---|
| `Rbac` | roles, rules, expansion, scopes, `can`, route roles, grants | pure operators |
| `RoleHierarchy` | `validateRoleDefinitions` with its recursive `visit`, `defineAbilityFor`'s refusal of rules it cannot build | the recursion is an explicit stack |
| `ErrorAnswers` | the errors of the program and of its libraries, both error mappings | pure operators |
| `AccessDecision` | one call: middlewares, token, guard, service, answer | extends `Rbac` and `ErrorAnswers` |
| `AccessControl` | the load of the policy, then the calls it serves | `AccessDecision` composed with an `INSTANCE` of `RoleHierarchy` |
| `UserAdministration` | concurrent requests on the `users` collection | one action per operation start, then `Load`, `LookUp`, `Store*` |
| `AccountRegistry` | what the collection promises: one atomic step per operation | abstract specification, implemented by `UserAdministration` |
| `CronScheduler` | requests, reload chains, node-cron, executor, process | one action per stretch between awaits |
| `JobService` | what the jobs promise to those who configure them: store, one look at the collection, in force, answer | abstract specification, implemented by `CronScheduler` |
| `PictureStore` | picture requests await by await | the account side is only existence and the picture reference |
| `Realtime` | sockets, gateway handlers, service calls, bus, shutdown | roles left out: the gateway asks for `USER`, which all roles include |
| `LoginThrottle` | the two login limiters for one address | independent counters, common ticks |
| `PayloadLimit` | one HTTP request under the payload limit | parser, consumer, application and client move independently |
| `ServerLifecycle` | environment, start, connections, jobs, signals, shutdown, scripts | the parts of the process as flags, their work as sets |
| `UserQuery` | filters, sort and pages of the user search | MongoDB's order among ties is nondeterministic |
| `MC*` | constants and symmetry sets of the runs | nothing else |
| `RbacTheorems`, `*Proofs` | proofs | section 6 |

**How actions correspond to code.**

`AccessDecision`: `Arrive` picks a call, `Reject` and `Throttle` are the middlewares in
front of it, `Identify` is the token's check with the look-up of its account, `Guard` the
route, `Authorize` the service with its ability, `Answer` the last middleware or
formatter. A registration or a login has no guard. `AccessControl` adds what precedes
all calls: the definitions are validated while `role-hierarchy.ts` is loaded, and a
program that refused them never serves.

`UserAdministration`: `Register`, `Create`, `UpdateRoleOf`, ... stand for a call up to its
first read of the target (the actor is authenticated by reading its account, as
`auth.util.ts` does); `Load` is `getUserByIdOrThrow` and `authorize`, which run in one
turn; `LookUp` is one availability query, for a password the comparison with the old one;
the `Store` actions are `create`, `updateOne` and `deleteOne` with the unique indexes.

`CronScheduler`: `Find`, `Save`, `Reload` are the awaits of `configure`; `queue[k]` is the
promise chain of a key; `BeginReload`, `ReadConfiguration`, `Started`, `StartFailed`,
`Destroyed` are the awaits of `applyConfiguration`, `worker[k]` the local variables held
between them. `Start` to `Listen` is `initialize()`; `Shutdown`, `DestroyTasks`,
`Stopped`, `Exit` are `gracefulShutdown`; `Crash` may happen anywhere. `version` is the
document's `_id` and `__v` in one number. `drift` is a history variable: a read failed,
a reload was refused, or somebody edited the collection since it was read.
The last part of the module is its view as a `JobService`: what the collection asks for
(`Asked`), the schedule a job has or will have when the application under way ends
(`Intended`), the one it had before (`Current`), whether its last attempt failed
(`Troubled`), how far each request has come (`Progress`) and the process
(`Availability`). `JobService` knows no documents, versions, chains, reads, tasks or
seeding: a call stores its change, the service takes what is stored in one step, and the
answer comes with the step that brings it in force, or with a failure.

`PictureStore`: each action is one await of `US` 72-143 or 270-339 and of the storage
service. A filename is a millisecond and an extension. `Write` takes any millisecond
(`Times`), also one that was used before: uploads overlap, `Date.now()` may repeat, and
the clock may be set back. A file it finds there is written over. `savers` is a history
variable: the accounts files were named for in each millisecond. A crash is not an action: it is a
request that takes no further step, which every reachable state allows (the pictures keep
no state in memory). `clean` is a history variable: so far requests followed each other
and none failed.

`Realtime`: `Authorize`, `LookUp` and the synchronous end `handleRoom` are the three
stretches of a gateway handler; `Connect` starts the handler of `$connect`, which joins
the self room; `StartCall`, `LoadTarget`, `Store`, `Publish` are those of a service call.
An id is an account and the text it is written in (`Id`): `idSchema` accepts upper-case
digits and changes nothing, MongoDB finds the account by any of the texts. Rooms, answers
and the events of updates and deletions carry the text of the client or the caller,
self rooms and the events of `create` and `findById` the program's own (`id`, `Named`).
`Authorize` may refuse at any time: a token that expired, an account that is disabled or
gone, and a database that does not answer come to the same.
`answers` is what a client was last told, `sent` what the last step sent.

`LoginThrottle`: `RestArrive` is `increment` and the comparison, `RestSucceed` the
decrement when the answer has been sent, `RestAbort` a client that closed first, after
which nothing is given back. `GraphqlArrive` is the look at the consumed points,
`GraphqlFail` the consumption after the resolver threw, with the block it imposes.
`Tick` ends windows; `tally` is the history the bounds speak of.

`PayloadLimit`: `Enter` is the middleware, `Push` and `PushEnd` the patched push,
`Resume` and `ReadEnd` the consumer, `AnswerBody` the application, `Sent` the end of an
answer with what hangs on it, `CloseBody` the client.

`ServerLifecycle`: `Load` to `Bind` are the awaits of `start()`, `Shutdown` the handler of
a signal, `StopCron` to `StopDatabase` those of `gracefulShutdown`, the `Abort` actions
the cleanup of a start that failed, `Run` and `CloseScript` a script. `Open`, `Request`,
`Answer`, `Upgrade`, `Close` are a connection, `Fire` and `Finish` a job.
`orphans` holds the handlers and executions nobody waits for any more.

`UserQuery`: `Fetch` is one call of `query` with the page the client asks for next;
`Register` another client's registration between two pages.

**Composition.** `AccessControl` composes the load of the policy and the calls;
`UserAdministration` uses the rules of `Rbac` and implements `AccountRegistry`;
`CronScheduler` implements `JobService`;
`ServerLifecycle` takes the scheduler, the sockets and the listeners as the parts they
are to the process, and `CronScheduler` and `Realtime` model the inside of two of them
with the shutdown that ends each. User administration, pictures and realtime look at the
same collection from three sides with different fields; a product of the three would
have no property that spans them, because each of their steps writes its own part of a
document, so they are kept apart.

## 3. Runs

| Run | Checks | Instance |
|---|---|---|
| `access_control` | `FailsFast`, `ExpansionIsClosure`, `ServicePolicy`, `RestGuardsAdmitThePolicy`, `OneCodePerError`, `StatusTellsHowFar` | every list of up to 3 definitions of 3 roles and a foreign name, every call |
| `users` | `AdministratorsAreFixed`, `AuthorityOutlivesTheCheck`, `Implements` | 3 accounts, 2 requests, e-mail and password, 2 names, all operations |
| `cron_configure` | `OneExecution`, `ImplementsService`, `NoOrphanTask`, `QuietAfterShutdown`, `AnswerIsStored`, `RequestsAnswered`, `ShutdownEnds` | 1 job, 2 requests, 2 schedules, 3 task identities, failures and crashes |
| `cron_edits` | `InForce`, `StartIgnoresBadDocuments` | 2 jobs, one without handler, direct edits, invalid schedules, failures |
| `picture_requests` | `NoDanglingPicture`, `DefaultIntact`, `OwnPicture`, `FilesFollowAccounts` | 2 accounts, 3 documents, 2 requests, 2 extensions, 2 milliseconds, 2 saved files |
| `realtime` | `WatchFollowsAnswer`, `OwnersAreReached`, `NoDuplicates`, `PrivateToOwner`, `WatchersNotified` | 1 socket, 2 handlers, 1 call, 2 accounts, 2 spellings of each id, 5 of 11 events |
| `login_throttle` | `GraphqlFailuresBounded`, `RestFailuresBounded`, `LockoutEnds` | 4 logins in flight, 2 points, a window of 2 ticks |
| `payload_limit` | `WithinLimitUntouched`, `TruncationIsAnswered`, `OversizedEnds` | a limit of 3 bytes, bodies of up to 6, chunks of up to 3 |
| `server` | `ConfigurationIsComplete`, `WorkHasItsDatabase`, `CleanEnd`, `ShutdownEnds` | every environment, server and script, 2 connections, 1 job, failing steps |
| `user_query` | `SelectsWhatIsAsked`, `SortIsAsked`, `PagesAreComplete` | 4 accounts, every filter combination, every sort string of up to 3 parts |
| `own_picture`, `user_managers` | one documented statement each, violated | section 5 |

The type invariants, and with them `Entitlement`, `UniqueContacts`, `HitsAccounted`,
`RefusalsJustified`, `OneAnswer`, `SocketsAreBridged` and `DeletionIsTrue`, are proved for
every instance (section 6) instead of being checked once more on a small one.

**Why the bounds are enough to see the hazards.**

* *Policy and calls.* The calls are exhaustive, not a sample. Three definitions suffice
  for a duplicate, a cycle through all roles, a diamond and an undefined or foreign
  inclusion.
* *Users.* A privilege race needs an actor, a target and somebody who changes one of them
  meanwhile: three accounts. Two requests put any two operations of `US` into each
  other's awaits; a duplicate contact involves two documents. Identifiers are never
  reused, as ObjectIds are not. The proofs remove both bounds.
* *Cron.* `MaxVersion` 2 lets both requests save, in either order, and one of them find a
  stale version. Three task identities are needed for a task in force, its successor and
  one whose execution outlives it; identities are reused afterwards. Keys share nothing
  but the process, so one key is enough for reloads, and two are used where the start
  applies them one after the other.
* *Pictures.* Two requests already interleave at every await; a third document is used by
  an account that changes its picture while the default one exists. `MaxSaves` 2 lets
  both accounts have a file of their own; the two milliseconds let the two files have
  names of their own, or one name, or one millisecond and two extensions.
* *Realtime.* Nothing couples two sockets. Two handlers overtake each other. The five
  events cover every branch of the delivery table: reader's, self only, watch only, and
  both, with the two that create and delete accounts. Two spellings of an id suffice for
  a room and an event that miss each other. The proofs cover any number of sockets,
  calls, spellings and events.
* *Logins.* Twice as many logins in flight as points, so that all points can be exceeded
  by logins that were let through together, and a window short enough that answers cross
  its end. `MaxRefusals` stops a window in which nothing but refusals happens.
* *Payload.* Bodies below, at, one byte beyond and far beyond the limit, whole and in
  chunks that meet it exactly or overshoot.
* *Server.* One connection may be a socket or busy while the other is idle; one job
  outlives or meets the deadline. `Faults` lets any step of a shutdown reject.
* *Queries.* Four accounts with ties in the creation time and in the role, pages of one,
  two and three, a limit beyond the maximum.

`CHECK_DEADLOCK FALSE` is set where the system may stop: calls are answered, identifiers,
versions and saves run out, and a server that has nothing to do or a process that
ended does nothing. `LoginThrottle` and `PayloadLimit` are checked for deadlock: an
address can always log in again or wait, a request always goes on until it is over.

**Symmetry** is used only in runs without liveness, over identifiers no definition tells
apart.

## 4. Fairness

Liveness is asked of three components, each under weak fairness of single actions.

* `cron_configure` assumes that requests in flight go on (`Serve`), that the application
  of a configuration does (`Advance`: MongoDB and node-cron answer), the start (`Boot`)
  and the shutdown (`Stop`: the deadline timer fires). Nothing makes a new request
  arrive. It assumes nothing of handlers: a job may never end, which is what the deadline
  is for. `ShutdownEnds` therefore says that `shutdown()` comes to its end, not that the
  process is gone. Note that the pending reloads are awaited before the deadline is
  computed (`scheduler.ts` 64): the bound of the shutdown rests on the database answering.
* `server` assumes that the promises of the start and of the shutdown settle (`StartStep`,
  `StopStep`), and that a connection that stays idle, or waits for an answer too long,
  meets a timeout of node's HTTP server (`CloseAs`). Nothing ends a connection that one
  request after the other keeps in use: `ShutdownEnds` names that as its alternative.
* `payload_limit` assumes that the middleware runs (`Enter`) and that what is written is
  handed to the connection (`Sent`); nothing of the client, the parser, the consumer or
  the application.

## 5. Where code and documents disagree

1. `own_picture`: `src/README.md` 585 lets `USER` delete its own picture; the GraphQL
   mutation asks for `ADMIN` (`user.resolver.ts` 194), the REST route for `USER`.
2. `user_managers`: `src/README.md` 586 lets `MANAGER` change the status of `USER`
   accounts; a target promoted between the read and the write is changed all the same
   (`US` 210). `AuthorityOutlivesTheCheck` shows that the two operations of `MANAGER` are
   the only ones for which this can happen, and `Entitlement` that even then the target
   is never an administrator.

Things the code does not promise, which the models show and no property asserts:

* of two first registrations without an upload one is refused, because both create the
  document of the default picture (`US` 94), whose filename is unique;
* two concurrent `updatePicture` calls of one account with different extensions rename the
  file in turn; the document may name a file that is gone;
* an upload whose extension has no mimetype fails after the file was written or renamed;
* a refused registration leaves the stored picture behind, a crash anywhere likewise;
* the look-up in `preventDelete` never decides anything in the picture requests, because
  the account is changed or deleted before its old picture is;
* two uploads in one millisecond with one extension write one file: the unique filename
  refuses the second document, and the first account shows the second one's picture; with
  two extensions both get their documents, and when one of them is later replaced by a
  picture with the other's extension, the rename puts it over the other account's file
  (`storage.service.ts` 82, 108). `OwnPicture` is therefore stated up to the accounts whose
  uploads got the same millisecond;
* an account's events do not reach every client that was answered `subscribed: true`: the
  watch room is named by the id as the client wrote it (`user-room.gateway.ts` 101), an
  event's room by the id as the caller of the service wrote it (`US` 201 and the other
  updates) or as the document has it (`US` 150, 165), and `idSchema` (`common.schemas.ts` 4)
  lets upper and lower case pass. A client that subscribed with an upper-case id misses
  every `user.read`, and every update whose caller spells the id otherwise; an account's own
  sockets miss updates whose caller wrote its id in upper case; and a client may watch its
  own account under such a text (85). `WatchersNotified` states what does hold: an event
  reaches whoever was told it is subscribed to the text the event carries;
* a socket keeps receiving events after its account was disabled or its token expired;
* updates publish their events also when a concurrent deletion left nothing to update,
  and an account deleted between look-up and join leaves a watch room nobody can leave;
* two concurrent password changes to the same password both pass the comparison;
* a duplicate key and the 4xx errors of libraries no guard recognises are answered 500;
* a step of the shutdown that rejects leaves the process alive with exit code 1 set, and
  executions begun during an `initialize()` that fails are not waited for;
* with ties in the sort, pages may repeat one account and miss another.

## 6. Proofs

Each theorem holds for every value of the constants that meets the named assumptions.

`RbacTheorems` (lemmas about the policy). The expansion of the hierarchy is computed
once (`HierarchyExpanded`); from it follow the rules and scopes of each role and the
facts the other proofs use: management rights reach only `USER` and `MANAGER` targets
(`ManagementIsDownward`), an `ADMIN` has them on all of those (`AdminManages`), and self
service belongs to the account itself or an `ADMIN` (`SelfServiceScope`).

`UserAdministrationProofs`, for any sets of users, requests, fields, names and
operations; assumptions: the unique fields are e-mail and username, `None` is no
identifier and no name.

* `TypeCorrect`: `TypeOK` is inductive with the conjunct `Coherent`.
* `ContactsStayUnique`: from `TypeOK`; only the store actions write, and each is guarded
  by the indexes.
* `EntitlementHolds`: `Entitlement` is the inductive strengthening behind the next three.
  It relates every request in flight to the collection as it is now. The key facts are
  that administrators persist (`AdministratorsPersist`) and that no account becomes one
  (`OthersStayBelow`), so that what `Load` established cannot be undone.
* `AdministratorsFixed`, `AuthorityOutlives`: the action properties, from `Entitlement`.
* `Implementation`: **every behaviour of the interleaved requests is one of
  `AccountRegistry`**, whose operations are atomic. The refinement mapping is the
  identity on the collection; a `Store` action maps to the operation it stores, because
  `Entitlement` says that what was checked on copies still holds of the documents, and
  every other action to a stutter.

`CronSchedulerProofs`, for any keys, catalog, schedules, task identities, requests,
inputs and versions, with or without faults and direct edits; assumptions: those named
in the module (`CatalogAssumption` to `InvalidAssumption`).

* `TypeCorrect`, `TasksStayHeld` and `ShutdownIsQuiet` from the invariant
  `IInv == TypeOK /\ Control /\ Empty /\ LiveTasks`. `Control` says what the chain of
  reloads holds: every reload in it is a waiting request of that key and occurs once
  (`Chain`), an application under way is that of the head of the chain, which a shutdown
  awaits (`Applying`), and a process that is not up serves nobody (`Unserved`). `Empty`
  says what a process before its start holds, and `LiveTasks` which tasks are live at
  every stage of an application. `NoOrphanTask` alone is not inductive: it says nothing
  of the time between the awaits.
* `JobsRunOnce` from `Locked`: an execution holds the lock of its key, across reloads.
* `ShutdownIsQuiet` also needs `Idle`: a shutdown that ended before its deadline has left
  no handler running.
* `AnswersAreStored`, under `~DirectChanges`: a request's copy that still has the
  collection's version is the collection's document (`CopiesByVersion`), so a save that
  passes the version check stores what it answers.
* `ConfigurationsInForce` from `Applied`, which says of every state between the awaits
  what a job is planned as: the schedule of the task being started, nothing if it is
  being removed, else that of the task the scheduler holds. This is what the collection
  wants, unless a reload that has still to read it is pending (`Steady`), or the start
  has still to apply the document it found (`Booting`). A save makes a reload pending;
  only a reload that has read the collection is no longer pending; and the chain keeps a
  reload pending behind another one.
* `BadDocumentsAreIgnored` from the same invariant: during the start no reload is at work.
* `ServiceImplemented`, under `~DirectChanges`: every step is one of `JobService` or shows
  nothing. It needs `Applied` (a service that opens has every job in force as stored) and
  `Proper`: what the collection holds, and what a request is about to save, can be
  scheduled, so no reload is refused for what it read. One lemma for every action gives
  its step: `Save` is `Store`; `ReadConfiguration` is `Take`, `AlreadySo` or `Lose`;
  `Started`, when it replaces nothing, and `Destroyed` are `Commit`; `StartFailed` is
  `Revert`; a `BeginReload` that comes after `shutdown()` began is `Skip`; `ApplyNext`,
  `Started` and `StartFailed` during the start are `Prepare`, `Prepared` and `Unprepared`.
  That `Closed` finds nothing on its way is what `shutdown()` awaits the reloads for. The
  lemmas before them say what of the view a step can change: that of the one job it works
  at (`OneJob`), that of one request (`RequestView`, `EndView`), or none (`ViewSame`).
  With direct edits it would be false, because an edit that nothing takes is no step of
  `JobService`, nor is a start that passes over a document it cannot schedule; `InForce`
  and `StartIgnoresBadDocuments` are what then remains, and need no such assumption.

`PictureStoreProofs`, for any sets of accounts, documents, extensions and requests;
assumptions: the number of saved files is bounded by a natural number
(`SavesAssumption`), `None` is no identifier, no extension, no millisecond and no
operation (`NoneAssumption`), and the content of the default picture is no account's
(`ContentAssumption`). Nothing is assumed of the milliseconds files get.

* `TypeCorrect`, `PicturesExist` and `DefaultStays` from one invariant `IInv`.
  `NoDanglingPicture` alone is not inductive: a request deletes a document it read long
  before, and another may assign the same one meanwhile. `Shape` says what a request
  holds at each await, above all that it renames or deletes only under a name other than
  the default one; `Refers` ties that name to the document as it is now; `Fresh` says that
  a document about to be assigned is the default one or known to no other request and no
  account; `Unused` that a document about to be erased is nobody's picture.
* `PicturesStayOwn` from `Owned`: a file may be that of any account a file of its
  millisecond was named for (`Belongs`), which renaming does not change; everything a
  request writes, renames or assigns, and every picture of an account, bears a
  millisecond that was used for that account, and what is on disk under it was written
  for one of the accounts it was used for.
* These four use nothing of what a request finds on disk or of how it ends, so they cover
  every failure and crash the model has.
* `PicturesAgree`: `FilesFollowAccounts`, from `Orderly`. As long as `clean` holds, at most
  one request is under way, and `Fits` says how far it has come: every picture is on disk
  but the one being overwritten (`Shown`), every document is a picture but the one about
  to be assigned or deleted (`Kept`), every file has its document but the one just written
  or about to be unlinked (`Documented`), what the request read or checked is still so
  (`Current`, `Lasting`), and no two documents share a name (`Distinct`). A file written
  or renamed over another account's is still there, so nothing more has to be known of
  milliseconds.

`RealtimeProofs`, for any accounts, spellings, sockets, handlers, calls and events;
assumptions: the events are some of those the bridge listens to (`EventsAssumption`), the
program's spelling is one of the spellings (`SpellingAssumption`), `None` is no identifier
(`NoneAssumption`). One invariant: `TypeOK`, `WatchFollowsAnswer` and `OwnersAreReached`
with `Owned` (a self room holds its owner's sockets, the watch room of an id in the
program's spelling other people's, a closed socket was told nothing),
`Handling` (what a handler still knows after its awaits), `Calling` (a deletion about to
be announced is a fact) and `Bridged` (sockets and bridge end together). From it follow
`WatchesFollow` and `OwnersReached`, and, because a publication is what the members of
the rooms get at that moment, the action properties `NoneTwice`, `OwnersOnly`,
`WatchersAreNotified` and `DeletionsAreTrue`.

`ServerProofs`, three components without a common state.

* Login throttling, for any limit, window and finite set of logins in flight.
  `GraphqlInv` bounds the consumed points by the logins that passed the look, in flight
  or counted, and relates the age of an entry to the block; `RestInv` says what the REST
  counter stands for, up to the successes of earlier windows (`HitsAccounted`). From them
  `GraphqlBound`, `RestBound`, `LockoutIsBounded` and `RefusalIsJustified`.
* The payload limit, for any limit and any bodies. `LimitInv`: the stream has everything
  until the flag is set, the flag is set by a byte too many and never without an answer,
  413 answers nothing else. From it `LimitIsExact`, `TruncationAnswered`, `AnswersOnce`.
* The life cycle, for any connections and jobs. `Held` lists what the process holds in
  each phase; it is inductive with `ConfigurationIsComplete`, which `AcceptedIsBuilt`
  reduces to a comparison of the environment's two readers. From it `WorkKeepsDatabase`,
  `SocketsKeepBridge` and `EndsAreClean`.

`AccessControlProofs`, for lists of definitions of any length and every call; assumptions:
the foreign name is no role (`ForeignAssumption`), the length has a bound.

* `LoadFailsFast` and `ExpansionCloses` from `Search`, the invariant of the depth-first
  search of `validateCycles`: what the validations in front of it established
  (`Validated`); the activations of `visit()` form a path of inclusions, and what an
  activation has been through is visited (`Activations`); a visited role leads to visited
  roles only, is on no cycle and has an expansion (`Explored`); and the outcome tells
  whether there is a cycle (`Outcome`). What `expandRole` computes would need an
  induction along the hierarchy, which the provers cannot do; `Explored` carries it
  instead: a role is marked visited after everything it includes has been, so the
  expansion of one more role follows from those of the roles it includes. That a role
  leads to another (`Reaches`) is said by the sets closed under inclusion, which needs
  no induction either.
* `PolicyIsDocumented`, `RestRoutesAdmit`, `OneCode` and `StatusTells` from `Serving` (the
  hierarchy in use is the accepted one) and `Progress`, which says how far a call has come
  at each step, what it must have passed to get there, and what its answer was made from.
  The policy itself enters by the lemmas of `RbacTheorems`.

`UserQueryProofs`, for any documents, queries and limits and for sort strings of any
length; assumptions: finitely many documents with a value in every field a sort can use
(`DocumentsAssumption`), queries are those the codec lets through (`QueriesAssumption`),
a page has at least one place (`LimitAssumption`), `None` is no value (`NoneAssumption`).

* `SelectionIsAsked`: `CollectedFields` says which query fields the plugin collects,
  `FieldsByName` which document field each is matched with.
* `TheSortIsAsked`: the sort object is built part by part (`sortObj`), and `SortAfter`
  says what it is after any number of parts. That it holds after each is an induction,
  done by the least number of parts for which it would not (`LeastExists`).
* `PagesComplete` from three invariants of a client that walks through the pages. `Walk`:
  they are fetched one after the other and none is too large; `Covered`: a document of
  the start that the query selects has been seen or ranks at or behind the next page;
  `Ranked`: while nobody registers, the m-th document of the n-th page is the one of that
  rank. A registration only raises ranks (`RankGrows`), so nothing slips to a page already
  seen; that a document's place in the sorted list is its rank (`PlaceIsRank`) is where
  a sort without ties is needed.

**Only model-checked.** Liveness: `RequestsAnswered`, the two `ShutdownEnds` and
`OversizedEnds`, which need fairness and with it ENABLED, beyond this prover. Every
other property of a passing run is stated by a theorem.

## 7. Not modelled

* The general rate limiter: one atomic counter of its library, looked at and counted in
  one call.
* The handlers of the event listeners: placeholders that do nothing.
* Validation, mapping, configuration values beyond what decides whether the program can
  start, logging: formats and wording. The models take decoded input; a refused input is
  an error like any other. Wildcards, lists and operator filters of the query plugin are
  left out because no codec lets them through.
* The cryptography of tokens and passwords, which belongs to external libraries. What a
  token's check can end in, and the comparison of a new password with the old one, are
  modelled.
* The deny effect of rules, which no definition uses.

## 8. Plan

Done, in order of importance: policy and access checks; user administration with its
proofs and the registry it implements; cron scheduler with its proofs and the service it
implements; pictures; realtime; the limits; the life cycle; queries. Every invariant and
every action property of a passing run is proved.

Next:

1. An abstract specification of the pictures (an account has the default picture or one
   of a millisecond that was used for it) that `PictureStore` implements while requests
   follow each other.
2. The general limiter, should its counter ever be shared between processes.
