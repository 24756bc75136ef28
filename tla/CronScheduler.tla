---------------------------- MODULE CronScheduler ----------------------------
(***************************************************************************)
(* The persistent cron scheduler of one server process: requests that      *)
(* configure a job and reload it, the chain of reloads of every key, the   *)
(* tasks handed to node-cron, the executions they trigger, the start, the  *)
(* graceful shutdown and the crash of the process.                         *)
(*                                                                         *)
(* Sources: src/cron/scheduler.ts, src/cron/executor.ts,                   *)
(* src/services/cron-job.service.ts, src/server.ts.  node-cron is external *)
(* and modelled from its use: a started task fires at any time until it is *)
(* destroyed, but not while its own execution is running (noOverlap).      *)
(*                                                                         *)
(* Expression and timezone are one value, the schedule; Invalid stands for *)
(* the values cronJobScheduleSchema refuses.  The _id and __v of a         *)
(* document are one number, its version, never used twice for a key.       *)
(***************************************************************************)
EXTENDS Naturals, Sequences, FiniteSets

CONSTANTS Keys,          \* the members of CronJobKey
          Catalog,       \* the keys with a registered handler
          Schedules,     \* valid schedules
          Default,       \* the default schedule of the catalog
          TaskIds,       \* identities of node-cron tasks of a key, reused
          Requests,      \* configure requests in flight
          Inputs,        \* what a request may set
          MaxVersion,    \* bound on the versions of one document
          DirectChanges, \* TRUE if somebody edits the collection directly
          Faults,        \* TRUE if reads and task starts can fail
          None,          \* no value
          Invalid        \* a schedule the schema refuses

\* The fields a configure request sets; None for an omitted one.
Input == [enabled: BOOLEAN \cup {None}, schedule: Schedules \cup {None}]

ASSUME CatalogAssumption == Catalog \subseteq Keys
ASSUME DefaultAssumption == Default \in Schedules
ASSUME InputAssumption == Inputs \subseteq Input
ASSUME VersionAssumption == MaxVersion \in Nat
ASSUME BooleanAssumption == DirectChanges \in BOOLEAN /\ Faults \in BOOLEAN
ASSUME NoneAssumption == None \notin TaskIds \cup Schedules \cup Keys \cup BOOLEAN
ASSUME InvalidAssumption == Invalid \notin Schedules \cup {None}

VARIABLES config,    \* the cron job collection, by key
          phase,     \* of the process, see Phase
          boot,      \* the configurations initialize() has still to apply
          awaited,   \* the reloads shutdown() waits for
          expired,   \* the shutdown deadline passed
          tasks,     \* CronScheduler.tasks
          live,      \* node-cron: the started tasks of each key
          queue,     \* the reloads of a key not settled yet, oldest first
          worker,    \* the application of a configuration under way for a key
          running,   \* CronJobExecutor.running, by the task that triggered it
          executions,\* the handlers running, by the task that triggered them
          requests,  \* what each configure request holds
          drift      \* history: the collection was edited, or a reload failed,
                     \* since the configuration in force was read

process == <<phase, boot, awaited, expired>>
scheduler == <<tasks, live, queue, worker>>
executor == <<running, executions>>
vars == <<config, process, scheduler, executor, requests, drift>>

\* up: CronScheduler.initialized.  drain, stop and stopped are the awaits of
\* shutdown(): the pending reloads, the active executions, the rest of the server.
Phase == {"down", "find", "apply", "abort", "up", "drain", "stop", "stopped"}

Version == 0..MaxVersion
Config == [exists: BOOLEAN, enabled: BOOLEAN,
           schedule: Schedules \cup {Invalid, None}, version: Version]
Absent == [exists |-> FALSE, enabled |-> FALSE, schedule |-> None, version |-> 0]

Task == [id: TaskIds, schedule: Schedules]
NoTask == [id |-> None, schedule |-> None]

Worker == [stage: {"idle", "read", "start", "replace", "remove"},
           task: Task \cup {NoTask}]
IdleWorker == [stage |-> "idle", task |-> NoTask]

Request == [pc: {"idle", "find", "save", "saved", "wait"}, key: Keys \cup {None},
            input: Input, copy: Config]
NoInput == [enabled |-> None, schedule |-> None]
IdleRequest == [pc |-> "idle", key |-> None, input |-> NoInput, copy |-> Absent]

Init ==
    /\ config = [k \in Keys |-> Absent]
    /\ drift = [k \in Keys |-> FALSE]
    /\ phase = "down"
    /\ boot = [k \in Keys |-> Absent]
    /\ awaited = {}
    /\ expired = FALSE
    /\ tasks = [k \in Keys |-> NoTask]
    /\ live = [k \in Keys |-> {}]
    /\ queue = [k \in Keys |-> <<>>]
    /\ worker = [k \in Keys |-> IdleWorker]
    /\ running = [k \in Keys |-> None]
    /\ executions = [k \in Keys |-> {}]
    /\ requests = [r \in Requests |-> IdleRequest]

\* The process is gone, with everything it held in memory.
Lost ==
    /\ phase' = "down"
    /\ boot' = [k \in Keys |-> Absent]
    /\ awaited' = {}
    /\ expired' = FALSE
    /\ tasks' = [k \in Keys |-> NoTask]
    /\ live' = [k \in Keys |-> {}]
    /\ queue' = [k \in Keys |-> <<>>]
    /\ worker' = [k \in Keys |-> IdleWorker]
    /\ running' = [k \in Keys |-> None]
    /\ executions' = [k \in Keys |-> {}]
    /\ requests' = [r \in Requests |-> IdleRequest]
    /\ UNCHANGED <<config, drift>>

Update(r, request) == requests' = [requests EXCEPT ![r] = request]

-----------------------------------------------------------------------------
(* Configure requests: CronJobService.configure                            *)

\* The server accepts requests while it listens; one accepted goes on while
\* the process shuts down.
Configure(r) ==
    /\ phase = "up"
    /\ requests[r].pc = "idle"
    /\ \E k \in Keys, input \in Inputs :
         Update(r, [pc |-> "find", key |-> k, input |-> input, copy |-> Absent])
    /\ UNCHANGED <<config, process, scheduler, executor, drift>>

\* findOrBuildConfiguration; the input is set on the document in memory.
Find(r) ==
    LET request == requests[r] IN
    /\ request.pc = "find"
    /\ IF config[request.key].exists \/ request.key \in Catalog
       THEN Update(r, [request EXCEPT !.pc = "save", !.copy = config[request.key]])
       ELSE Update(r, IdleRequest)
    /\ UNCHANGED <<config, process, scheduler, executor, drift>>

Seeded(version) ==
    [exists |-> TRUE, enabled |-> FALSE, schedule |-> Default, version |-> version]

Choose(field, otherwise) == IF field = None THEN otherwise ELSE field

\* The document in memory, which is also the answer: the input over what was
\* read, or over the defaults of the catalog.
Desired(request) ==
    LET base == IF request.copy.exists THEN request.copy
                ELSE Seeded(request.copy.version)
    IN  [base EXCEPT !.enabled = Choose(request.input.enabled, @),
                     !.schedule = Choose(request.input.schedule, @),
                     !.version = @ + 1]

\* What save() leaves in the collection: a new document is written whole, of an
\* existing one the paths set() changed.
Stored(request) ==
    LET desired == Desired(request)
        stored == config[request.key]
    IN  IF ~request.copy.exists
        THEN [desired EXCEPT !.version = stored.version + 1]
        ELSE [desired EXCEPT
                !.enabled = IF @ = request.copy.enabled THEN stored.enabled ELSE @,
                !.schedule = IF @ = request.copy.schedule THEN stored.schedule ELSE @]

\* Mutant: increment() is not called, so a save does not look at the version.
SaveSucceedsAnyVersion(request) ==
    IF request.copy.exists THEN config[request.key].exists ELSE ~config[request.key].exists

\* A save must find the version it read, which increment() put in its filter; an
\* insert must find the unique key free.
SaveSucceeds(request) ==
    LET stored == config[request.key] IN
    IF request.copy.exists
    THEN stored.exists /\ stored.version = request.copy.version
    ELSE ~stored.exists

\* configuration.save(): a conflict fails the request.
Save(r) ==
    LET request == requests[r] IN
    /\ request.pc = "save"
    /\ IF SaveSucceeds(request) /\ Stored(request).version \in Version
       THEN /\ config' = [config EXCEPT ![request.key] = Stored(request)]
            /\ Update(r, [request EXCEPT !.pc = "saved"])
       ELSE Update(r, IdleRequest) /\ UNCHANGED config
    /\ UNCHANGED <<process, scheduler, executor, drift>>

\* Mutant: a reload that finds one pending shares its outcome.
ReloadShared(r) ==
    LET request == requests[r] IN
    /\ request.pc = "saved"
    /\ IF queue[request.key] # <<>>
       THEN Update(r, IdleRequest) /\ UNCHANGED queue
       ELSE /\ Update(r, [request EXCEPT !.pc = "wait"])
            /\ queue' = [queue EXCEPT ![request.key] = <<r>>]
    /\ UNCHANGED <<config, process, tasks, live, worker, executor, drift>>

\* reload(): the reload is chained behind the pending one of its key.
Reload(r) ==
    LET request == requests[r] IN
    /\ request.pc = "saved"
    /\ queue' = [queue EXCEPT ![request.key] = Append(@, r)]
    /\ Update(r, [request EXCEPT !.pc = "wait"])
    /\ UNCHANGED <<config, process, tasks, live, worker, executor, drift>>

-----------------------------------------------------------------------------
(* Applying a configuration                                                *)

Work(k, stage, task) ==
    worker' = [worker EXCEPT ![k] = [stage |-> stage, task |-> task]]

\* The next await of the application of k.
Proceed(k, stage, task) ==
    Work(k, stage, task) /\ UNCHANGED <<process, queue, requests>>

\* The application of k ends.  In initialize() the next configuration is applied,
\* unless this one failed; a reload settles and its request is answered.
End(k, ok) ==
    /\ Work(k, "idle", NoTask)
    /\ IF phase = "apply"
       THEN /\ boot' = [boot EXCEPT ![k] = Absent]
            /\ phase' = IF ok THEN "apply" ELSE "abort"
            /\ UNCHANGED <<queue, awaited, requests>>
       ELSE /\ queue' = [queue EXCEPT ![k] = Tail(@)]
            /\ awaited' = awaited \ {Head(queue[k])}
            /\ Update(Head(queue[k]), IdleRequest)
            /\ UNCHANGED <<phase, boot>>
    /\ UNCHANGED expired

FreshId(k) == TaskIds \ (executions[k] \cup {task.id : task \in live[k]})

\* The configuration can be scheduled: it has a handler and a valid schedule.
Usable(k, c) == k \in Catalog /\ c.schedule \in Schedules

\* Mutant: a configuration that cannot be used fails the start, too.
ApplyStrictly(k, c) ==
    \/ ~c.enabled /\ tasks[k] = NoTask /\ End(k, TRUE)
    \/ ~c.enabled /\ tasks[k] # NoTask /\ Proceed(k, "remove", tasks[k])
    \/ c.enabled /\ ~Usable(k, c) /\ End(k, FALSE)
    \/ /\ c.enabled /\ Usable(k, c)
       /\ \E id \in FreshId(k) :
            Proceed(k, "start", [id |-> id, schedule |-> c.schedule])

\* applyConfiguration and removeTask up to their first await.  throwOnInvalid is
\* TRUE for a reload: initialize() ignores a configuration it cannot use.
Apply(k, c) ==
    \/ /\ ~c.enabled /\ tasks[k] = NoTask
       /\ End(k, TRUE)
    \/ /\ ~c.enabled /\ tasks[k] # NoTask
       /\ Proceed(k, "remove", tasks[k])
    \/ /\ c.enabled /\ ~Usable(k, c)
       /\ End(k, phase = "apply")
    \/ /\ c.enabled /\ Usable(k, c)
       /\ \E id \in FreshId(k) :
            Proceed(k, "start", [id |-> id, schedule |-> c.schedule])

\* A configuration that is enabled but unusable fails its reload.
Refused(k, c) == c.enabled /\ ~Usable(k, c)

\* Mutant: a reload waits for a scheduler that is initialized.
BeginReloadUp(k) ==
    /\ queue[k] # <<>> /\ worker[k].stage = "idle" /\ phase = "up"
    /\ Proceed(k, "read", NoTask)
    /\ UNCHANGED <<config, tasks, live, executor, drift>>

\* reloadConfiguration begins when the previous reload of the key has settled, in
\* whichever way; it does nothing once shutdown() has begun.
BeginReload(k) ==
    /\ queue[k] # <<>> /\ worker[k].stage = "idle"
    /\ IF phase = "up" THEN Proceed(k, "read", NoTask) ELSE End(k, TRUE)
    /\ UNCHANGED <<config, tasks, live, executor, drift>>

\* Mutant: the task of a document that is gone is left alone.
ReadExisting(k) ==
    /\ worker[k].stage = "read"
    /\ \/ /\ IF config[k].exists THEN Apply(k, config[k]) ELSE End(k, TRUE)
          /\ drift' = [drift EXCEPT ![k] = Refused(k, config[k])]
       \/ /\ Faults
          /\ End(k, FALSE)
          /\ drift' = [drift EXCEPT ![k] = TRUE]
    /\ UNCHANGED <<config, tasks, live, executor>>

\* CronJob.findOne({ key }) answers, and the configuration is applied.
ReadConfiguration(k) ==
    /\ worker[k].stage = "read"
    /\ \/ /\ Apply(k, config[k])
          /\ drift' = [drift EXCEPT ![k] = Refused(k, config[k])]
       \/ /\ Faults
          /\ End(k, FALSE)
          /\ drift' = [drift EXCEPT ![k] = TRUE]
    /\ UNCHANGED <<config, tasks, live, executor>>

\* Mutant: the previous task is not destroyed.
StartedBeside(k) ==
    /\ worker[k].stage = "start"
    /\ live' = [live EXCEPT ![k] = @ \cup {worker[k].task}]
    /\ tasks' = [tasks EXCEPT ![k] = worker[k].task]
    /\ End(k, TRUE)
    /\ UNCHANGED <<config, executor, drift>>

\* task.start() resolves: the new task is in force, a previous one is destroyed.
Started(k) ==
    LET task == worker[k].task IN
    /\ worker[k].stage = "start"
    /\ live' = [live EXCEPT ![k] = @ \cup {task}]
    /\ tasks' = [tasks EXCEPT ![k] = task]
    /\ IF tasks[k] = NoTask
       THEN End(k, TRUE)
       ELSE Proceed(k, "replace", tasks[k])
    /\ UNCHANGED <<config, executor, drift>>

\* task.start() rejects: the task is destroyed and the previous one stays.
StartFailed(k) ==
    /\ Faults
    /\ worker[k].stage = "start"
    /\ End(k, FALSE)
    /\ drift' = [drift EXCEPT ![k] = TRUE]
    /\ UNCHANGED <<config, tasks, live, executor>>

\* destroy() of the replaced or of the removed task resolves.
Destroyed(k) ==
    /\ worker[k].stage \in {"replace", "remove"}
    /\ live' = [live EXCEPT ![k] = @ \ {worker[k].task}]
    /\ tasks' = IF worker[k].stage = "remove"
                THEN [tasks EXCEPT ![k] = NoTask] ELSE tasks
    /\ End(k, TRUE)
    /\ UNCHANGED <<config, executor, drift>>

-----------------------------------------------------------------------------
(* Executions: CronJobExecutor                                             *)

\* Mutant: the executor relies on noOverlap alone.
FireUnlocked(k) ==
    /\ \E task \in live[k] :
         /\ task.id \notin executions[k]
         /\ running' = [running EXCEPT ![k] = task.id]
         /\ executions' = [executions EXCEPT ![k] = @ \cup {task.id}]
    /\ UNCHANGED <<config, process, scheduler, requests, drift>>

\* A live task fires.  The handler runs unless the key is locked: the look at
\* the lock and its setting are one synchronous step.
Fire(k) ==
    /\ running[k] = None
    /\ \E task \in live[k] :
         /\ task.id \notin executions[k]
         /\ running' = [running EXCEPT ![k] = task.id]
         /\ executions' = [executions EXCEPT ![k] = @ \cup {task.id}]
    /\ UNCHANGED <<config, process, scheduler, requests, drift>>

\* A handler ends or throws; the lock is released if it is still its own.
EndRun(k) ==
    /\ \E id \in executions[k] :
         /\ executions' = [executions EXCEPT ![k] = @ \ {id}]
         /\ running' = IF running[k] = id THEN [running EXCEPT ![k] = None] ELSE running
    /\ UNCHANGED <<config, process, scheduler, requests, drift>>

-----------------------------------------------------------------------------
(* The life of the process                                                 *)

\* The start, up to the seeding of the configurations the collection lacks.
Start ==
    /\ phase = "down"
    /\ config' = [k \in Keys |->
         IF config[k].exists \/ k \notin Catalog THEN config[k]
         ELSE Seeded(config[k].version)]
    /\ phase' = "find"
    /\ UNCHANGED <<boot, awaited, expired, scheduler, executor, requests, drift>>

\* CronJob.find(): the documents to apply, one after the other.
FindAll ==
    /\ phase = "find"
    /\ boot' = config
    /\ drift' = [k \in Keys |-> FALSE]
    /\ phase' = "apply"
    /\ UNCHANGED <<config, awaited, expired, scheduler, executor, requests>>

ApplyNext(k) ==
    /\ phase = "apply"
    /\ \A j \in Keys : worker[j].stage = "idle"
    /\ boot[k].exists
    /\ Apply(k, boot[k])
    /\ UNCHANGED <<config, tasks, live, executor, drift>>

\* initialize() and listen() are through.
Listen ==
    /\ phase = "apply"
    /\ \A k \in Keys : ~boot[k].exists /\ worker[k].stage = "idle"
    /\ phase' = "up"
    /\ boot' = [k \in Keys |-> Absent]
    /\ UNCHANGED <<config, awaited, expired, scheduler, executor, requests, drift>>

\* SIGINT or SIGTERM, or listen() failed.
Shutdown ==
    /\ phase = "up"
    /\ phase' = "drain"
    /\ awaited' = {r \in Requests : requests[r].pc = "wait"}
    /\ UNCHANGED <<config, boot, expired, scheduler, executor, requests, drift>>

\* Mutant: shutdown() does not wait for the pending reloads.
DestroyTasksAtOnce ==
    /\ phase = "drain"
    /\ phase' = "stop"
    /\ live' = [k \in Keys |-> {}]
    /\ UNCHANGED <<config, boot, awaited, expired, tasks, queue, worker,
                   executor, requests, drift>>

\* Once the reloads that were pending have settled, node-cron destroys its tasks.
DestroyTasks ==
    /\ phase = "drain" /\ awaited = {}
    /\ phase' = "stop"
    /\ live' = [k \in Keys |-> {}]
    /\ UNCHANGED <<config, boot, awaited, expired, tasks, queue, worker,
                   executor, requests, drift>>

\* Mutant: waitForIdle has no deadline.
StoppedIdle(timeout) ==
    /\ phase = "stop" /\ ~timeout
    /\ \A k \in Keys : running[k] = None
    /\ phase' = "stopped"
    /\ tasks' = [k \in Keys |-> NoTask]
    /\ UNCHANGED <<config, boot, awaited, expired, live, queue, worker, executor,
                   requests, drift>>

\* waitForIdle answers: no execution is left, or the deadline passed.
Stopped(timeout) ==
    /\ phase = "stop"
    /\ timeout \/ \A k \in Keys : running[k] = None
    /\ phase' = "stopped"
    /\ expired' = timeout
    /\ tasks' = [k \in Keys |-> NoTask]
    /\ UNCHANGED <<config, boot, awaited, live, queue, worker, executor,
                   requests, drift>>

\* The rest of the server stops once every request is answered; the process is
\* gone when no handler holds it.
Exit ==
    /\ phase = "stopped"
    /\ \A r \in Requests : requests[r].pc = "idle"
    /\ \A k \in Keys : executions[k] = {}
    /\ Lost

\* A crash at any time, and the exit after a start that failed.
Crash ==
    /\ phase # "down"
    /\ Lost

\* Somebody inserts, edits or deletes a document without the API.
DirectChange(k) ==
    /\ DirectChanges
    /\ \/ \E enabled \in BOOLEAN, schedule \in Schedules \cup {Invalid},
             version \in Version :
            /\ version = config[k].version + (IF config[k].exists THEN 0 ELSE 1)
            /\ config' = [config EXCEPT ![k] =
                 [exists |-> TRUE, enabled |-> enabled, schedule |-> schedule,
                  version |-> version]]
       \/ config' = [config EXCEPT ![k] = [Absent EXCEPT !.version = config[k].version]]
    /\ drift' = [drift EXCEPT ![k] = TRUE]
    /\ UNCHANGED <<process, scheduler, executor, requests>>

-----------------------------------------------------------------------------

Serve(r) == Find(r) \/ Save(r) \/ Reload(r)

Advance(k) ==
    \/ BeginReload(k) \/ ReadConfiguration(k)
    \/ Started(k) \/ StartFailed(k) \/ Destroyed(k)

Boot == Start \/ FindAll \/ (\E k \in Keys : ApplyNext(k)) \/ Listen

Stop == DestroyTasks \/ (\E timeout \in BOOLEAN : Stopped(timeout)) \/ Exit

Next ==
    \/ \E r \in Requests : Configure(r) \/ Serve(r)
    \/ \E k \in Keys : Advance(k) \/ Fire(k) \/ EndRun(k) \/ DirectChange(k)
    \/ Boot \/ Stop \/ Shutdown \/ Crash

Spec == Init /\ [][Next]_vars

\* The database and node-cron answer every call and timers expire; handlers need
\* not end, and nothing has to arrive.
FairSpec ==
    /\ Spec
    /\ \A r \in Requests : WF_vars(Serve(r))
    /\ \A k \in Keys : WF_vars(Advance(k))
    /\ WF_vars(Boot) /\ WF_vars(Stop)

-----------------------------------------------------------------------------

\* The collection, the scheduler, the executor and the requests have the declared
\* shapes; no task with a schedule that is not valid gets into any of them.
TypeOK ==
    /\ config \in [Keys -> Config]
    /\ phase \in Phase
    /\ boot \in [Keys -> Config]
    /\ awaited \in SUBSET Requests
    /\ expired \in BOOLEAN
    /\ tasks \in [Keys -> Task \cup {NoTask}]
    /\ live \in [Keys -> SUBSET Task]
    /\ queue \in [Keys -> Seq(Requests)]
    /\ worker \in [Keys -> Worker]
    /\ running \in [Keys -> TaskIds \cup {None}]
    /\ executions \in [Keys -> SUBSET TaskIds]
    /\ requests \in [Requests -> Request]
    /\ drift \in [Keys -> BOOLEAN]

\* A job never runs twice at a time, although a reload leaves the replaced task
\* and its successor alive together and each knows only its own executions.
OneExecution ==
    \A k \in Keys : \A id, other \in executions[k] : id = other

\* A task outlives the await that replaces or removes it and no other: between
\* applications the only live task of a job is the one tasks holds, so every
\* live task can still be replaced or removed, whatever reload failed before.
NoOrphanTask ==
    \A k \in Keys : worker[k].stage = "idle" /\ phase \in {"apply", "up", "drain"} =>
        live[k] = IF tasks[k] = NoTask THEN {} ELSE {tasks[k]}

Settled(k) ==
    /\ phase = "up"
    /\ worker[k].stage = "idle"
    /\ \A r \in Requests : requests[r].key = k => requests[r].pc \notin {"saved", "wait"}

\* "Changes made through the API take effect immediately": when no saved change
\* of a job waits for its reload, no reload failed and nobody edited the
\* collection, the job is scheduled exactly as its stored configuration says,
\* in whatever order the requests saved and reloaded and whatever crashed.
InForce ==
    \A k \in Keys : Settled(k) /\ ~drift[k] =>
        {task.schedule : task \in live[k]} =
            IF config[k].enabled /\ Usable(k, config[k])
            THEN {config[k].schedule} ELSE {}

\* A configure request answers with the document it has in memory.  Without
\* direct edits that is what it stored: no concurrent request's change is lost
\* in a save or shows up in it unread.
AnswerIsStored ==
    [][\A r \in Requests :
         requests[r].pc = "save" /\ requests'[r].pc = "saved" =>
            LET answer == Desired(requests[r])
                stored == config'[requests[r].key]
            IN  stored.enabled = answer.enabled /\ stored.schedule = answer.schedule]_vars

\* After shutdown() nothing is scheduled, no reload that was under way schedules
\* anything later, and a job still runs only if the deadline passed.
QuietAfterShutdown ==
    phase \in {"stop", "stopped"} =>
        \A k \in Keys :
            /\ live[k] = {}
            /\ worker[k].stage = "idle"
            /\ phase = "stopped" /\ ~expired => executions[k] = {}

\* Every configure request is answered: its reload is neither forgotten in the
\* chain nor blocked by one that failed before it or by a shutdown.
RequestsAnswered ==
    \A r \in Requests : requests[r].pc # "idle" ~> requests[r].pc = "idle"

\* shutdown() comes to its end although handlers may run for ever.
ShutdownEnds == phase = "drain" ~> phase \in {"stopped", "down"}

\* A document that cannot be scheduled, because its handler is gone or somebody
\* wrote a schedule the schema refuses, never keeps the server from starting: a
\* start is given up only for a task that could not be started.
StartIgnoresBadDocuments ==
    [][phase = "apply" /\ phase' = "abort" => \E k \in Keys : worker[k].stage = "start"]_vars

-----------------------------------------------------------------------------
(* What the service looks like to its clients, see JobService              *)

\* What the collection asks for.
Asked == [k \in Keys |->
    IF config[k].enabled /\ Usable(k, config[k]) THEN config[k].schedule ELSE None]

\* What a job is, or will be after the application under way, scheduled as.
Intended == [k \in Keys |->
    IF phase \in {"stop", "stopped"} \/ worker[k].stage = "remove" THEN None
    ELSE IF worker[k].stage = "start" THEN worker[k].task.schedule
    ELSE tasks[k].schedule]

\* What it is scheduled as, up to the end of the application.
Current == [k \in Keys |->
    IF phase \in {"stop", "stopped"} THEN None
    ELSE IF worker[k].stage = "replace" THEN worker[k].task.schedule
    ELSE tasks[k].schedule]

\* The last attempt at a job since the process was started failed.
Troubled == [k \in Keys |-> phase \notin {"down", "find"} /\ drift[k]]

\* The configuration a request waits for has been read.
Fetched(r) ==
    LET k == requests[r].key IN
    /\ requests[r].pc = "wait"
    /\ worker[k].stage \in {"start", "replace", "remove"}
    /\ r = Head(queue[k])

Progress == [r \in Requests |->
    [state |-> CASE requests[r].pc = "idle" -> "idle"
                 [] requests[r].pc \in {"find", "save"} -> "open"
                 [] requests[r].pc \in {"saved", "wait"} ->
                      IF Fetched(r) THEN "taken" ELSE "stored",
     key |-> requests[r].key]]

Availability ==
    CASE phase = "down" -> "down"
      [] phase \in {"find", "apply", "abort"} -> "starting"
      [] phase = "up" -> "serving"
      [] phase = "drain" -> "closing"
      [] phase \in {"stop", "stopped"} -> "closed"

Service == INSTANCE JobService WITH
    stored <- Asked, plan <- Intended, held <- Current,
    failed <- Troubled, calls <- Progress, server <- Availability

\* Without direct edits the requests, reloads, tasks and phases amount to a service
\* that answers a change only after it looked at the collection in one step, with the
\* change in it, and brought in force what it saw; that opens with every job in force
\* as stored; and that closes with nothing in force or on its way.
ImplementsService == Service!Spec
=============================================================================
