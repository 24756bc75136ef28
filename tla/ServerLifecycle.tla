--------------------------- MODULE ServerLifecycle ---------------------------
(***************************************************************************)
(* The life of one process, the HTTP server or a script of the command     *)
(* line: the check of the environment, the start with its ways to fail,    *)
(* the connections and cron jobs the server carries, the signals, and the  *)
(* graceful shutdown that takes its parts down one after the other.        *)
(*                                                                         *)
(* Sources: src/server.ts, src/bootstrap.ts, src/configs/env.config.ts,    *)
(* src/configs/mongoose.config.ts, src/listeners/index.ts, the shutdown of *)
(* src/cron/scheduler.ts and of the bridge, scripts/index.ts.  Connections *)
(* are external: they are modelled after what server.ts asks of node:http  *)
(* and socket.io.                                                          *)
(***************************************************************************)
EXTENDS Naturals, FiniteSets

CONSTANTS Connections, \* connections at a time
          Jobs,        \* cron jobs
          Faults       \* TRUE if the steps of a shutdown can fail

ASSUME FaultsAssumption == Faults \in BOOLEAN
ASSUME WorkAssumption == Connections \cap Jobs = {}

VARIABLES program,     \* what the process runs
          environment, \* what env.config.ts reads
          config,      \* what it makes of it
          phase,       \* where start(), gracefulShutdown() or main() stands
          database,    \* mongoose is connected
          consumers,   \* the listeners of the event bus are subscribed
          bridge,      \* the bridge and the gateways are set up
          io,          \* socket.io takes connections
          listening,   \* the HTTP server takes connections
          cron,        \* the scheduler
          jobs,        \* the executions the scheduler knows
          connections, \* the state of each connection
          orphans,     \* work nobody waits for: requests whose connection ended,
                       \* executions shutdown() gave up or never knew
          handlers,    \* signals that still have their handler
          exitCode

settings == <<program, environment, config>>
parts == <<database, consumers, bridge, io, listening>>
work == <<cron, jobs, connections, orphans>>
serverVars == <<settings, phase, parts, work, handlers, exitCode>>

Signals == {"SIGINT", "SIGTERM"}

Starting == {"load", "connect", "prepare", "initialize", "bind"}
Aborting == {"abortCron", "abortApollo", "abortDatabase"}
Stopping == {"stopCron", "stopHttp", "stopApollo", "stopDatabase"}
\* done: the shutdown is through.  failed: a step of it failed, and the process
\* stays.  exited: process.exit(1) or an error nobody caught.
Ended == {"done", "failed", "exited", "killed"}
Phase == Starting \cup Aborting \cup Stopping \cup Ended \cup {"up", "run", "close"}

Credentials == {"DB_NAME", "DB_USER", "DB_PASSWORD"}

\* The variables the checks relate: DOMAIN is absent, a host name, or something
\* with a protocol or a path; DB_URI is absent, a MongoDB URI, another text, or a
\* MongoDB URI with placeholders that were not expanded.
Environment == [production: BOOLEAN, domain: {"none", "host", "url"},
                uri: {"none", "mongo", "other", "template"},
                credentials: SUBSET Credentials]

\* Mutant: a template counts as a configured URI.
HasUriOrTemplate(env) == env.uri # "none"

hasDatabaseUri(env) == env.uri \notin {"none", "template"}

\* envSchema.superRefine
Accepted(env) ==
    /\ env.production => env.domain # "none"
    /\ env.domain # "url"
    /\ IF hasDatabaseUri(env) THEN env.uri \in {"mongo", "template"}
       ELSE env.credentials = Credentials

buildMongoUri(env) ==
    IF env.uri \notin {"none", "template"} THEN env.uri
    ELSE IF env.credentials = Credentials THEN "assembled" ELSE "incomplete"

\* The host of the public URL.
buildPublicUrl(env) == IF env.production THEN env.domain ELSE "address"

NoConfig == [uri |-> "none", publicHost |-> "none"]
Config == [uri: {"none", "mongo", "other", "assembled", "incomplete"},
           publicHost: {"none", "host", "url", "address"}]

ServerInit ==
    /\ program \in {"server", "script"}
    /\ environment \in Environment
    /\ config = NoConfig
    /\ phase = "load"
    /\ database = FALSE /\ consumers = FALSE /\ bridge = FALSE
    /\ io = TRUE /\ listening = FALSE
    /\ cron = "off"
    /\ jobs = {}
    /\ connections = [c \in Connections |-> "none"]
    /\ orphans = {}
    /\ handlers = {}
    /\ exitCode = 0

\* The process is gone, with its connections and whatever it was doing.
Gone(how, code) ==
    /\ phase' = how
    /\ exitCode' = code
    /\ database' = FALSE /\ consumers' = FALSE /\ bridge' = FALSE
    /\ io' = FALSE /\ listening' = FALSE
    /\ cron' = "off"
    /\ jobs' = {}
    /\ connections' = [c \in Connections |-> "none"]
    /\ orphans' = {}
    /\ handlers' = {}
    /\ UNCHANGED settings

Goto(next) == phase' = next /\ UNCHANGED <<settings, handlers, exitCode>>

-----------------------------------------------------------------------------
(* The start: env.config.ts, main() of a script, start() of the server     *)

\* The configuration is built while the modules are loaded.
Load ==
    /\ phase = "load"
    /\ IF Accepted(environment)
       THEN /\ config' = [uri |-> buildMongoUri(environment),
                          publicHost |-> buildPublicUrl(environment)]
            /\ phase' = "connect"
            /\ UNCHANGED <<program, environment, parts, work, handlers, exitCode>>
       ELSE Gone("exited", 1)

\* A script without a name, or with one that is not known, never connects; only
\* the help that was asked for is a success.
NoScript ==
    /\ phase = "connect" /\ program = "script"
    /\ phase' = "done"
    /\ exitCode' \in {0, 1}
    /\ UNCHANGED <<settings, parts, work, handlers>>

\* bootstrap(), and what start() does synchronously after it.
Connect ==
    /\ phase = "connect"
    /\ database' = TRUE /\ consumers' = TRUE
    /\ IF program = "server"
       THEN bridge' = TRUE /\ Goto("prepare")
       ELSE UNCHANGED bridge /\ Goto("run")
    /\ UNCHANGED <<io, listening, work>>

\* The database cannot be reached.
ConnectFails ==
    /\ phase = "connect"
    /\ IF program = "server" THEN Gone("exited", 1)
       ELSE /\ phase' = "done" /\ exitCode' = 1
            /\ UNCHANGED <<settings, parts, work, handlers>>

\* buildSchema and apollo.start(): a failure leaves the database connected and
\* the process exits all the same.
Prepare ==
    /\ phase = "prepare"
    /\ \/ /\ Goto("initialize")
          /\ cron' = "starting"
          /\ UNCHANGED <<parts, jobs, connections, orphans>>
       \/ Gone("exited", 1)

\* cronScheduler.initialize(); the tasks it has started fire before it is through.
Initialize ==
    /\ phase = "initialize"
    /\ Goto("bind")
    /\ cron' = "on"
    /\ UNCHANGED <<parts, jobs, connections, orphans>>

\* initialize() destroys its tasks; shutdown() then finds nothing to wait for, and
\* an execution that had begun is on its own.
InitializeFails ==
    /\ phase = "initialize"
    /\ Goto("abortCron")
    /\ cron' = "off"
    /\ jobs' = {} /\ orphans' = orphans \cup jobs
    /\ UNCHANGED <<parts, connections>>

\* listen() is through, and the handlers of the signals are installed.
Bind ==
    /\ phase = "bind"
    /\ phase' = "up"
    /\ listening' = TRUE
    /\ handlers' = Signals
    /\ UNCHANGED <<settings, database, consumers, bridge, io, work, exitCode>>

\* The address is taken.
BindFails ==
    /\ phase = "bind"
    /\ Goto("abortCron")
    /\ cron' = "settling"
    /\ UNCHANGED <<parts, jobs, connections, orphans>>

-----------------------------------------------------------------------------
(* Connections (node:http and socket.io) and cron jobs                     *)

To(c, state) == connections' = [connections EXCEPT ![c] = state]

OnConnections == UNCHANGED <<settings, phase, parts, cron, jobs, handlers, exitCode>>

\* A client connects; a name is free again when what it left behind has ended.
Open(c) ==
    /\ listening /\ connections[c] = "none" /\ c \notin orphans
    /\ To(c, "idle")
    /\ OnConnections /\ UNCHANGED orphans

\* A request arrives.  A connection that is kept alive may carry one after
\* server.close(), too.
Request(c) ==
    /\ connections[c] = "idle"
    /\ To(c, "busy")
    /\ OnConnections /\ UNCHANGED orphans

Answer(c) ==
    /\ connections[c] = "busy"
    /\ To(c, "idle")
    /\ OnConnections /\ UNCHANGED orphans

\* The connection is upgraded to a socket of socket.io.
Upgrade(c) ==
    /\ io /\ connections[c] = "idle"
    /\ To(c, "socket")
    /\ OnConnections /\ UNCHANGED orphans

\* The client leaves, or a timeout of the server ends the connection: a handler
\* that runs goes on without it.
Close(c) ==
    /\ connections[c] # "none"
    /\ To(c, "none")
    /\ orphans' = IF connections[c] = "busy" THEN orphans \cup {c} ELSE orphans
    /\ OnConnections

CloseAs(c, state) == connections[c] = state /\ Close(c)

\* A job fires while the scheduler has tasks.
Fire(j) ==
    /\ cron \in {"starting", "on", "settling"}
    /\ j \notin jobs \cup orphans
    /\ jobs' = jobs \cup {j}
    /\ UNCHANGED <<settings, phase, parts, cron, connections, orphans, handlers, exitCode>>

\* An execution, or a handler without a connection, ends.
Finish(w) ==
    /\ w \in jobs \cup orphans
    /\ jobs' = jobs \ {w} /\ orphans' = orphans \ {w}
    /\ UNCHANGED <<settings, phase, parts, cron, connections, handlers, exitCode>>

-----------------------------------------------------------------------------
(* The end: gracefulShutdown(), and the cleanup of a start that failed     *)

\* The first signal begins the shutdown: server.close() takes no more connections
\* and ends the idle ones, and cronScheduler.shutdown() is called.  Another signal
\* finds shuttingDown set.
Shutdown(s) ==
    /\ s \in handlers
    /\ handlers' = handlers \ {s}
    /\ IF phase = "up"
       THEN /\ phase' = "stopCron"
            /\ listening' = FALSE
            /\ connections' = [c \in Connections |->
                 IF connections[c] = "idle" THEN "none" ELSE connections[c]]
            /\ cron' = "settling"
            /\ UNCHANGED <<database, consumers, bridge, io, jobs, orphans>>
       ELSE UNCHANGED <<phase, parts, work>>
    /\ UNCHANGED <<settings, exitCode>>

\* A signal nobody handles, before the start is through or a second time.
Kill ==
    /\ phase \notin {"done", "exited", "killed"}
    /\ handlers # Signals
    /\ Gone("killed", exitCode)

\* The pending reloads have settled, and node-cron has destroyed its tasks.
Settle ==
    /\ phase \in {"stopCron", "abortCron"} /\ cron = "settling"
    /\ cron' = "waiting"
    /\ UNCHANGED <<settings, phase, parts, jobs, connections, orphans, handlers, exitCode>>

\* Mutant: io.close() is left to server.close(), which ends no socket.
StopCronOnly ==
    /\ phase = "stopCron" /\ cron = "waiting"
    /\ Goto("stopHttp")
    /\ cron' = "off"
    /\ jobs' = {} /\ orphans' = orphans \cup jobs
    /\ bridge' = FALSE /\ io' = FALSE
    /\ UNCHANGED <<database, consumers, listening, connections>>

\* No execution is left, or the deadline has passed; the gateways, the bridge and
\* the sockets are shut down in the same step.
StopCron ==
    /\ phase = "stopCron" /\ cron = "waiting"
    /\ Goto("stopHttp")
    /\ cron' = "off"
    /\ jobs' = {} /\ orphans' = orphans \cup jobs
    /\ bridge' = FALSE /\ io' = FALSE
    /\ connections' = [c \in Connections |->
         IF connections[c] = "socket" THEN "none" ELSE connections[c]]
    /\ UNCHANGED <<database, consumers, listening>>

\* Mutant: httpShutdown is not awaited.
StopHttpAtOnce ==
    /\ phase = "stopHttp"
    /\ Goto("stopApollo")
    /\ UNCHANGED <<parts, work>>

\* io.close() and httpShutdown: the last connection has ended.
StopHttp ==
    /\ phase = "stopHttp"
    /\ \A c \in Connections : connections[c] = "none"
    /\ Goto("stopApollo")
    /\ UNCHANGED <<parts, work>>

\* apollo.stop() resolves; the listeners are shut down before disconnect() is
\* awaited.
StopApollo ==
    /\ phase = "stopApollo"
    /\ Goto("stopDatabase")
    /\ consumers' = FALSE
    /\ UNCHANGED <<database, bridge, io, listening, work>>

StopDatabase ==
    /\ phase = "stopDatabase"
    /\ Goto("done")
    /\ database' = FALSE
    /\ UNCHANGED <<consumers, bridge, io, listening, work>>

\* A step of the shutdown rejects: the rest is not done.
StopFails ==
    /\ Faults
    /\ phase \in {"stopCron", "stopApollo", "stopDatabase"}
    /\ phase' = "failed"
    /\ exitCode' = 1
    /\ UNCHANGED <<settings, parts, work, handlers>>

\* The cleanup of start(): the scheduler, then the gateways and the bridge.
AbortCron ==
    /\ phase = "abortCron" /\ cron \in {"off", "waiting"}
    /\ Goto("abortApollo")
    /\ cron' = "off"
    /\ jobs' = {} /\ orphans' = orphans \cup jobs
    /\ bridge' = FALSE
    /\ UNCHANGED <<database, consumers, io, listening, connections>>

AbortApollo ==
    /\ phase = "abortApollo"
    /\ Goto("abortDatabase")
    /\ consumers' = FALSE
    /\ UNCHANGED <<database, bridge, io, listening, work>>

\* disconnect() resolves, or a step of the cleanup rejects: process.exit(1).
Exit ==
    /\ \/ phase = "abortDatabase"
       \/ Faults /\ phase \in Aborting
    /\ Gone("exited", 1)

\* Mutant: a script that failed is not shut down.
RunUnguarded ==
    /\ phase = "run"
    /\ exitCode' \in {0, 1}
    /\ IF exitCode' = 0 THEN consumers' = FALSE /\ phase' = "close"
       ELSE UNCHANGED consumers /\ phase' = "done"
    /\ UNCHANGED <<settings, database, bridge, io, listening, work, handlers>>

\* script.run() succeeds or fails; the finally clause calls shutdown().
Run ==
    /\ phase = "run"
    /\ exitCode' \in {0, 1}
    /\ consumers' = FALSE
    /\ phase' = "close"
    /\ UNCHANGED <<settings, database, bridge, io, listening, work, handlers>>

CloseScript ==
    /\ phase = "close"
    /\ Goto("done")
    /\ database' = FALSE
    /\ UNCHANGED <<consumers, bridge, io, listening, work>>

StartStep == \/ Load \/ NoScript \/ Connect \/ ConnectFails \/ Prepare
             \/ Initialize \/ InitializeFails \/ Bind \/ BindFails

StopStep == \/ Settle \/ StopCron \/ StopHttp \/ StopApollo \/ StopDatabase
            \/ AbortCron \/ AbortApollo \/ Exit \/ Run \/ CloseScript

ServerNext ==
    \/ StartStep \/ StopStep \/ StopFails \/ Kill
    \/ \E s \in Signals : Shutdown(s)
    \/ \E c \in Connections :
         Open(c) \/ Request(c) \/ Answer(c) \/ Upgrade(c) \/ Close(c)
    \/ \E j \in Jobs : Fire(j)
    \/ \E w \in Connections \cup Jobs : Finish(w)

ServerSpec == ServerInit /\ [][ServerNext]_serverVars

\* The promises of the start and of the shutdown settle (the scheduler's at its
\* deadline at the latest, mongoose's at its own timeouts), and a connection that
\* stays idle or waits for an answer too long meets a timeout of the server.
Fairness ==
    /\ WF_serverVars(StartStep) /\ WF_serverVars(StopStep)
    /\ \A c \in Connections :
         WF_serverVars(CloseAs(c, "idle")) /\ WF_serverVars(CloseAs(c, "busy"))

FairSpec == ServerSpec /\ Fairness

-----------------------------------------------------------------------------
(* Properties                                                              *)

\* The parts of the process keep their shapes; only a server has connections,
\* jobs and a bridge.
ServerTypeOK ==
    /\ program \in {"server", "script"}
    /\ environment \in Environment /\ config \in Config
    /\ phase \in Phase
    /\ database \in BOOLEAN /\ consumers \in BOOLEAN /\ bridge \in BOOLEAN
    /\ io \in BOOLEAN /\ listening \in BOOLEAN
    /\ cron \in {"off", "starting", "on", "settling", "waiting"}
    /\ jobs \subseteq Jobs
    /\ connections \in [Connections -> {"none", "idle", "busy", "socket"}]
    /\ orphans \subseteq Connections \cup Jobs
    /\ handlers \subseteq Signals
    /\ exitCode \in {0, 1}

\* An environment that passes the validation can be turned into a configuration:
\* what superRefine checks and what the builders need, which are written apart,
\* agree.
ConfigurationIsComplete ==
    config # NoConfig =>
        /\ config.uri \in {"mongo", "assembled"}
        /\ config.publicHost \in {"host", "address"}

\* A request whose client waits, and an execution the scheduler knows, never find
\* the database disconnected or the listeners of their events gone: the order of
\* the start, of its cleanup and of the shutdown.
WorkHasItsDatabase ==
    jobs # {} \/ (\E c \in Connections : connections[c] \in {"busy", "socket"})
        => database /\ consumers

\* A socket never waits for events on a bridge that is gone.
SocketsAreBridged ==
    \A c \in Connections : connections[c] = "socket" => bridge

\* A program that ended by itself has disconnected the database and stopped its
\* listeners, its scheduler and its bridge, and no client is left waiting; after a
\* script that failed, too.
CleanEnd ==
    phase = "done" =>
        /\ ~database /\ ~consumers /\ ~bridge /\ ~listening
        /\ cron = "off"
        /\ \A c \in Connections : connections[c] = "none"

\* A shutdown comes to an end, whatever jobs and sockets there are, unless a
\* client keeps its connection in use for ever: nothing in server.ts ends a
\* connection that is kept alive by one request after the other.
ShutdownEnds ==
    \/ phase \in Stopping ~> phase \notin Stopping
    \/ []<><<\E c \in Connections : Request(c)>>_serverVars
=============================================================================
