------------------------- MODULE CronSchedulerProofs -------------------------
(***************************************************************************)
(* Safety of the cron scheduler for every set of keys, requests and tasks. *)
(*                                                                         *)
(* None of the properties is inductive alone.  A task can only be orphaned *)
(* through a second application of the same key, or one that goes on after *)
(* shutdown() destroyed the tasks, so the invariant says what the chain of *)
(* reloads holds: every reload in it is a waiting request of that key and  *)
(* occurs once (Chain), and an application under way is that of the head   *)
(* of the chain, which shutdown() awaits (Applying).  LiveTasks then gives *)
(* the live tasks of a key for every stage of an application.              *)
(*                                                                         *)
(* That a settled job is scheduled as its configuration says (InForce)     *)
(* needs to know of every state in between: Applied says that what a job   *)
(* is planned as is what the collection wants, unless a reload of it is    *)
(* still to come, or initialize() has still to apply its document.         *)
(*                                                                         *)
(* The last part shows that the scheduler implements JobService when the   *)
(* collection is changed through the API only: Proper says that everything *)
(* in it can be scheduled then, and one lemma for every action of          *)
(* CronScheduler gives the step of JobService it is, or that it shows none.*)
(***************************************************************************)
EXTENDS CronScheduler, TLAPS

\* A request that is under way has a key.
Keyed == \A r \in Requests : requests[r].pc # "idle" => requests[r].key \in Keys

\* A process that is not started, or that has not finished its start, serves no
\* request; one that does nothing holds nothing.
Unserved ==
    phase \in {"down", "find", "apply", "abort"} =>
        /\ \A r \in Requests : requests[r].pc = "idle"
        /\ \A k \in Keys : queue[k] = <<>>

Empty ==
    phase \in {"down", "find"} =>
        \A k \in Keys : live[k] = {} /\ tasks[k] = NoTask /\ worker[k] = IdleWorker

Chain ==
    \A k \in Keys : \A i \in DOMAIN queue[k] :
        /\ requests[queue[k][i]].pc = "wait"
        /\ requests[queue[k][i]].key = k
        /\ \A j \in DOMAIN queue[k] : queue[k][i] = queue[k][j] => i = j

Applying ==
    \A k \in Keys : worker[k].stage # "idle" =>
        /\ phase \in {"apply", "up", "drain"}
        /\ phase \in {"up", "drain"} => queue[k] # <<>>
        /\ phase = "drain" => Head(queue[k]) \in awaited
        /\ phase = "apply" => \A j \in Keys \ {k} : worker[j].stage = "idle"

Held(k) == IF tasks[k] = NoTask THEN {} ELSE {tasks[k]}

LiveOf(k) ==
    LET task == worker[k].task IN
    CASE worker[k].stage = "replace" ->
            /\ tasks[k] # NoTask /\ task # NoTask /\ task # tasks[k]
            /\ live[k] = {task, tasks[k]}
      [] worker[k].stage = "remove" -> task = tasks[k] /\ live[k] = {task}
      [] worker[k].stage = "start" ->
            task \in Task /\ task \notin live[k] /\ live[k] = Held(k)
      [] OTHER -> live[k] = Held(k)

LiveTasks ==
    /\ phase \notin {"stop", "stopped"} => \A k \in Keys : LiveOf(k)
    /\ phase \in {"stop", "stopped"} => \A k \in Keys : live[k] = {}

\* The lock of a key is the execution that runs.
Locked ==
    \A k \in Keys : executions[k] = IF running[k] = None THEN {} ELSE {running[k]}

Idle == phase = "stopped" /\ ~expired => \A k \in Keys : executions[k] = {}

\* What the stored configuration of a job asks for.
Wanted(k) ==
    IF config[k].enabled /\ Usable(k, config[k]) THEN {config[k].schedule} ELSE {}

\* What the job is or, once the application under way is through, will be scheduled as.
Planned(k) ==
    IF worker[k].stage = "start" THEN {worker[k].task.schedule}
    ELSE IF worker[k].stage = "remove" \/ tasks[k] = NoTask THEN {}
    ELSE {tasks[k].schedule}

\* A reload of the job is still to come or has still to read the collection.
Pending(k) ==
    \/ \E r \in Requests : requests[r].key = k /\ requests[r].pc = "saved"
    \/ queue[k] # <<>> /\ (worker[k].stage \in {"idle", "read"} \/ Tail(queue[k]) # <<>>)

\* The start applies the documents it found, and nobody changes them meanwhile.
Booting(k) ==
    phase = "apply" =>
        /\ worker[k].stage \in {"idle", "start"}
        /\ boot[k].exists => tasks[k] = NoTask
        /\ ~boot[k].exists => worker[k].stage = "idle"
        /\ ~drift[k] /\ boot[k].exists => boot[k] = config[k]
        /\ ~drift[k] /\ (~boot[k].exists \/ worker[k].stage = "start") => Planned(k) = Wanted(k)

\* A job no reload of which is pending is as the collection wants it.
Steady(k) == phase = "up" /\ ~drift[k] /\ ~Pending(k) => Planned(k) = Wanted(k)

Follows(k) == (config[k].enabled => config[k].exists) /\ Booting(k) /\ Steady(k)

Applied == \A k \in Keys : Follows(k)

Control == Keyed /\ Unserved /\ Chain /\ Applying

IInv == TypeOK /\ Control /\ Empty /\ LiveTasks

\* The part of the state an application changes when it ends.
ControlType ==
    /\ phase \in Phase
    /\ boot \in [Keys -> Config]
    /\ awaited \in SUBSET Requests
    /\ expired \in BOOLEAN
    /\ queue \in [Keys -> Seq(Requests)]
    /\ worker \in [Keys -> Worker]
    /\ requests \in [Requests -> Request]

-----------------------------------------------------------------------------
(* Facts about values                                                      *)

\* No task is not one, and an idle worker is a worker.
LEMMA TaskFacts ==
    /\ NoTask \notin Task
    /\ IdleWorker \in Worker
BY NoneAssumption DEF NoTask, Task, IdleWorker, Worker

\* Documents start at a version of the model.
LEMMA VersionFacts == 0 \in Version
BY VersionAssumption DEF Version

\* The values that stand for nothing are well formed.
LEMMA AbsentFacts ==
    /\ Absent \in Config
    /\ NoInput \in Input
    /\ IdleRequest \in Request
BY VersionFacts DEF Absent, Config, NoInput, Input, IdleRequest, Request

\* The empty chain is a chain of any requests.
LEMMA EmptySequence == \A S : <<>> \in Seq(S)
OBVIOUS

\* Taking the head of a chain of distinct elements leaves the others.
LEMMA TailFacts ==
    ASSUME NEW S, NEW q \in Seq(S), q # <<>>
    PROVE  /\ Head(q) \in S
           /\ Tail(q) \in Seq(S)
           /\ 1 \in DOMAIN q /\ Head(q) = q[1]
           /\ \A i \in DOMAIN Tail(q) : i + 1 \in DOMAIN q /\ Tail(q)[i] = q[i + 1] /\ i + 1 # 1
           /\ \A i, j \in DOMAIN Tail(q) : i + 1 = j + 1 => i = j
OBVIOUS

\* A request at the end of a chain leaves the others, and the head, where they are.
LEMMA AppendFacts ==
    ASSUME NEW S, NEW q \in Seq(S), NEW e \in S
    PROVE  /\ Append(q, e) \in Seq(S)
           /\ \A i \in DOMAIN Append(q, e) :
                 \/ i \in DOMAIN q /\ Append(q, e)[i] = q[i]
                 \/ i = Len(q) + 1 /\ Append(q, e)[i] = e
           /\ Append(q, e) # <<>>
           /\ q # <<>> => Head(Append(q, e)) = Head(q)
<1>1. /\ Append(q, e) \in Seq(S)
      /\ Len(Append(q, e)) = Len(q) + 1
      /\ Append(q, e)[Len(q) + 1] = e
    OBVIOUS
<1>2. \A i \in 1..Len(q) : Append(q, e)[i] = q[i]
    OBVIOUS
<1>3. \A i \in DOMAIN Append(q, e) : i \in DOMAIN q \/ i = Len(q) + 1
    BY <1>1
<1>4. Append(q, e) # <<>>
    BY <1>1
<1>5. ASSUME q # <<>> PROVE Head(Append(q, e)) = Head(q)
    <2>1. 1 \in 1..Len(q)
        BY <1>5
    <2>. QED
        BY <2>1, <1>1, <1>2, <1>4, <1>5
<1>. QED
    BY <1>1, <1>2, <1>3, <1>4, <1>5

-----------------------------------------------------------------------------
(* The end and the next await of an application                            *)

\* What is not touched for a key leaves its live tasks as they should be.
LEMMA LiveFrame ==
    ASSUME NEW j \in Keys, LiveOf(j),
           worker'[j] = worker[j], tasks'[j] = tasks[j], live'[j] = live[j]
    PROVE  LiveOf(j)'
<1>1. Held(j)' = Held(j)
    BY DEF Held
<1>. QED
    BY <1>1 DEF LiveOf

\* What an application leaves behind when it ends, whatever it did to the tasks.
LEMMA EndKeepsControl ==
    ASSUME IInv, NEW k \in Keys, NEW ok \in BOOLEAN, End(k, ok),
           \/ /\ phase = "apply"
              /\ \A j \in Keys \ {k} : worker[j].stage = "idle"
           \/ phase \in {"up", "drain", "stop", "stopped"} /\ queue[k] # <<>>
    PROVE  /\ ControlType' /\ Control'
           /\ worker' = [worker EXCEPT ![k] = IdleWorker]
           /\ phase' = phase \/ (phase = "apply" /\ phase' = "abort")
<1>1. worker' = [worker EXCEPT ![k] = IdleWorker]
    BY DEF End, Work, IdleWorker
<1>2. worker' \in [Keys -> Worker]
    BY <1>1, TaskFacts DEF IInv, TypeOK
<1>3. CASE phase = "apply"
    <2>1. /\ phase' \in {"apply", "abort"} /\ boot' = [boot EXCEPT ![k] = Absent]
          /\ UNCHANGED <<queue, awaited, requests, expired>>
        BY <1>3 DEF End
    <2>2. ControlType'
        BY <2>1, <1>2, AbsentFacts DEF ControlType, IInv, TypeOK, Phase
    <2>3. Keyed' /\ Unserved' /\ Chain'
        BY <2>1, <1>3 DEF IInv, Control, Keyed, Unserved, Chain
    <2>4. \A j \in Keys : worker'[j].stage = "idle"
        BY <1>1, <1>3 DEF IInv, TypeOK, IdleWorker
    <2>5. Applying'
        BY <2>4 DEF Applying
    <2>. QED
        BY <1>1, <1>3, <2>1, <2>2, <2>3, <2>5 DEF Control
<1>4. CASE phase \in {"up", "drain", "stop", "stopped"} /\ queue[k] # <<>>
    <2>. DEFINE r == Head(queue[k])
    <2>1. /\ queue' = [queue EXCEPT ![k] = Tail(queue[k])]
          /\ awaited' = awaited \ {r}
          /\ requests' = [requests EXCEPT ![r] = IdleRequest]
          /\ UNCHANGED <<phase, boot, expired>>
        BY <1>4 DEF End, Update
    <2>2. queue[k] \in Seq(Requests)
        BY DEF IInv, TypeOK
    <2>3. r \in Requests /\ Tail(queue[k]) \in Seq(Requests)
        BY <2>2, <1>4, TailFacts
    <2>4. ControlType'
        BY <2>1, <2>3, <1>2, AbsentFacts DEF ControlType, IInv, TypeOK
    <2>5. Keyed'
        BY <2>1, <2>3 DEF IInv, TypeOK, Control, Keyed, IdleRequest
    <2>6. Unserved'
        BY <2>1, <1>4 DEF Unserved
    <2>7. Chain'
        <3>. SUFFICES ASSUME NEW j \in Keys, NEW i \in DOMAIN queue'[j]
                      PROVE  /\ requests'[queue'[j][i]].pc = "wait"
                             /\ requests'[queue'[j][i]].key = j
                             /\ \A n \in DOMAIN queue'[j] :
                                   queue'[j][i] = queue'[j][n] => i = n
            BY DEF Chain
        <3>1. requests[r].key = k /\ r = queue[k][1] /\ 1 \in DOMAIN queue[k]
            BY <2>2, <1>4, TailFacts DEF IInv, Control, Chain
        <3>2. CASE j = k
            <4>1. queue'[j] = Tail(queue[k])
                BY <3>2, <2>1 DEF IInv, TypeOK
            <4>2. i + 1 \in DOMAIN queue[k] /\ Tail(queue[k])[i] = queue[k][i + 1] /\ i + 1 # 1
                BY <4>1, <2>2, <1>4, TailFacts
            <4>3. queue[k][i + 1] # r
                BY <4>2, <3>1 DEF IInv, Control, Chain
            <4>4. queue[k][i + 1] \in Requests
                BY <4>2, <2>2
            <4>5. requests'[queue[k][i + 1]] = requests[queue[k][i + 1]]
                BY <4>3, <4>4, <2>1 DEF IInv, TypeOK
            <4>6. ASSUME NEW n \in DOMAIN queue'[j], queue'[j][i] = queue'[j][n]
                  PROVE  i = n
                <5>1. n + 1 \in DOMAIN queue[k] /\ Tail(queue[k])[n] = queue[k][n + 1]
                    BY <4>1, <2>2, <1>4, TailFacts
                <5>2. i + 1 = n + 1
                    BY <5>1, <4>1, <4>2, <4>6 DEF IInv, Control, Chain
                <5>. QED
                    BY <5>2, <4>1, <2>2, <1>4, TailFacts
            <4>. QED
                BY <4>1, <4>2, <4>5, <4>6, <3>2 DEF IInv, Control, Chain
        <3>3. CASE j # k
            <4>1. queue'[j] = queue[j]
                BY <3>3, <2>1 DEF IInv, TypeOK
            <4>2. queue[j][i] \in Requests /\ requests[queue[j][i]].key = j
                BY <4>1 DEF IInv, TypeOK, Control, Chain
            <4>3. requests'[queue[j][i]] = requests[queue[j][i]]
                BY <4>2, <3>1, <3>3, <2>1 DEF IInv, TypeOK
            <4>. QED
                BY <4>1, <4>3 DEF IInv, Control, Chain
        <3>. QED
            BY <3>2, <3>3
    <2>8. Applying'
        <3>. SUFFICES ASSUME NEW j \in Keys, worker'[j].stage # "idle"
                      PROVE  /\ phase' \in {"apply", "up", "drain"}
                             /\ phase' \in {"up", "drain"} => queue'[j] # <<>>
                             /\ phase' = "drain" => Head(queue'[j]) \in awaited'
                             /\ phase' # "apply"
            BY DEF Applying
        <3>1. j # k /\ worker[j].stage # "idle" /\ queue'[j] = queue[j]
            BY <1>1, <2>1 DEF IInv, TypeOK, IdleWorker
        <3>2. queue[j] # <<>>
            BY <3>1, <1>4 DEF IInv, Control, Applying
        <3>3. queue[j] \in Seq(Requests)
            BY DEF IInv, TypeOK
        <3>4. requests[Head(queue[j])].key = j /\ requests[r].key = k
            BY <3>2, <3>3, <2>2, <1>4, TailFacts DEF IInv, Control, Chain
        <3>. QED
            BY <3>1, <3>2, <3>4, <2>1, <1>4 DEF IInv, Control, Applying
    <2>. QED
        BY <1>1, <2>1, <2>4, <2>5, <2>6, <2>7, <2>8 DEF Control
<1>. QED
    BY <1>3, <1>4

\* A request that goes on without touching the chains leaves them in order.
LEMMA ProceedKeepsControl ==
    ASSUME IInv, NEW k \in Keys, NEW stage \in {"read", "start", "replace", "remove"},
           NEW task \in Task \cup {NoTask}, Proceed(k, stage, task),
           \/ /\ phase = "apply"
              /\ \A j \in Keys \ {k} : worker[j].stage = "idle"
           \/ phase = "up" /\ queue[k] # <<>>
           \/ phase = "drain" /\ worker[k].stage # "idle"
    PROVE  /\ ControlType' /\ Control'
           /\ worker' = [worker EXCEPT ![k] = [stage |-> stage, task |-> task]]
           /\ phase' = phase
<1>1. /\ worker' = [worker EXCEPT ![k] = [stage |-> stage, task |-> task]]
      /\ UNCHANGED <<phase, boot, awaited, expired, queue, requests>>
    BY DEF Proceed, Work, process
<1>2. worker' \in [Keys -> Worker]
    BY <1>1 DEF IInv, TypeOK, Worker
<1>3. ControlType'
    BY <1>1, <1>2 DEF ControlType, IInv, TypeOK
<1>4. Keyed' /\ Unserved' /\ Chain'
    BY <1>1 DEF IInv, Control, Keyed, Unserved, Chain
<1>5. Applying'
    BY <1>1 DEF IInv, TypeOK, Control, Applying
<1>. QED
    BY <1>1, <1>3, <1>4, <1>5 DEF Control

\* applyConfiguration up to its first await changes no task.
LEMMA ApplyKeepsShape ==
    ASSUME IInv, NEW k \in Keys, NEW c \in Config, Apply(k, c),
           UNCHANGED <<tasks, live>>,
           worker[k].stage \in {"idle", "read"},
           \/ /\ phase = "apply"
              /\ \A j \in Keys \ {k} : worker[j].stage = "idle"
           \/ /\ phase \in {"up", "drain"}
              /\ worker[k].stage # "idle" /\ queue[k] # <<>>
    PROVE  ControlType' /\ Control' /\ Empty' /\ LiveTasks'
<1>. /\ phase \in {"apply", "up", "drain"}
     /\ LiveOf(k) /\ live[k] = Held(k)
    BY DEF IInv, LiveTasks, LiveOf
<1>1. ASSUME NEW ok \in BOOLEAN, End(k, ok)
      PROVE  ControlType' /\ Control' /\ Empty' /\ LiveTasks'
    <2>1. /\ ControlType' /\ Control'
          /\ worker' = [worker EXCEPT ![k] = IdleWorker]
          /\ phase' = phase \/ (phase = "apply" /\ phase' = "abort")
        BY <1>1, EndKeepsControl
    <2>2. ASSUME NEW j \in Keys PROVE LiveOf(j)'
        <3>1. LiveOf(j)
            BY DEF IInv, LiveTasks
        <3>2. CASE j # k
            <4>1. worker'[j] = worker[j]
                BY <2>1, <3>2 DEF IInv, TypeOK
            <4>. QED
                BY <3>1, <4>1, LiveFrame
        <3>3. CASE j = k
            <4>1. worker'[k].stage = "idle" /\ live'[k] = Held(k)'
                BY <2>1 DEF IInv, TypeOK, IdleWorker, Held
            <4>. QED
                BY <4>1, <3>3 DEF LiveOf
        <3>. QED
            BY <3>2, <3>3
    <2>. QED
        BY <2>1, <2>2 DEF Empty, LiveTasks
<1>2. ASSUME NEW stage \in {"remove", "start"}, NEW task \in Task, Proceed(k, stage, task),
             stage = "remove" => task = tasks[k],
             stage = "start" => task \notin live[k]
      PROVE  ControlType' /\ Control' /\ Empty' /\ LiveTasks'
    <2>1. /\ ControlType' /\ Control'
          /\ worker' = [worker EXCEPT ![k] = [stage |-> stage, task |-> task]]
          /\ phase' = phase
        BY <1>2, ProceedKeepsControl
    <2>2. LiveOf(k)'
        BY <2>1, <1>2, TaskFacts DEF IInv, TypeOK, LiveOf, Held
    <2>3. ASSUME NEW j \in Keys \ {k} PROVE LiveOf(j)'
        <3>1. LiveOf(j)
            BY DEF IInv, LiveTasks
        <3>2. worker'[j] = worker[j]
            BY <2>1 DEF IInv, TypeOK
        <3>. QED
            BY <3>1, <3>2, LiveFrame
    <2>. QED
        BY <2>1, <2>2, <2>3 DEF Empty, LiveTasks
<1>3. CASE ~c.enabled /\ tasks[k] = NoTask /\ End(k, TRUE)
    BY <1>1, <1>3
<1>4. CASE ~c.enabled /\ tasks[k] # NoTask /\ Proceed(k, "remove", tasks[k])
    <2>1. tasks[k] \in Task
        BY <1>4 DEF IInv, TypeOK
    <2>. QED
        BY <1>2, <1>4, <2>1
<1>5. CASE c.enabled /\ End(k, phase = "apply")
    <2>1. (phase = "apply") \in BOOLEAN
        OBVIOUS
    <2>. QED
        BY <1>1, <1>5, <2>1
<1>6. CASE /\ c.enabled /\ Usable(k, c)
           /\ \E id \in FreshId(k) :
                Proceed(k, "start", [id |-> id, schedule |-> c.schedule])
    <2>1. PICK id \in FreshId(k) : Proceed(k, "start", [id |-> id, schedule |-> c.schedule])
        BY <1>6
    <2>2. /\ [id |-> id, schedule |-> c.schedule] \in Task
          /\ [id |-> id, schedule |-> c.schedule] \notin live[k]
        BY <2>1, <1>6 DEF FreshId, Usable, Task
    <2>. QED
        BY <1>2, <2>1, <2>2
<1>. QED
    BY <1>3, <1>4, <1>5, <1>6 DEF Apply

-----------------------------------------------------------------------------
(* The inductive invariant                                                 *)

\* The first states satisfy the invariant.
LEMMA Initially == Init => IInv
<1>. SUFFICES ASSUME Init PROVE IInv
    OBVIOUS
<1>1. TypeOK
    <2>1. queue \in [Keys -> Seq(Requests)] /\ drift \in [Keys -> BOOLEAN]
        BY EmptySequence DEF Init
    <2>2. /\ phase \in Phase /\ awaited \in SUBSET Requests /\ expired \in BOOLEAN
          /\ live \in [Keys -> SUBSET Task] /\ executions \in [Keys -> SUBSET TaskIds]
        BY DEF Init, Phase
    <2>. QED
        BY <2>1, <2>2, TaskFacts, AbsentFacts DEF Init, TypeOK
<1>2. Control /\ Empty /\ LiveTasks
    BY TaskFacts DEF Init, Control, Keyed, Unserved, Chain, Applying, Empty, LiveTasks,
                     LiveOf, Held, IdleRequest, IdleWorker
<1>. QED
    BY <1>1, <1>2 DEF IInv

\* A process that is lost leaves only the collection behind.
LEMMA LostKeeps == IInv /\ Lost => IInv'
<1>. SUFFICES ASSUME IInv, Lost PROVE IInv'
    OBVIOUS
<1>1. TypeOK'
    <2>1. queue' \in [Keys -> Seq(Requests)]
        BY EmptySequence DEF Lost
    <2>2. /\ phase' \in Phase /\ awaited' \in SUBSET Requests /\ expired' \in BOOLEAN
          /\ live' \in [Keys -> SUBSET Task] /\ executions' \in [Keys -> SUBSET TaskIds]
        BY DEF Lost, Phase
    <2>. QED
        BY <2>1, <2>2, TaskFacts, AbsentFacts DEF Lost, IInv, TypeOK
<1>2. (Control /\ Empty /\ LiveTasks)'
    BY TaskFacts DEF Lost, Control, Keyed, Unserved, Chain, Applying, Empty, LiveTasks,
                     LiveOf, Held, IdleRequest, IdleWorker
<1>. QED
    BY <1>1, <1>2 DEF IInv

\* A step of a request that is in no chain, before and after.
LEMMA RequestStep ==
    ASSUME IInv, NEW r \in Requests, NEW request \in Request, Update(r, request),
           requests[r].pc # "wait",
           config' \in [Keys -> Config],
           UNCHANGED <<process, scheduler, executor, drift>>,
           request.pc # "idle" =>
               request.key \in Keys /\ phase \notin {"down", "find", "apply", "abort"}
    PROVE  IInv'
<1>1. requests' = [requests EXCEPT ![r] = request]
    BY DEF Update
<1>2. UNCHANGED <<phase, boot, awaited, expired, tasks, live, queue, worker,
                  running, executions, drift>>
    BY DEF process, scheduler, executor
<1>3. TypeOK'
    BY <1>1, <1>2 DEF IInv, TypeOK
<1>4. Keyed' /\ Unserved'
    BY <1>1, <1>2 DEF IInv, TypeOK, Control, Keyed, Unserved
<1>5. Applying' /\ Empty' /\ LiveTasks'
    BY <1>2 DEF IInv, Control, Applying, Empty, LiveTasks, LiveOf, Held
<1>6. Chain'
    <2>. SUFFICES ASSUME NEW j \in Keys, NEW i \in DOMAIN queue[j]
                  PROVE  requests'[queue[j][i]] = requests[queue[j][i]]
        BY <1>2 DEF IInv, Control, Chain
    <2>1. queue[j][i] \in Requests /\ queue[j][i] # r
        BY DEF IInv, TypeOK, Control, Chain
    <2>. QED
        BY <2>1, <1>1 DEF IInv, TypeOK
<1>. QED
    BY <1>3, <1>4, <1>5, <1>6 DEF IInv, Control

\* A new request holds nothing yet.
LEMMA ConfigureKeeps ==
    ASSUME IInv, NEW r \in Requests, Configure(r)
    PROVE  IInv'
<1>1. PICK k \in Keys, input \in Inputs :
        Update(r, [pc |-> "find", key |-> k, input |-> input, copy |-> Absent])
    BY DEF Configure
<1>2. [pc |-> "find", key |-> k, input |-> input, copy |-> Absent] \in Request
    BY AbsentFacts, InputAssumption DEF Request
<1>. QED
    BY <1>1, <1>2, RequestStep DEF Configure, IInv, TypeOK

\* A request holds a copy of the document it has read.
LEMMA FindKeeps ==
    ASSUME IInv, NEW r \in Requests, Find(r)
    PROVE  IInv'
<1>. DEFINE request == requests[r]
            found == [request EXCEPT !.pc = "save", !.copy = config[request.key]]
<1>1. /\ request.pc = "find"
      /\ UNCHANGED <<config, process, scheduler, executor, drift>>
      /\ Update(r, found) \/ Update(r, IdleRequest)
    BY DEF Find
<1>2. request \in Request /\ request.key \in Keys /\ config \in [Keys -> Config]
    BY <1>1 DEF IInv, TypeOK, Control, Keyed
<1>3. found \in Request /\ found.key \in Keys
    BY <1>2 DEF Request
<1>4. phase \notin {"down", "find", "apply", "abort"}
    BY <1>1 DEF IInv, Control, Unserved
<1>5. CASE Update(r, found)
    BY <1>1, <1>2, <1>3, <1>4, <1>5, RequestStep
<1>6. CASE Update(r, IdleRequest)
    BY <1>1, <1>2, <1>6, RequestStep, AbsentFacts DEF IdleRequest
<1>. QED
    BY <1>1, <1>5, <1>6

\* A document whose version may be past the bound.
Draft == [exists: BOOLEAN, enabled: BOOLEAN,
          schedule: Schedules \cup {Invalid, None}, version: Nat]

\* What a request holds when it saves.
LEMMA DesiredIsDraft ==
    ASSUME NEW request \in Request
    PROVE  /\ Desired(request) \in Draft
           /\ request.copy.exists => Desired(request).version = request.copy.version + 1
<1>. DEFINE base == IF request.copy.exists THEN request.copy
                    ELSE Seeded(request.copy.version)
            enabled == Choose(request.input.enabled, base.enabled)
            schedule == Choose(request.input.schedule, base.schedule)
<1>2. base \in Draft
    BY DefaultAssumption, VersionAssumption DEF Request, Config, Draft, Seeded, Version
<1>3. enabled \in BOOLEAN /\ schedule \in Schedules \cup {Invalid, None}
    <2>1. request.input.enabled \in BOOLEAN \cup {None}
          /\ request.input.schedule \in Schedules \cup {None}
        BY DEF Request, Input
    <2>2. base.enabled \in BOOLEAN /\ base.schedule \in Schedules \cup {Invalid, None}
        BY <1>2 DEF Draft
    <2>. HIDE DEF base
    <2>3. enabled \in BOOLEAN
        BY <2>1, <2>2, Zenon DEF Choose
    <2>4. schedule \in Schedules \cup {Invalid, None}
        BY <2>1, <2>2 DEF Choose
    <2>. QED
        BY <2>3, <2>4
<1>4. Desired(request) = [base EXCEPT !.enabled = enabled, !.schedule = schedule,
                             !.version = base.version + 1]
    BY DEF Desired
<1>. HIDE DEF enabled, schedule, base
<1>5. Desired(request) \in Draft
    <2>1. [base EXCEPT !.enabled = enabled] \in Draft
        BY <1>2, <1>3 DEF Draft
    <2>2. [base EXCEPT !.enabled = enabled, !.schedule = schedule] \in Draft
        BY <2>1, <1>3 DEF Draft
    <2>3. base.version + 1 \in Nat
        BY <1>2 DEF Draft
    <2>. QED
        BY <2>2, <2>3, <1>4 DEF Draft
<1>6. Desired(request).version = base.version + 1
    BY <1>2, <1>4 DEF Draft
<1>. QED
    BY <1>5, <1>6 DEF base

\* What a save stores is a document.
LEMMA StoredIsConfig ==
    ASSUME IInv, NEW r \in Requests, requests[r].key \in Keys,
           Stored(requests[r]).version \in Version
    PROVE  Stored(requests[r]) \in Config
<1>. DEFINE request == requests[r]
            stored == config[request.key]
            desired == Desired(request)
<1>1. request \in Request /\ stored \in Config
    BY DEF IInv, TypeOK
<1>5. desired \in Draft
    BY <1>1, DesiredIsDraft
<1>. HIDE DEF desired
<1>6. CASE ~request.copy.exists
    <2>1. Stored(request) = [desired EXCEPT !.version = stored.version + 1]
        BY <1>6 DEF Stored, desired
    <2>2. stored.version + 1 \in Version
        BY <2>1, <1>5 DEF Draft
    <2>. QED
        BY <2>1, <2>2, <1>5 DEF Config, Draft
<1>7. CASE request.copy.exists
    <2>. DEFINE on == IF desired.enabled = request.copy.enabled
                      THEN stored.enabled ELSE desired.enabled
                at == IF desired.schedule = request.copy.schedule
                      THEN stored.schedule ELSE desired.schedule
    <2>1. Stored(request) = [desired EXCEPT !.enabled = on, !.schedule = at]
        BY <1>7 DEF Stored, desired
    <2>2. on \in BOOLEAN /\ at \in Schedules \cup {Invalid, None}
        BY <1>1, <1>5 DEF Config, Draft
    <2>. HIDE DEF on, at
    <2>3. desired.version \in Version
        BY <2>1, <1>5 DEF Draft
    <2>. QED
        BY <2>1, <2>2, <2>3, <1>5 DEF Config, Draft
<1>. QED
    BY <1>6, <1>7

\* A save changes one document.
LEMMA SaveKeeps ==
    ASSUME IInv, NEW r \in Requests, Save(r)
    PROVE  IInv'
<1>. DEFINE request == requests[r]
            saved == [request EXCEPT !.pc = "saved"]
<1>1. /\ request.pc = "save"
      /\ UNCHANGED <<process, scheduler, executor, drift>>
      /\ \/ /\ Update(r, saved)
            /\ Stored(request).version \in Version
            /\ config' = [config EXCEPT ![request.key] = Stored(request)]
         \/ Update(r, IdleRequest) /\ config' = config
    BY DEF Save
<1>2. request \in Request /\ request.key \in Keys /\ config \in [Keys -> Config]
    BY <1>1 DEF IInv, TypeOK, Control, Keyed
<1>3. saved \in Request /\ saved.key \in Keys
    BY <1>2 DEF Request
<1>4. phase \notin {"down", "find", "apply", "abort"}
    BY <1>1 DEF IInv, Control, Unserved
<1>5. CASE /\ Update(r, saved)
           /\ Stored(request).version \in Version
           /\ config' = [config EXCEPT ![request.key] = Stored(request)]
    <2>1. config' \in [Keys -> Config]
        BY <1>2, <1>5, StoredIsConfig
    <2>. QED
        BY <2>1, <1>1, <1>3, <1>4, <1>5, RequestStep
<1>6. CASE Update(r, IdleRequest) /\ config' = config
    BY <1>1, <1>2, <1>6, RequestStep, AbsentFacts DEF IdleRequest
<1>. QED
    BY <1>1, <1>5, <1>6

\* A reload goes to the end of the chain of its key.
LEMMA ReloadKeeps ==
    ASSUME IInv, NEW r \in Requests, Reload(r)
    PROVE  IInv'
<1>. DEFINE k == requests[r].key
<1>. /\ requests[r].pc = "saved"
     /\ queue' = [queue EXCEPT ![k] = Append(queue[k], r)]
     /\ requests' = [requests EXCEPT ![r] = [requests[r] EXCEPT !.pc = "wait"]]
     /\ UNCHANGED <<config, phase, boot, awaited, expired, tasks, live, worker,
                    running, executions, drift>>
    BY DEF Reload, Update, process, executor
<1>1. k \in Keys /\ queue[k] \in Seq(Requests)
    BY DEF IInv, TypeOK, Control, Keyed
<1>2. Append(queue[k], r) \in Seq(Requests)
    BY <1>1, AppendFacts
<1>3. TypeOK'
    BY <1>1, <1>2 DEF IInv, TypeOK, Request
<1>4. Keyed' /\ Empty' /\ LiveTasks'
    BY <1>1 DEF IInv, TypeOK, Control, Keyed, Empty, LiveTasks, LiveOf, Held, Request
<1>5. phase \notin {"down", "find", "apply", "abort"} /\ Unserved'
    BY DEF IInv, Control, Unserved
<1>6. Applying'
    <2>1. /\ Append(queue[k], r) # <<>>
          /\ queue[k] # <<>> => Head(Append(queue[k], r)) = Head(queue[k])
        BY <1>1, AppendFacts
    <2>2. \A j \in Keys : queue'[j] = IF j = k THEN Append(queue[k], r) ELSE queue[j]
        BY <1>1 DEF IInv, TypeOK
    <2>. QED
        BY <2>1, <2>2, <1>5 DEF IInv, Control, Applying
<1>7. Chain'
    <2>1. \A j \in Keys : \A i \in DOMAIN queue[j] : queue[j][i] # r
        BY DEF IInv, TypeOK, Control, Chain
    <2>2. requests'[r].pc = "wait" /\ requests'[r].key = k
        BY DEF IInv, TypeOK, Request
    <2>3. \A j \in Keys : \A i \in DOMAIN queue[j] :
            requests'[queue[j][i]] = requests[queue[j][i]]
        BY <2>1 DEF IInv, TypeOK
    <2>4. ASSUME NEW j \in Keys \ {k}
          PROVE  queue'[j] = queue[j]
        BY DEF IInv, TypeOK
    <2>5. \A i \in DOMAIN queue'[k] :
             \/ i \in DOMAIN queue[k] /\ queue'[k][i] = queue[k][i]
             \/ i = Len(queue[k]) + 1 /\ queue'[k][i] = r
        BY <1>1, AppendFacts DEF IInv, TypeOK
    <2>. QED
        BY <2>1, <2>2, <2>3, <2>4, <2>5 DEF IInv, Control, Chain
<1>. QED
    BY <1>3, <1>4, <1>5, <1>6, <1>7 DEF IInv, Control

\* The head of a chain is applied by an idle worker.
LEMMA BeginReloadKeeps ==
    ASSUME IInv, NEW k \in Keys, BeginReload(k)
    PROVE  IInv'
<1>1. /\ queue[k] # <<>> /\ worker[k].stage = "idle"
      /\ UNCHANGED <<config, tasks, live, running, executions, drift>>
    BY DEF BeginReload, executor
<1>2. phase \in {"up", "drain", "stop", "stopped"}
    BY <1>1 DEF IInv, TypeOK, Phase, Control, Unserved
<1>3. CASE phase = "up" /\ Proceed(k, "read", NoTask)
    <2>1. /\ ControlType' /\ Control'
          /\ worker' = [worker EXCEPT ![k] = [stage |-> "read", task |-> NoTask]]
          /\ phase' = phase
        BY <1>1, <1>3, ProceedKeepsControl
    <2>2. Empty' /\ LiveTasks'
        BY <2>1, <1>1, <1>3 DEF IInv, TypeOK, Empty, LiveTasks, LiveOf, Held
    <2>. QED
        BY <2>1, <2>2, <1>1 DEF IInv, TypeOK, ControlType
<1>4. CASE phase # "up" /\ End(k, TRUE)
    <2>1. /\ ControlType' /\ Control'
          /\ worker' = [worker EXCEPT ![k] = IdleWorker]
          /\ phase' = phase
        BY <1>1, <1>2, <1>4, EndKeepsControl
    <2>2. Empty' /\ LiveTasks'
        BY <2>1, <1>1, <1>2 DEF IInv, TypeOK, Empty, LiveTasks, LiveOf, Held, IdleWorker
    <2>. QED
        BY <2>1, <2>2, <1>1 DEF IInv, TypeOK, ControlType
<1>. QED
    BY <1>3, <1>4 DEF BeginReload

\* An application under way has a waiting reload, or is alone in initialize().
LEMMA UnderWay ==
    ASSUME IInv, NEW k \in Keys, worker[k].stage # "idle"
    PROVE  \/ /\ phase = "apply"
              /\ \A j \in Keys \ {k} : worker[j].stage = "idle"
           \/ phase \in {"up", "drain"} /\ queue[k] # <<>>
BY DEF IInv, Control, Applying

\* What the worker has read decides which task it starts or destroys.
LEMMA ReadConfigurationKeeps ==
    ASSUME IInv, NEW k \in Keys, ReadConfiguration(k)
    PROVE  IInv'
<1>1. /\ worker[k].stage = "read"
      /\ UNCHANGED <<config, tasks, live, running, executions>>
    BY DEF ReadConfiguration, executor
<1>2. config[k] \in Config /\ Refused(k, config[k]) \in BOOLEAN
    BY DEF IInv, TypeOK, Refused
<1>3. CASE Apply(k, config[k]) /\ drift' = [drift EXCEPT ![k] = Refused(k, config[k])]
    <2>1. ControlType' /\ Control' /\ Empty' /\ LiveTasks'
        BY <1>1, <1>2, <1>3, UnderWay, ApplyKeepsShape
    <2>2. drift' \in [Keys -> BOOLEAN]
        BY <1>2, <1>3 DEF IInv, TypeOK
    <2>. QED
        BY <2>1, <2>2, <1>1 DEF IInv, TypeOK, ControlType
<1>4. CASE End(k, FALSE) /\ drift' = [drift EXCEPT ![k] = TRUE]
    <2>1. /\ ControlType' /\ Control'
          /\ worker' = [worker EXCEPT ![k] = IdleWorker]
          /\ phase' = phase \/ (phase = "apply" /\ phase' = "abort")
        BY <1>1, <1>4, UnderWay, EndKeepsControl
    <2>2. Empty' /\ LiveTasks'
        BY <2>1, <1>1, UnderWay DEF IInv, TypeOK, Empty, LiveTasks, LiveOf, Held, IdleWorker
    <2>3. drift' \in [Keys -> BOOLEAN]
        BY <1>4 DEF IInv, TypeOK
    <2>. QED
        BY <2>1, <2>2, <2>3, <1>1 DEF IInv, TypeOK, ControlType
<1>. QED
    BY <1>3, <1>4 DEF ReadConfiguration

\* The new task is live beside the old one until the worker goes on.
LEMMA StartedKeeps ==
    ASSUME IInv, NEW k \in Keys, Started(k)
    PROVE  IInv'
<1>. DEFINE task == worker[k].task
<1>1. /\ worker[k].stage = "start"
      /\ live' = [live EXCEPT ![k] = live[k] \cup {task}]
      /\ tasks' = [tasks EXCEPT ![k] = task]
      /\ UNCHANGED <<config, running, executions, drift>>
    BY DEF Started, executor
<1>2. phase \in {"apply", "up", "drain"}
    BY <1>1, UnderWay
<1>3. task \in Task /\ task \notin live[k] /\ live[k] = Held(k)
    BY <1>1, <1>2 DEF IInv, LiveTasks, LiveOf
<1>4. /\ tasks' \in [Keys -> Task \cup {NoTask}] /\ live' \in [Keys -> SUBSET Task]
    BY <1>1, <1>3 DEF IInv, TypeOK
<1>5. /\ tasks'[k] = task /\ task # NoTask /\ live'[k] = live[k] \cup {task}
      /\ \A j \in Keys \ {k} : tasks'[j] = tasks[j] /\ live'[j] = live[j]
    BY <1>1, <1>3, TaskFacts DEF IInv, TypeOK
<1>6. CASE tasks[k] = NoTask /\ End(k, TRUE)
    <2>1. /\ ControlType' /\ Control'
          /\ worker' = [worker EXCEPT ![k] = IdleWorker]
          /\ phase' = phase \/ (phase = "apply" /\ phase' = "abort")
        BY <1>1, <1>6, UnderWay, EndKeepsControl
    <2>2. LiveOf(k)'
        BY <2>1, <1>3, <1>5, <1>6 DEF IInv, TypeOK, LiveOf, Held, IdleWorker
    <2>3. ASSUME NEW j \in Keys \ {k} PROVE LiveOf(j)'
        <3>1. LiveOf(j)
            BY <1>2 DEF IInv, LiveTasks
        <3>2. worker'[j] = worker[j]
            BY <2>1 DEF IInv, TypeOK
        <3>. QED
            BY <3>1, <3>2, <1>5, LiveFrame
    <2>. QED
        BY <2>1, <2>2, <2>3, <1>1, <1>2, <1>4
        DEF IInv, TypeOK, ControlType, Empty, LiveTasks
<1>7. CASE tasks[k] # NoTask /\ Proceed(k, "replace", tasks[k])
    <2>1. tasks[k] \in Task
        BY <1>7 DEF IInv, TypeOK
    <2>2. /\ ControlType' /\ Control'
          /\ worker' = [worker EXCEPT ![k] = [stage |-> "replace", task |-> tasks[k]]]
          /\ phase' = phase
        BY <2>1, <1>1, <1>7, UnderWay, ProceedKeepsControl
    <2>3. LiveOf(k)'
        <3>1. worker'[k].stage = "replace" /\ worker'[k].task = tasks[k]
            BY <2>2 DEF IInv, TypeOK
        <3>2. tasks[k] # task /\ live'[k] = {tasks[k], task}
            BY <1>3, <1>5, <1>7 DEF Held
        <3>. QED
            BY <3>1, <3>2, <1>5, <1>7 DEF LiveOf
    <2>4. ASSUME NEW j \in Keys \ {k} PROVE LiveOf(j)'
        <3>1. LiveOf(j)
            BY <1>2 DEF IInv, LiveTasks
        <3>2. worker'[j] = worker[j]
            BY <2>2 DEF IInv, TypeOK
        <3>. QED
            BY <3>1, <3>2, <1>5, LiveFrame
    <2>. QED
        BY <2>2, <2>3, <2>4, <1>1, <1>2, <1>4
        DEF IInv, TypeOK, ControlType, Empty, LiveTasks
<1>. QED
    BY <1>6, <1>7 DEF Started

\* A task that could not be started leaves the previous one in force.
LEMMA StartFailedKeeps ==
    ASSUME IInv, NEW k \in Keys, StartFailed(k)
    PROVE  IInv'
<1>1. /\ worker[k].stage = "start" /\ End(k, FALSE)
      /\ drift' = [drift EXCEPT ![k] = TRUE]
      /\ UNCHANGED <<config, tasks, live, running, executions>>
    BY DEF StartFailed, executor
<1>2. /\ ControlType' /\ Control'
      /\ worker' = [worker EXCEPT ![k] = IdleWorker]
      /\ phase' = phase \/ (phase = "apply" /\ phase' = "abort")
    BY <1>1, UnderWay, EndKeepsControl
<1>3. Empty' /\ LiveTasks'
    BY <1>1, <1>2, UnderWay DEF IInv, TypeOK, Empty, LiveTasks, LiveOf, Held, IdleWorker
<1>4. drift' \in [Keys -> BOOLEAN]
    BY <1>1 DEF IInv, TypeOK
<1>. QED
    BY <1>1, <1>2, <1>3, <1>4 DEF IInv, TypeOK, ControlType

\* The old task is gone and the new one is held.
LEMMA DestroyedKeeps ==
    ASSUME IInv, NEW k \in Keys, Destroyed(k)
    PROVE  IInv'
<1>. DEFINE task == worker[k].task
<1>1. /\ worker[k].stage \in {"replace", "remove"} /\ End(k, TRUE)
      /\ live' = [live EXCEPT ![k] = live[k] \ {task}]
      /\ tasks' = IF worker[k].stage = "remove"
                  THEN [tasks EXCEPT ![k] = NoTask] ELSE tasks
      /\ UNCHANGED <<config, running, executions, drift>>
    BY DEF Destroyed, executor
<1>2. /\ ControlType' /\ Control'
      /\ worker' = [worker EXCEPT ![k] = IdleWorker]
      /\ phase' = phase \/ (phase = "apply" /\ phase' = "abort")
    BY <1>1, UnderWay, EndKeepsControl
<1>3. phase \in {"apply", "up", "drain"} /\ LiveOf(k)
    BY <1>1, UnderWay DEF IInv, LiveTasks
<1>4. /\ tasks' \in [Keys -> Task \cup {NoTask}] /\ live' \in [Keys -> SUBSET Task]
    BY <1>1 DEF IInv, TypeOK
<1>5. LiveOf(k)'
    <2>1. worker'[k].stage = "idle"
        BY <1>2 DEF IInv, TypeOK, IdleWorker
    <2>2. live'[k] = live[k] \ {task}
        BY <1>1 DEF IInv, TypeOK
    <2>3. CASE worker[k].stage = "replace"
        BY <2>1, <2>2, <2>3, <1>1, <1>3 DEF LiveOf, Held
    <2>4. CASE worker[k].stage = "remove"
        <3>1. tasks'[k] = NoTask /\ live'[k] = {}
            BY <2>2, <2>4, <1>1, <1>3 DEF IInv, TypeOK, LiveOf
        <3>. QED
            BY <3>1, <2>1 DEF LiveOf, Held
    <2>. QED
        BY <2>3, <2>4, <1>1
<1>6. ASSUME NEW j \in Keys \ {k} PROVE LiveOf(j)'
    <2>1. LiveOf(j)
        BY <1>3 DEF IInv, LiveTasks
    <2>2. worker'[j] = worker[j]
        BY <1>2 DEF IInv, TypeOK
    <2>3. tasks'[j] = tasks[j] /\ live'[j] = live[j]
        BY <1>1 DEF IInv, TypeOK
    <2>. QED
        BY <2>1, <2>2, <2>3, LiveFrame
<1>. QED
    BY <1>1, <1>2, <1>3, <1>4, <1>5, <1>6 DEF IInv, TypeOK, ControlType, Empty, LiveTasks

\* Executions do not touch tasks, chains or requests.
LEMMA ExecutionKeeps ==
    ASSUME IInv, NEW k \in Keys, Fire(k) \/ EndRun(k)
    PROVE  IInv'
<1>1. UNCHANGED <<config, phase, boot, awaited, expired, tasks, live, queue, worker,
                  requests, drift>>
    BY DEF Fire, EndRun, process, scheduler
<1>2. running' \in [Keys -> TaskIds \cup {None}] /\ executions' \in [Keys -> SUBSET TaskIds]
    <2>1. CASE Fire(k)
        <3>1. PICK task \in live[k] :
                /\ running' = [running EXCEPT ![k] = task.id]
                /\ executions' = [executions EXCEPT ![k] = executions[k] \cup {task.id}]
            BY <2>1 DEF Fire
        <3>2. task.id \in TaskIds
            BY DEF IInv, TypeOK, Task
        <3>. QED
            BY <3>1, <3>2 DEF IInv, TypeOK
    <2>2. CASE EndRun(k)
        <3>1. PICK id \in executions[k] :
                /\ executions' = [executions EXCEPT ![k] = executions[k] \ {id}]
                /\ running' = IF running[k] = id THEN [running EXCEPT ![k] = None] ELSE running
            BY <2>2 DEF EndRun
        <3>. QED
            BY <3>1 DEF IInv, TypeOK
    <2>. QED
        BY <2>1, <2>2
<1>. QED
    BY <1>1, <1>2 DEF IInv, TypeOK, Control, Keyed, Unserved, Chain, Applying, Empty, LiveTasks,
                      LiveOf, Held

\* An edit of the collection touches nothing in memory.
LEMMA DirectChangeKeeps ==
    ASSUME IInv, NEW k \in Keys, DirectChange(k)
    PROVE  IInv'
<1>1. UNCHANGED <<phase, boot, awaited, expired, tasks, live, queue, worker,
                  running, executions, requests>>
    BY DEF DirectChange, process, scheduler, executor
<1>2. config' \in [Keys -> Config]
    <2>1. CASE config' = [config EXCEPT ![k] = [Absent EXCEPT !.version = config[k].version]]
        BY <2>1, AbsentFacts DEF IInv, TypeOK, Config
    <2>2. CASE \E enabled \in BOOLEAN, schedule \in Schedules \cup {Invalid}, version \in Version :
                 config' = [config EXCEPT ![k] =
                   [exists |-> TRUE, enabled |-> enabled, schedule |-> schedule,
                    version |-> version]]
        BY <2>2 DEF IInv, TypeOK, Config
    <2>. QED
        BY <2>1, <2>2 DEF DirectChange
<1>3. TypeOK'
    <2>1. drift' \in [Keys -> BOOLEAN]
        BY DEF DirectChange, IInv, TypeOK
    <2>. QED
        BY <2>1, <1>1, <1>2 DEF IInv, TypeOK
<1>4. (Control /\ Empty /\ LiveTasks)'
    BY <1>1 DEF IInv, Control, Keyed, Unserved, Chain, Applying, Empty, LiveTasks, LiveOf, Held
<1>. QED
    BY <1>3, <1>4 DEF IInv

\* The start goes through the keys with no request in the way.
LEMMA BootKeeps ==
    ASSUME IInv, Boot
    PROVE  IInv'
<1>1. ASSUME Start PROVE IInv'
    <2>1. config' \in [Keys -> Config]
        BY <1>1, DefaultAssumption DEF Start, IInv, TypeOK, Seeded, Config
    <2>. QED
        BY <2>1, <1>1 DEF Start, scheduler, executor, IInv, TypeOK, Phase, Control, Keyed,
            Unserved, Chain, Applying, Empty, LiveTasks, LiveOf, Held
<1>2. ASSUME FindAll PROVE IInv'
    BY <1>2 DEF FindAll, scheduler, executor, IInv, TypeOK, Phase, Control, Keyed, Unserved,
                Chain, Applying, Empty, LiveTasks, LiveOf, Held, IdleWorker
<1>3. ASSUME NEW k \in Keys, ApplyNext(k) PROVE IInv'
    <2>1. boot[k] \in Config
        BY DEF IInv, TypeOK
    <2>2. ControlType' /\ Control' /\ Empty' /\ LiveTasks'
        BY <2>1, <1>3, ApplyKeepsShape DEF ApplyNext
    <2>. QED
        BY <2>2, <1>3 DEF ApplyNext, executor, IInv, TypeOK, ControlType
<1>4. ASSUME Listen PROVE IInv'
    BY <1>4, AbsentFacts DEF Listen, scheduler, executor, IInv, TypeOK, Phase, Control, Keyed,
        Unserved, Chain, Applying, Empty, LiveTasks, LiveOf, Held
<1>. QED
    BY <1>1, <1>2, <1>3, <1>4 DEF Boot

\* The shutdown takes the tasks and awaits the chains.
LEMMA StopKeeps ==
    ASSUME IInv, Stop \/ Shutdown
    PROVE  IInv'
<1>1. ASSUME Shutdown PROVE IInv'
    <2>1. /\ phase = "up" /\ phase' = "drain"
          /\ awaited' = {r \in Requests : requests[r].pc = "wait"}
          /\ UNCHANGED <<config, boot, expired, tasks, live, queue, worker, running,
                         executions, requests, drift>>
        BY <1>1 DEF Shutdown, scheduler, executor
    <2>2. TypeOK'
        BY <2>1 DEF IInv, TypeOK, Phase
    <2>3. Applying'
        <3>1. ASSUME NEW k \in Keys, worker[k].stage # "idle"
              PROVE  queue[k] # <<>> /\ Head(queue[k]) \in awaited'
            <4>1. queue[k] # <<>> /\ queue[k] \in Seq(Requests)
                BY <3>1, <2>1 DEF IInv, TypeOK, Control, Applying
            <4>. QED
                BY <4>1, <2>1, TailFacts DEF IInv, Control, Chain
        <3>. QED
            BY <3>1, <2>1 DEF Applying
    <2>4. Keyed' /\ Unserved' /\ Chain' /\ Empty' /\ LiveTasks'
        BY <2>1 DEF IInv, Control, Keyed, Unserved, Chain, Empty, LiveTasks, LiveOf, Held
    <2>. QED
        BY <2>2, <2>3, <2>4 DEF IInv, Control
<1>2. ASSUME DestroyTasks PROVE IInv'
    <2>1. \A k \in Keys : worker[k].stage = "idle"
        BY <1>2 DEF DestroyTasks, IInv, Control, Applying
    <2>. QED
        BY <2>1, <1>2 DEF DestroyTasks, executor, IInv, TypeOK, Phase, Control, Keyed, Unserved,
                          Chain, Applying, Empty, LiveTasks
<1>3. ASSUME NEW timeout \in BOOLEAN, Stopped(timeout) PROVE IInv'
    <2>1. \A k \in Keys : worker[k].stage = "idle"
        BY <1>3 DEF Stopped, IInv, Control, Applying
    <2>. QED
        BY <2>1, <1>3 DEF Stopped, executor, IInv, TypeOK, Phase, Control, Keyed, Unserved,
                          Chain, Applying, Empty, LiveTasks
<1>4. ASSUME Exit PROVE IInv'
    BY <1>4, LostKeeps DEF Exit
<1>. QED
    BY <1>1, <1>2, <1>3, <1>4 DEF Stop

\* Every step keeps the invariant.
LEMMA Inductive == IInv /\ [Next]_vars => IInv'
<1>. SUFFICES ASSUME IInv, [Next]_vars PROVE IInv'
    OBVIOUS
<1>1. CASE \E r \in Requests : Configure(r) \/ Serve(r)
    BY <1>1, ConfigureKeeps, FindKeeps, SaveKeeps, ReloadKeeps DEF Serve
<1>2. CASE \E k \in Keys : Advance(k) \/ Fire(k) \/ EndRun(k) \/ DirectChange(k)
    BY <1>2, BeginReloadKeeps, ReadConfigurationKeeps, StartedKeeps, StartFailedKeeps,
       DestroyedKeeps, ExecutionKeeps, DirectChangeKeeps DEF Advance
<1>3. CASE Boot \/ Stop \/ Shutdown
    BY <1>3, BootKeeps, StopKeeps
<1>4. CASE Crash
    BY <1>4, LostKeeps DEF Crash
<1>5. CASE UNCHANGED vars
    BY <1>5 DEF vars, process, scheduler, executor, IInv, TypeOK, Control, Keyed, Unserved,
                Chain, Applying, Empty, LiveTasks, LiveOf, Held
<1>. QED
    BY <1>1, <1>2, <1>3, <1>4, <1>5 DEF Next

-----------------------------------------------------------------------------
(* The lock of a key                                                       *)

\* Every execution takes and returns the lock of its own key.
LEMMA LockedKeeps == TypeOK /\ Locked /\ [Next]_vars => Locked'
<1>. SUFFICES ASSUME TypeOK, Locked, [Next]_vars PROVE Locked'
    OBVIOUS
<1>1. ASSUME NEW k \in Keys, Fire(k) PROVE Locked'
    <2>1. PICK task \in live[k] :
            /\ running' = [running EXCEPT ![k] = task.id]
            /\ executions' = [executions EXCEPT ![k] = executions[k] \cup {task.id}]
        BY <1>1 DEF Fire
    <2>2. executions[k] = {} /\ task.id # None
        BY <1>1, NoneAssumption DEF Fire, Locked, TypeOK, Task
    <2>. QED
        BY <2>1, <2>2 DEF Locked, TypeOK
<1>2. ASSUME NEW k \in Keys, EndRun(k) PROVE Locked'
    <2>1. PICK id \in executions[k] :
            /\ executions' = [executions EXCEPT ![k] = executions[k] \ {id}]
            /\ running' = IF running[k] = id THEN [running EXCEPT ![k] = None] ELSE running
        BY <1>2 DEF EndRun
    <2>2. running[k] = id /\ executions[k] = {id}
        BY DEF Locked
    <2>. QED
        BY <2>1, <2>2 DEF Locked, TypeOK
<1>3. ASSUME Lost PROVE Locked'
    BY <1>3 DEF Lost, Locked
<1>4. ASSUME UNCHANGED executor PROVE Locked'
    BY <1>4 DEF executor, Locked
<1>. QED
    BY <1>1, <1>2, <1>3, <1>4
    DEF Next, vars, Serve, Configure, Find, Save, Reload, Advance, BeginReload,
        ReadConfiguration, Started, StartFailed, Destroyed, DirectChange, Boot, Start, FindAll,
        ApplyNext, Listen, Stop, DestroyTasks, Stopped, Exit, Shutdown, Crash

\* A shutdown ends before its deadline only when no handler runs.
LEMMA IdleKeeps == IInv /\ Locked /\ Idle /\ [Next]_vars => Idle'
<1>. SUFFICES ASSUME IInv, Locked, Idle, [Next]_vars, phase' = "stopped", ~expired',
                     NEW k \in Keys
              PROVE  executions'[k] = {}
    BY DEF Idle
<1>1. CASE phase = "stopped" /\ UNCHANGED <<expired, executor>>
    BY <1>1 DEF Idle, executor
<1>2. ASSUME NEW timeout \in BOOLEAN, Stopped(timeout) PROVE executions'[k] = {}
    BY <1>2 DEF Stopped, executor, Locked
<1>3. ASSUME NEW j \in Keys, Fire(j) PROVE FALSE
    BY <1>3 DEF Fire, process, IInv, LiveTasks
<1>4. ASSUME NEW j \in Keys, EndRun(j) PROVE FALSE
    BY <1>4 DEF EndRun, process, Idle
<1>5. phase' # "down" /\ ~Lost
    BY DEF Lost
<1>6. ASSUME NEW j \in Keys, NEW ok \in BOOLEAN, End(j, ok)
      PROVE  phase = "stopped" /\ UNCHANGED expired
    BY <1>6 DEF End
<1>7. ASSUME NEW j \in Keys, NEW c \in Config, Apply(j, c)
      PROVE  phase = "stopped" /\ UNCHANGED expired
    <2>1. (phase = "apply") \in BOOLEAN
        OBVIOUS
    <2>. QED
        BY <2>1, <1>6, <1>7 DEF Apply, Proceed, process
<1>8. ASSUME NEW j \in Keys, Advance(j) \/ ApplyNext(j)
      PROVE  phase = "stopped" /\ UNCHANGED <<expired, executor>>
    <2>1. boot[j] \in Config /\ config[j] \in Config
        BY DEF IInv, TypeOK
    <2>. QED
        BY <2>1, <1>6, <1>7, <1>8 DEF Advance, ApplyNext, BeginReload, ReadConfiguration,
            Started, StartFailed, Destroyed, Proceed, process
<1>9. ASSUME NEW r \in Requests, Configure(r) \/ Serve(r)
      PROVE  phase = "stopped" /\ UNCHANGED <<expired, executor>>
    BY <1>9 DEF Configure, Serve, Find, Save, Reload, process
<1>10. ASSUME NEW j \in Keys, DirectChange(j)
       PROVE  phase = "stopped" /\ UNCHANGED <<expired, executor>>
    BY <1>10 DEF DirectChange, process
<1>. QED
    BY <1>1, <1>2, <1>3, <1>4, <1>5, <1>8, <1>9, <1>10
    DEF Next, vars, process, Boot, Start, FindAll, Listen, Stop, DestroyTasks, Exit, Shutdown,
        Crash

-----------------------------------------------------------------------------
(* Saves                                                                   *)

\* Without direct edits a document changes only together with its version, so
\* a copy with the stored version is the stored document.
CopiesByVersion ==
    \A r \in Requests : requests[r].pc = "save" =>
        LET copy == requests[r].copy
            stored == config[requests[r].key]
        IN  /\ copy.version <= stored.version
            /\ copy.version = stored.version => copy = stored

\* A save that succeeds raises the version of its document by one.
LEMMA SaveBumpsVersion ==
    ASSUME IInv, NEW r \in Requests, requests[r].key \in Keys, SaveSucceeds(requests[r])
    PROVE  Stored(requests[r]).version = config[requests[r].key].version + 1
<1>. DEFINE request == requests[r]
            stored == config[request.key]
            desired == Desired(request)
<1>1. request \in Request /\ stored \in Config
    BY DEF IInv, TypeOK
<1>2. \A d \in Draft, v \in Nat : [d EXCEPT !.version = v].version = v
    BY DEF Draft
<1>3. \A d \in Draft : \A e, s : [d EXCEPT !.enabled = e, !.schedule = s].version = d.version
    BY DEF Draft
<1>4. /\ desired \in Draft
      /\ request.copy.exists => desired.version = request.copy.version + 1
    BY <1>1, DesiredIsDraft
<1>5. stored.version + 1 \in Nat
    BY <1>1, VersionAssumption DEF Config, Version
<1>. HIDE DEF desired
<1>6. CASE ~request.copy.exists
    <2>1. Stored(request) = [desired EXCEPT !.version = stored.version + 1]
        BY <1>6 DEF Stored, desired
    <2>. QED
        BY <2>1, <1>2, <1>4, <1>5
<1>7. CASE request.copy.exists
    <2>. DEFINE on == IF desired.enabled = request.copy.enabled
                      THEN stored.enabled ELSE desired.enabled
                at == IF desired.schedule = request.copy.schedule
                      THEN stored.schedule ELSE desired.schedule
    <2>1. Stored(request) = [desired EXCEPT !.enabled = on, !.schedule = at]
        BY <1>7 DEF Stored, desired
    <2>. HIDE DEF on, at
    <2>2. Stored(request).version = desired.version
        BY <2>1, <1>3, <1>4
    <2>. QED
        BY <2>2, <1>4, <1>7 DEF SaveSucceeds
<1>. QED
    BY <1>6, <1>7

\* The steps that neither look up nor save: a request keeps what it holds or ends.
LEMMA OtherSteps ==
    ASSUME IInv, ~DirectChanges, [Next]_vars,
           \A r \in Requests : ~Find(r) /\ ~Save(r)
    PROVE  /\ \A r \in Requests :
                requests'[r].pc = "save" =>
                    requests'[r] = requests[r] /\ UNCHANGED config
           /\ \A r \in Requests :
                requests'[r].pc = "saved" => requests[r].pc = "saved"
<1>. SUFFICES ASSUME NEW r \in Requests
              PROVE  /\ requests'[r].pc = "save" =>
                            requests'[r] = requests[r] /\ UNCHANGED config
                     /\ requests'[r].pc = "saved" => requests[r].pc = "saved"
    OBVIOUS
<1>1. ASSUME NEW q, NEW request,
             requests' = [requests EXCEPT ![q] = request],
             request.pc \notin {"save", "saved"},
             UNCHANGED config
      PROVE  /\ requests'[r].pc = "save" =>
                   requests'[r] = requests[r] /\ UNCHANGED config
             /\ requests'[r].pc = "saved" => requests[r].pc = "saved"
    BY <1>1 DEF IInv, TypeOK
<1>2. ASSUME NEW q \in Requests, Configure(q) \/ Reload(q)
      PROVE  \E request : /\ requests' = [requests EXCEPT ![q] = request]
                          /\ request.pc \notin {"save", "saved"}
                          /\ UNCHANGED config
    BY <1>2 DEF Configure, Reload, Update, IInv, TypeOK, Request
<1>3. ASSUME NEW k \in Keys, NEW ok \in BOOLEAN, End(k, ok)
      PROVE  \/ UNCHANGED requests
             \/ \E q : requests' = [requests EXCEPT ![q] = IdleRequest]
    BY <1>3 DEF End, Update
<1>4. ASSUME NEW k \in Keys, NEW c \in Config, Apply(k, c)
      PROVE  \/ UNCHANGED requests
             \/ \E q : requests' = [requests EXCEPT ![q] = IdleRequest]
    <2>1. (phase = "apply") \in BOOLEAN
        OBVIOUS
    <2>. QED
        BY <2>1, <1>3, <1>4 DEF Apply, Proceed
<1>5. ASSUME NEW k \in Keys, Advance(k) \/ ApplyNext(k)
      PROVE  /\ UNCHANGED config
             /\ \/ UNCHANGED requests
                \/ \E q : requests' = [requests EXCEPT ![q] = IdleRequest]
    <2>1. boot[k] \in Config /\ config[k] \in Config
        BY DEF IInv, TypeOK
    <2>. QED
        BY <2>1, <1>3, <1>4, <1>5 DEF Advance, ApplyNext, BeginReload, ReadConfiguration,
            Started, StartFailed, Destroyed, Proceed
<1>6. ASSUME Start
      PROVE  requests'[r].pc \notin {"save", "saved"}
    BY <1>6 DEF Start, IInv, Control, Unserved
<1>7. ASSUME Lost
      PROVE  requests'[r].pc \notin {"save", "saved"}
    BY <1>7 DEF Lost, IdleRequest
<1>8. CASE UNCHANGED <<config, requests>>
    BY <1>8
<1>9. CASE \E q \in Requests : Configure(q) \/ Reload(q)
    BY <1>9, <1>1, <1>2
<1>10. CASE \E k \in Keys : Advance(k) \/ ApplyNext(k)
    <2>1. IdleRequest.pc \notin {"save", "saved"}
        BY DEF IdleRequest
    <2>. QED
        BY <2>1, <1>1, <1>5, <1>8, <1>10
<1>11. CASE Start \/ Lost
    BY <1>6, <1>7, <1>11
<1>12. \/ UNCHANGED <<config, requests>>
       \/ \E q \in Requests : Configure(q) \/ Reload(q)
       \/ \E k \in Keys : Advance(k) \/ ApplyNext(k)
       \/ Start \/ Lost
    BY DEF Next, vars, Serve, Fire, EndRun, DirectChange, Boot, FindAll, Listen, Stop,
           DestroyTasks, Stopped, Exit, Shutdown, Crash
<1>. QED
    BY <1>8, <1>9, <1>10, <1>11, <1>12

\* A copy stays the document of its version.
LEMMA CopiesKeep ==
    ASSUME IInv, CopiesByVersion, ~DirectChanges, [Next]_vars
    PROVE  CopiesByVersion'
<1>1. ASSUME NEW q \in Requests, Find(q) PROVE CopiesByVersion'
    <2>. SUFFICES ASSUME NEW r \in Requests, requests'[r].pc = "save"
                  PROVE  LET copy == requests'[r].copy
                             stored == config'[requests'[r].key]
                         IN  /\ copy.version <= stored.version
                             /\ copy.version = stored.version => copy = stored
        BY DEF CopiesByVersion
    <2>1. config' = config
        BY <1>1 DEF Find
    <2>2. CASE r # q
        BY <2>1, <2>2, <1>1 DEF Find, Update, CopiesByVersion, IInv, TypeOK
    <2>3. CASE r = q
        <3>. DEFINE found == [requests[r] EXCEPT !.pc = "save", !.copy = config[requests[r].key]]
        <3>0. requests'[r] = found
            BY <2>3, <1>1 DEF Find, Update, IdleRequest, IInv, TypeOK
        <3>1. /\ requests'[r].copy = config[requests[r].key]
              /\ requests'[r].key = requests[r].key /\ requests[r].key \in Keys
            <4>1. requests[r] \in Request /\ requests[r].pc = "find"
                BY <2>3, <1>1 DEF Find, IInv, TypeOK
            <4>2. found.copy = config[requests[r].key] /\ found.key = requests[r].key
                BY <4>1 DEF Request
            <4>. HIDE DEF found
            <4>. QED
                BY <4>1, <4>2, <3>0 DEF IInv, Control, Keyed
        <3>2. config[requests[r].key].version \in Nat
            BY <3>1, VersionAssumption DEF IInv, TypeOK, Config, Version
        <3>. QED
            BY <3>1, <3>2, <2>1
    <2>. QED
        BY <2>2, <2>3
<1>2. ASSUME NEW q \in Requests, Save(q) PROVE CopiesByVersion'
    <2>. SUFFICES ASSUME NEW r \in Requests, requests'[r].pc = "save"
                  PROVE  LET copy == requests'[r].copy
                             stored == config'[requests'[r].key]
                         IN  /\ copy.version <= stored.version
                             /\ copy.version = stored.version => copy = stored
        BY DEF CopiesByVersion
    <2>1. requests'[r] = requests[r] /\ requests[r].pc = "save"
        <3>1. [requests[q] EXCEPT !.pc = "saved"].pc = "saved"
            BY DEF IInv, TypeOK, Request
        <3>. DEFINE saved == [requests[q] EXCEPT !.pc = "saved"]
        <3>2. r # q
            <4>1. requests'[q] = saved \/ requests'[q] = IdleRequest
                BY <1>2 DEF Save, Update, IInv, TypeOK
            <4>2. IdleRequest.pc = "idle"
                BY DEF IdleRequest
            <4>. HIDE DEF saved
            <4>3. requests'[q].pc # "save"
                BY <4>1, <4>2, <3>1 DEF saved
            <4>. QED
                BY <4>3
        <3>3. requests'[r] = requests[r]
            BY <3>2, <1>2 DEF Save, Update, IInv, TypeOK
        <3>. QED
            BY <3>3
    <2>2. /\ requests[q].key \in Keys /\ requests[r].key \in Keys
        BY <2>1, <1>2 DEF Save, IInv, Control, Keyed
    <2>3. /\ requests[r].copy.version \in Nat
          /\ config[requests[r].key].version \in Nat
        BY <2>2, VersionAssumption DEF IInv, TypeOK, Request, Config, Version
    <2>4. CASE config' = config
        BY <2>1, <2>4 DEF CopiesByVersion
    <2>5. CASE /\ SaveSucceeds(requests[q])
               /\ config' = [config EXCEPT ![requests[q].key] = Stored(requests[q])]
        <3>1. CASE requests[r].key # requests[q].key
            BY <3>1, <2>1, <2>2, <2>5 DEF CopiesByVersion, IInv, TypeOK
        <3>2. CASE requests[r].key = requests[q].key
            <4>1. config'[requests[r].key].version = config[requests[r].key].version + 1
                BY <3>2, <2>2, <2>5, SaveBumpsVersion DEF IInv, TypeOK
            <4>. QED
                BY <4>1, <2>1, <2>3 DEF CopiesByVersion
        <3>. QED
            BY <3>1, <3>2
    <2>. QED
        BY <2>4, <2>5, <1>2 DEF Save
<1>3. CASE \A r \in Requests : ~Find(r) /\ ~Save(r)
    BY <1>3, OtherSteps DEF CopiesByVersion
<1>. QED
    BY <1>1, <1>2, <1>3

\* A save that succeeds stores the configuration that is answered.
LEMMA SaveStoresAnswer ==
    ASSUME IInv, CopiesByVersion, ~DirectChanges, [Next]_vars, NEW r \in Requests,
           requests[r].pc = "save", requests'[r].pc = "saved"
    PROVE  LET answer == Desired(requests[r])
               stored == config'[requests[r].key]
           IN  stored.enabled = answer.enabled /\ stored.schedule = answer.schedule
<1>. DEFINE request == requests[r]
            stored == config[request.key]
            desired == Desired(request)
<1>1. Save(r)
    <2>1. PICK q \in Requests : Find(q) \/ Save(q)
        BY OtherSteps
    <2>2. ~Find(r)
        BY DEF Find
    <2>3. q = r
        BY <2>1 DEF Find, Save, Update, IInv, TypeOK
    <2>. QED
        BY <2>1, <2>2, <2>3
<1>2. request \in Request /\ request.key \in Keys /\ stored \in Config
    BY DEF IInv, TypeOK, Control, Keyed
<1>3. SaveSucceeds(request) /\ config'[request.key] = Stored(request)
    BY <1>1, <1>2 DEF Save, Update, IdleRequest, IInv, TypeOK
<1>4. desired \in Draft
    BY <1>2, DesiredIsDraft
<1>. HIDE DEF desired
<1>5. CASE ~request.copy.exists
    <2>1. Stored(request) = [desired EXCEPT !.version = stored.version + 1]
        BY <1>5 DEF Stored, desired
    <2>. QED
        BY <2>1, <1>3, <1>4 DEF Draft, desired
<1>6. CASE request.copy.exists
    <2>1. stored = request.copy
        BY <1>3, <1>6 DEF SaveSucceeds, CopiesByVersion
    <2>. DEFINE on == IF desired.enabled = request.copy.enabled
                      THEN stored.enabled ELSE desired.enabled
                at == IF desired.schedule = request.copy.schedule
                      THEN stored.schedule ELSE desired.schedule
    <2>2. Stored(request) = [desired EXCEPT !.enabled = on, !.schedule = at]
        BY <1>6 DEF Stored, desired
    <2>3. on = desired.enabled /\ at = desired.schedule
        BY <2>1
    <2>. HIDE DEF on, at
    <2>. QED
        BY <2>2, <2>3, <1>3, <1>4 DEF Draft, desired
<1>. QED
    BY <1>5, <1>6

-----------------------------------------------------------------------------
(* A settled job is scheduled as its stored configuration says             *)

\* A saved request of a job stays one.
SavedStay(k) ==
    \A r \in Requests : requests[r].key = k /\ requests[r].pc = "saved" =>
        requests'[r].key = k /\ requests'[r].pc = "saved"

\* What is not touched for a job leaves it as the collection wants it.
LEMMA FollowsFrame ==
    ASSUME NEW j \in Keys, Follows(j), SavedStay(j),
           phase' = phase \/ phase' \notin {"apply", "up"},
           config'[j] = config[j], boot'[j] = boot[j], worker'[j] = worker[j],
           tasks'[j] = tasks[j], drift'[j] = drift[j], queue'[j] = queue[j]
    PROVE  Follows(j)'
<1>1. /\ Wanted(j)' = Wanted(j)
      /\ Planned(j)' = Planned(j)
    BY DEF Wanted, Usable, Planned
<1>2. Pending(j) => Pending(j)'
    BY DEF Pending, SavedStay
<1>3. CASE phase' = phase
    BY <1>1, <1>2, <1>3 DEF Follows, Booting, Steady
<1>4. CASE phase' \notin {"apply", "up"}
    BY <1>4 DEF Follows, Booting, Steady
<1>. QED
    BY <1>3, <1>4

\* Of a process that is neither in initialize() nor up only the collection is asked
\* for: a document that is enabled exists.
LEMMA FollowsElsewhere ==
    ASSUME Applied, phase' \notin {"apply", "up"}, config' = config
    PROVE  Applied'
BY DEF Applied, Follows, Booting, Steady

\* A request that saves nothing and reloads nothing changes no job.
LEMMA RequestFollows ==
    ASSUME IInv, Applied, NEW r \in Requests, NEW request, Update(r, request),
           requests[r].pc # "saved",
           UNCHANGED <<config, phase, boot, tasks, queue, worker, drift>>
    PROVE  Applied'
<1>1. \A j \in Keys : SavedStay(j)
    BY DEF SavedStay, Update, IInv, TypeOK
<1>. QED
    BY <1>1, FollowsFrame DEF Applied

\* A save leaves a reload of its job to come.
LEMMA SaveFollows ==
    ASSUME IInv, Applied, NEW r \in Requests, Save(r)
    PROVE  Applied'
<1>. DEFINE request == requests[r]
            saved == [request EXCEPT !.pc = "saved"]
<1>0. PICK k \in Keys : request.key = k
    BY DEF Save, IInv, Control, Keyed
<1>1. /\ request.pc = "save" /\ request \in Request
      /\ UNCHANGED <<phase, boot, tasks, queue, worker, drift>>
    BY DEF Save, process, scheduler, IInv, TypeOK
<1>2. phase # "apply"
    BY <1>1 DEF IInv, Control, Unserved
<1>3. CASE Update(r, IdleRequest) /\ config' = config
    BY <1>1, <1>3, RequestFollows
<1>4. CASE /\ Update(r, saved) /\ SaveSucceeds(request)
           /\ config' = [config EXCEPT ![k] = Stored(request)]
    <2>1. saved.key = k /\ saved.pc = "saved"
        BY <1>0, <1>1 DEF Request
    <2>2. requests'[r] = saved /\ \A q \in Requests \ {r} : requests'[q] = requests[q]
        BY <1>4 DEF Update, IInv, TypeOK
    <2>. HIDE DEF saved
    <2>3. Pending(k)'
        BY <2>1, <2>2 DEF Pending
    <2>4. config'[k].exists
        <3>1. config'[k] = Stored(request)
            BY <1>4 DEF IInv, TypeOK
        <3>2. \A d \in Draft, v \in Nat : [d EXCEPT !.version = v].exists = d.exists
            BY DEF Draft
        <3>3. \A d \in Draft : \A e, s : [d EXCEPT !.enabled = e, !.schedule = s].exists = d.exists
            BY DEF Draft
        <3>. DEFINE base == IF request.copy.exists THEN request.copy
                            ELSE Seeded(request.copy.version)
                    desired == Desired(request)
        <3>4. base \in Draft /\ base.exists
            BY <1>1, DefaultAssumption, VersionAssumption
               DEF Request, Config, Draft, Seeded, Version
        <3>5. desired = [base EXCEPT !.enabled = Choose(request.input.enabled, base.enabled),
                             !.schedule = Choose(request.input.schedule, base.schedule),
                             !.version = base.version + 1]
            BY DEF Desired
        <3>. HIDE DEF base
        <3>6. desired.exists /\ desired \in Draft
            BY <1>1, <3>4, <3>5, DesiredIsDraft DEF Draft
        <3>. HIDE DEF desired
        <3>7. config[k].version + 1 \in Nat
            BY VersionAssumption DEF IInv, TypeOK, Config, Version
        <3>. QED
            BY <1>0, <3>1, <3>2, <3>3, <3>6, <3>7 DEF Stored, desired
    <2>5. Follows(k)'
        BY <1>1, <1>2, <2>3, <2>4 DEF Follows, Booting, Steady
    <2>6. ASSUME NEW j \in Keys \ {k} PROVE Follows(j)'
        <3>1. SavedStay(j)
            BY <2>2, <1>0, <1>1 DEF SavedStay
        <3>2. config'[j] = config[j]
            BY <1>4 DEF IInv, TypeOK
        <3>. QED
            BY <1>1, <3>1, <3>2, FollowsFrame DEF Applied
    <2>. QED
        BY <2>5, <2>6 DEF Applied
<1>. QED
    BY <1>0, <1>3, <1>4 DEF Save

\* A reload that is chained is still to read the collection.
LEMMA ReloadFollows ==
    ASSUME IInv, Applied, NEW r \in Requests, Reload(r)
    PROVE  Applied'
<1>. DEFINE waiting == [requests[r] EXCEPT !.pc = "wait"]
<1>0. PICK k \in Keys : requests[r].key = k
    BY DEF Reload, IInv, Control, Keyed
<1>1. /\ requests[r].pc = "saved" /\ requests[r] \in Request
      /\ queue[k] \in Seq(Requests)
      /\ queue' = [queue EXCEPT ![k] = Append(queue[k], r)]
      /\ requests' = [requests EXCEPT ![r] = waiting]
      /\ UNCHANGED <<config, phase, boot, tasks, worker, drift>>
    BY <1>0 DEF Reload, Update, process, IInv, TypeOK
<1>2. phase # "apply"
    BY <1>1 DEF IInv, Control, Unserved
<1>3. Follows(k)'
    <2>1. ASSUME phase = "up" PROVE Pending(k)'
        <3>1. queue'[k] = Append(queue[k], r) /\ queue'[k] # <<>>
            <4>1. Append(queue[k], r) # <<>>
                BY <1>1, AppendFacts
            <4>2. queue'[k] = Append(queue[k], r)
                BY <1>1 DEF IInv, TypeOK
            <4>. QED
                BY <4>1, <4>2
        <3>2. CASE queue[k] = <<>>
            <4>1. worker[k].stage = "idle"
                BY <3>2, <2>1, <1>1 DEF IInv, Control, Applying
            <4>. QED
                BY <4>1, <3>1, <1>1 DEF Pending
        <3>3. CASE queue[k] # <<>>
            <4>1. \A S : \A q \in Seq(S) : \A e \in S : q # <<>> => Tail(Append(q, e)) # <<>>
                <5>. SUFFICES ASSUME NEW S, NEW q \in Seq(S), NEW e \in S, q # <<>>
                              PROVE  Tail(Append(q, e)) # <<>>
                    OBVIOUS
                <5>1. Len(q) \in Nat \ {0}
                    OBVIOUS
                <5>2. Len(Append(q, e)) = Len(q) + 1
                    OBVIOUS
                <5>3. Append(q, e) \in Seq(S) /\ Append(q, e) # <<>>
                    BY AppendFacts
                <5>. DEFINE longer == Append(q, e)
                <5>. HIDE DEF longer
                <5>4. Len(Tail(longer)) = Len(longer) - 1
                    BY <5>3 DEF longer
                <5>5. Len(Tail(longer)) > 0
                    BY <5>1, <5>2, <5>4 DEF longer
                <5>6. \A t : Len(t) > 0 => t # <<>>
                    OBVIOUS
                <5>7. Tail(longer) # <<>>
                    BY <5>5, <5>6
                <5>. QED
                    BY <5>7 DEF longer
            <4>. QED
                BY <4>1, <3>1, <3>3, <1>1 DEF Pending
        <3>. QED
            BY <3>2, <3>3
    <2>. QED
        BY <2>1, <1>1, <1>2 DEF Applied, Follows, Booting, Steady
<1>4. ASSUME NEW j \in Keys \ {k} PROVE Follows(j)'
    <2>1. SavedStay(j)
        BY <1>0, <1>1 DEF SavedStay, IInv, TypeOK
    <2>2. queue'[j] = queue[j]
        BY <1>1 DEF IInv, TypeOK
    <2>. QED
        BY <1>1, <2>1, <2>2, FollowsFrame DEF Applied
<1>. QED
    BY <1>3, <1>4 DEF Applied

\* What the end of an application leaves as it was.
LEMMA EndFollows ==
    ASSUME IInv, Applied, NEW k \in Keys, NEW ok \in BOOLEAN, End(k, ok),
           phase = "apply" \/ (phase = "up" /\ queue[k] # <<>>)
    PROVE  /\ \A j \in Keys : SavedStay(j)
           /\ phase = "apply" => /\ phase' = IF ok THEN "apply" ELSE "abort"
                                 /\ ~boot'[k].exists
           /\ phase = "up" => phase' = "up"
           /\ phase = "up" /\ Tail(queue[k]) # <<>> => Pending(k)'
           /\ worker'[k] = IdleWorker
           /\ \A j \in Keys \ {k} : /\ boot'[j] = boot[j] /\ worker'[j] = worker[j]
                                    /\ queue'[j] = queue[j]
<1>1. worker'[k] = IdleWorker /\ \A j \in Keys \ {k} : worker'[j] = worker[j]
    BY DEF End, Work, IdleWorker, IInv, TypeOK
<1>2. CASE phase = "apply"
    <2>1. /\ phase' = IF ok THEN "apply" ELSE "abort"
          /\ boot' = [boot EXCEPT ![k] = Absent]
          /\ UNCHANGED <<queue, requests>>
        BY <1>2 DEF End
    <2>. QED
        BY <1>1, <1>2, <2>1 DEF SavedStay, IInv, TypeOK, Absent
<1>3. CASE phase = "up" /\ queue[k] # <<>>
    <2>1. /\ phase' = "up" /\ boot' = boot
          /\ queue' = [queue EXCEPT ![k] = Tail(queue[k])]
          /\ requests' = [requests EXCEPT ![Head(queue[k])] = IdleRequest]
        BY <1>3 DEF End, Update
    <2>2. queue[k] \in Seq(Requests)
        BY DEF IInv, TypeOK
    <2>3. requests[Head(queue[k])].pc = "wait"
        BY <2>2, <1>3, TailFacts DEF IInv, Control, Chain
    <2>4. \A j \in Keys : SavedStay(j)
        BY <2>1, <2>3 DEF SavedStay, IInv, TypeOK
    <2>5. queue'[k] = Tail(queue[k]) /\ \A j \in Keys \ {k} : queue'[j] = queue[j]
        BY <2>1 DEF IInv, TypeOK
    <2>6. Tail(queue[k]) # <<>> => Pending(k)'
        BY <2>5, <1>1 DEF Pending, IdleWorker
    <2>. QED
        BY <1>1, <1>3, <2>1, <2>4, <2>5, <2>6
<1>. QED
    BY <1>2, <1>3

\* The end of an application leaves the other jobs as they are.
LEMMA EndFollowsOthers ==
    ASSUME IInv, Applied, NEW k \in Keys, NEW ok \in BOOLEAN, End(k, ok),
           phase = "apply" \/ (phase = "up" /\ queue[k] # <<>>),
           config' = config,
           NEW j \in Keys \ {k}, tasks'[j] = tasks[j], drift'[j] = drift[j]
    PROVE  Follows(j)'
<1>1. SavedStay(j) /\ (phase' = phase \/ phase' \notin {"apply", "up"})
      /\ boot'[j] = boot[j] /\ worker'[j] = worker[j] /\ queue'[j] = queue[j]
    BY EndFollows
<1>. QED
    BY <1>1, FollowsFrame DEF Applied

\* An application that goes on leaves the other jobs as they are.
LEMMA ProceedFollowsOthers ==
    ASSUME IInv, Applied, NEW k \in Keys, NEW stage, NEW task, Proceed(k, stage, task),
           config' = config,
           NEW j \in Keys \ {k}, tasks'[j] = tasks[j], drift'[j] = drift[j]
    PROVE  Follows(j)'
<1>1. /\ worker'[j] = worker[j]
      /\ UNCHANGED <<phase, boot, queue, requests>>
    BY DEF Proceed, Work, process, IInv, TypeOK
<1>2. SavedStay(j)
    BY <1>1 DEF SavedStay
<1>. QED
    BY <1>1, <1>2, FollowsFrame DEF Applied

\* A step of an application that ends it as it was planned.
LEMMA EndAsPlanned ==
    ASSUME IInv, Applied, NEW k \in Keys, NEW ok \in BOOLEAN, End(k, ok),
           phase = "apply" \/ (phase = "up" /\ queue[k] # <<>>),
           config' = config,
           \A j \in Keys \ {k} : tasks'[j] = tasks[j] /\ drift'[j] = drift[j],
           \/ drift'[k]
           \/ /\ phase = "up" => Tail(queue[k]) # <<>> \/ Pending(k)' \/ Planned(k)' = Wanted(k)
              /\ phase = "apply" => Planned(k)' = Wanted(k)
    PROVE  Applied'
<1>1. \A j \in Keys \ {k} : Follows(j)'
    BY EndFollowsOthers
<1>2. Wanted(k)' = Wanted(k)
    BY DEF Wanted, Usable
<1>3. /\ phase' = phase \/ phase' = "abort"
      /\ phase = "up" /\ Tail(queue[k]) # <<>> => Pending(k)'
      /\ phase = "apply" => ~boot'[k].exists
      /\ worker'[k].stage = "idle"
    <2>1. IdleWorker.stage = "idle"
        BY DEF IdleWorker
    <2>. QED
        BY <2>1, EndFollows
<1>4. Booting(k)'
    BY <1>2, <1>3 DEF Booting
<1>5. Steady(k)'
    BY <1>2, <1>3 DEF Steady
<1>. QED
    BY <1>1, <1>4, <1>5 DEF Applied, Follows

\* What an application has read decides how the job is planned.
LEMMA ApplyFollows ==
    ASSUME IInv, Applied, NEW k \in Keys, NEW c \in Config, Apply(k, c),
           config' = config, tasks' = tasks,
           \A j \in Keys \ {k} : drift'[j] = drift[j],
           \/ phase = "apply" /\ boot[k].exists /\ c = boot[k] /\ drift'[k] = drift[k]
           \/ phase = "up" /\ queue[k] # <<>> /\ c = config[k] /\ drift'[k] = Refused(k, c)
    PROVE  Applied'
<1>1. /\ drift'[k] \/ c = config[k]
      /\ phase = "apply" => tasks[k] = NoTask
      /\ phase = "apply" \/ (phase = "up" /\ queue[k] # <<>>)
      /\ \A j \in Keys \ {k} : tasks'[j] = tasks[j] /\ drift'[j] = drift[j]
    BY DEF Applied, Follows, Booting, IInv, TypeOK
<1>2. ASSUME NEW ok \in BOOLEAN, End(k, ok), tasks[k] = NoTask,
             ~(c.enabled /\ Usable(k, c))
      PROVE  Applied'
    <2>1. worker'[k].stage = "idle"
        BY <1>1, <1>2, EndFollows DEF IdleWorker
    <2>2. Planned(k)' = {}
        BY <2>1, <1>2 DEF Planned
    <2>3. c = config[k] => Wanted(k) = {}
        BY <1>2 DEF Wanted
    <2>. QED
        BY <1>1, <1>2, <2>2, <2>3, EndAsPlanned
<1>3. ASSUME End(k, FALSE), phase = "up", drift'[k]
      PROVE  Applied'
    BY <1>1, <1>3, EndAsPlanned
<1>4. ASSUME NEW stage, NEW task, Proceed(k, stage, task),
             c = config[k] => Planned(k)' = Wanted(k),
             phase = "apply" => stage = "start"
      PROVE  Applied'
    <2>1. \A j \in Keys \ {k} : Follows(j)'
        BY <1>1, <1>4, ProceedFollowsOthers
    <2>2. Wanted(k)' = Wanted(k)
        BY DEF Wanted, Usable
    <2>3. phase' = phase /\ boot' = boot /\ worker'[k].stage = stage
        BY <1>4 DEF Proceed, Work, process, IInv, TypeOK
    <2>4. Booting(k)'
        BY <1>1, <1>4, <2>2, <2>3 DEF Booting, Applied, Follows
    <2>5. Steady(k)'
        BY <1>1, <1>4, <2>2, <2>3 DEF Steady
    <2>. QED
        BY <2>1, <2>4, <2>5 DEF Applied, Follows
<1>5. CASE ~c.enabled /\ tasks[k] = NoTask /\ End(k, TRUE)
    BY <1>2, <1>5
<1>6. CASE ~c.enabled /\ tasks[k] # NoTask /\ Proceed(k, "remove", tasks[k])
    <2>1. Planned(k)' = {}
        BY <1>6 DEF Planned, Proceed, Work, IInv, TypeOK
    <2>2. c = config[k] => Wanted(k) = {}
        BY <1>6 DEF Wanted
    <2>. QED
        BY <1>1, <1>4, <1>6, <2>1, <2>2
<1>7. CASE c.enabled /\ ~Usable(k, c) /\ End(k, phase = "apply")
    <2>1. CASE phase = "apply"
        <3>1. End(k, TRUE)
            BY <1>7, <2>1, Zenon
        <3>. QED
            BY <1>1, <1>2, <1>7, <2>1, <3>1
    <2>2. CASE phase = "up"
        <3>1. (phase = "apply") = FALSE
            BY <2>2
        <3>2. End(k, FALSE)
            BY <1>7, <3>1, Zenon
        <3>3. drift'[k]
            BY <1>7, <2>2 DEF Refused
        <3>. QED
            BY <1>3, <2>2, <3>2, <3>3
    <2>. QED
        BY <1>1, <2>1, <2>2
<1>8. CASE /\ c.enabled /\ Usable(k, c)
           /\ \E id \in FreshId(k) :
                Proceed(k, "start", [id |-> id, schedule |-> c.schedule])
    <2>1. PICK id \in FreshId(k) : Proceed(k, "start", [id |-> id, schedule |-> c.schedule])
        BY <1>8
    <2>2. Planned(k)' = {c.schedule}
        BY <2>1 DEF Planned, Proceed, Work, IInv, TypeOK
    <2>3. c = config[k] => Wanted(k) = {c.schedule}
        BY <1>8 DEF Wanted
    <2>. QED
        BY <1>4, <2>1, <2>2, <2>3
<1>. QED
    BY <1>5, <1>6, <1>7, <1>8 DEF Apply

\* A reload that has begun is still to read the collection.
LEMMA BeginReloadFollows ==
    ASSUME IInv, Applied, NEW k \in Keys, BeginReload(k)
    PROVE  Applied'
<1>1. /\ queue[k] # <<>> /\ UNCHANGED <<config, tasks, drift>>
    BY DEF BeginReload
<1>2. phase # "apply"
    BY <1>1 DEF IInv, Control, Unserved
<1>3. CASE phase = "up" /\ Proceed(k, "read", NoTask)
    <2>1. \A j \in Keys \ {k} : Follows(j)'
        BY <1>1, <1>3, ProceedFollowsOthers
    <2>2. Pending(k)' /\ phase' = phase
        BY <1>1, <1>3 DEF Pending, Proceed, Work, process, IInv, TypeOK
    <2>3. Follows(k)'
        BY <1>1, <1>2, <2>2 DEF Applied, Follows, Booting, Steady
    <2>. QED
        BY <2>1, <2>3 DEF Applied
<1>4. CASE phase # "up" /\ End(k, TRUE)
    BY <1>1, <1>2, <1>4, FollowsElsewhere DEF End
<1>. QED
    BY <1>3, <1>4 DEF BeginReload

\* A reload that has read the collection plans the job as the collection wants it.
LEMMA ReadConfigurationFollows ==
    ASSUME IInv, Applied, NEW k \in Keys, ReadConfiguration(k)
    PROVE  Applied'
<1>1. /\ worker[k].stage = "read" /\ UNCHANGED <<config, tasks>>
      /\ \A j \in Keys \ {k} : drift'[j] = drift[j]
    BY DEF ReadConfiguration, IInv, TypeOK
<1>2. phase \in {"up", "drain"} /\ queue[k] # <<>>
    BY <1>1, UnderWay DEF Applied, Follows, Booting
<1>3. CASE phase = "drain"
    <2>1. phase' = phase
        BY <1>3 DEF ReadConfiguration, Apply, Proceed, End, process
    <2>. QED
        BY <1>1, <1>3, <2>1, FollowsElsewhere
<1>4. CASE /\ phase = "up" /\ Apply(k, config[k])
           /\ drift' = [drift EXCEPT ![k] = Refused(k, config[k])]
    <2>1. config[k] \in Config /\ drift'[k] = Refused(k, config[k])
        BY <1>4 DEF IInv, TypeOK
    <2>. QED
        BY <1>1, <1>2, <1>4, <2>1, ApplyFollows
<1>5. CASE phase = "up" /\ End(k, FALSE) /\ drift' = [drift EXCEPT ![k] = TRUE]
    <2>1. drift'[k]
        BY <1>5 DEF IInv, TypeOK
    <2>2. \A j \in Keys \ {k} : tasks'[j] = tasks[j] /\ drift'[j] = drift[j]
        BY <1>1
    <2>. QED
        BY <1>1, <1>2, <1>5, <2>1, <2>2, EndAsPlanned
<1>. QED
    BY <1>2, <1>3, <1>4, <1>5 DEF ReadConfiguration

\* An application that has decided keeps its plan, unless it fails.
LEMMA PlanKept ==
    ASSUME IInv, Applied, NEW k \in Keys, End(k, TRUE),
           config' = config, drift' = drift,
           phase \in {"apply", "up"}, worker[k].stage \in {"start", "replace", "remove"},
           \A j \in Keys \ {k} : tasks'[j] = tasks[j],
           Planned(k)' = Planned(k)
    PROVE  Applied'
<1>1. phase = "apply" \/ (phase = "up" /\ queue[k] # <<>>)
    BY UnderWay
<1>2. TRUE \in BOOLEAN /\ SavedStay(k)
    BY <1>1, EndFollows
<1>3. ~Pending(k)' /\ Tail(queue[k]) = <<>> => ~Pending(k)
    BY <1>2 DEF Pending, SavedStay
<1>4. drift'[k] = drift[k]
    OBVIOUS
<1>5. phase = "up" /\ ~drift[k] /\ ~Pending(k) => Planned(k) = Wanted(k)
    BY DEF Applied, Follows, Steady
<1>6. phase = "apply" /\ ~drift[k] => Planned(k) = Wanted(k)
    BY DEF Applied, Follows, Booting
<1>. QED
    BY <1>1, <1>3, <1>4, <1>5, <1>6, EndAsPlanned

\* The new task is the planned one.
LEMMA StartedFollows ==
    ASSUME IInv, Applied, NEW k \in Keys, Started(k)
    PROVE  Applied'
<1>. DEFINE task == worker[k].task
<1>1. /\ worker[k].stage = "start" /\ UNCHANGED <<config, drift>>
      /\ tasks' = [tasks EXCEPT ![k] = task]
    BY DEF Started
<1>2. \A j \in Keys \ {k} : tasks'[j] = tasks[j]
    BY <1>1 DEF IInv, TypeOK
<1>3. phase \in {"apply", "up", "drain"}
    BY <1>1, UnderWay
<1>4. PICK new \in Task : new = task /\ tasks'[k] = new
    BY <1>1, <1>3 DEF IInv, TypeOK, LiveTasks, LiveOf
<1>5. Planned(k) = {new.schedule} /\ new # NoTask
    BY <1>1, <1>4, TaskFacts DEF Planned
<1>6. CASE phase = "drain"
    <2>1. phase' = phase
        BY <1>6 DEF Started, Proceed, End, process
    <2>. QED
        BY <1>1, <1>6, <2>1, FollowsElsewhere
<1>7. CASE phase \in {"apply", "up"} /\ tasks[k] = NoTask /\ End(k, TRUE)
    <2>1. worker'[k].stage = "idle"
        BY <1>7 DEF End, Work, IInv, TypeOK
    <2>2. Planned(k)' = Planned(k)
        BY <2>1, <1>4, <1>5 DEF Planned
    <2>. QED
        BY <1>1, <1>2, <1>7, <2>2, PlanKept
<1>8. CASE phase \in {"apply", "up"} /\ tasks[k] # NoTask /\ Proceed(k, "replace", tasks[k])
    <2>1. phase = "up"
        BY <1>1, <1>8 DEF Applied, Follows, Booting
    <2>2. /\ worker'[k].stage = "replace"
          /\ UNCHANGED <<phase, queue, requests>>
        BY <1>8 DEF Proceed, Work, process, IInv, TypeOK
    <2>3. Planned(k)' = Planned(k)
        BY <2>2, <1>4, <1>5 DEF Planned
    <2>4. Wanted(k)' = Wanted(k) /\ (Pending(k) => Pending(k)')
        BY <1>1, <2>2 DEF Wanted, Usable, Pending
    <2>5. Follows(k)'
        BY <1>1, <2>1, <2>2, <2>3, <2>4 DEF Applied, Follows, Booting, Steady
    <2>6. \A j \in Keys \ {k} : Follows(j)'
        BY <1>1, <1>2, <1>8, ProceedFollowsOthers
    <2>. QED
        BY <2>5, <2>6 DEF Applied
<1>. QED
    BY <1>3, <1>6, <1>7, <1>8 DEF Started

\* A start that fails is a failed reload, or gives the start of the server up.
LEMMA StartFailedFollows ==
    ASSUME IInv, Applied, NEW k \in Keys, StartFailed(k)
    PROVE  Applied'
<1>1. /\ worker[k].stage = "start" /\ End(k, FALSE) /\ UNCHANGED <<config, tasks>>
      /\ drift'[k] /\ \A j \in Keys \ {k} : tasks'[j] = tasks[j] /\ drift'[j] = drift[j]
    BY DEF StartFailed, IInv, TypeOK
<1>2. CASE phase \notin {"apply", "up"}
    BY <1>1, <1>2, FollowsElsewhere DEF End
<1>3. CASE phase \in {"apply", "up"}
    BY <1>1, <1>3, UnderWay, EndAsPlanned
<1>. QED
    BY <1>2, <1>3

\* The end of the replaced or of the removed task was planned.
LEMMA DestroyedFollows ==
    ASSUME IInv, Applied, NEW k \in Keys, Destroyed(k)
    PROVE  Applied'
<1>1. /\ worker[k].stage \in {"replace", "remove"} /\ UNCHANGED <<config, drift>>
      /\ End(k, TRUE)
      /\ tasks' = IF worker[k].stage = "remove"
                  THEN [tasks EXCEPT ![k] = NoTask] ELSE tasks
    BY DEF Destroyed
<1>2. \A j \in Keys \ {k} : tasks'[j] = tasks[j]
    BY <1>1 DEF IInv, TypeOK
<1>3. worker'[k].stage = "idle"
    BY <1>1 DEF End, Work, IInv, TypeOK
<1>4. CASE phase \notin {"apply", "up"}
    BY <1>1, <1>4, FollowsElsewhere DEF End
<1>5. CASE phase \in {"apply", "up"}
    <2>1. Planned(k)' = Planned(k)
        BY <1>1, <1>3 DEF Planned, IInv, TypeOK
    <2>. QED
        BY <1>1, <1>2, <1>5, <2>1, PlanKept
<1>. QED
    BY <1>4, <1>5

\* The start seeds, reads and applies the collection.
LEMMA BootFollows ==
    ASSUME IInv, Applied, Boot
    PROVE  Applied'
<1>1. CASE Start
    <2>1. phase' = "find"
        BY <1>1 DEF Start
    <2>2. ASSUME NEW k \in Keys PROVE config'[k].enabled => config'[k].exists
        BY <1>1 DEF Start, Seeded, Applied, Follows
    <2>. QED
        BY <2>1, <2>2 DEF Applied, Follows, Booting, Steady
<1>2. CASE FindAll
    <2>. SUFFICES ASSUME NEW k \in Keys PROVE Follows(k)'
        BY DEF Applied
    <2>1. /\ boot'[k] = config[k] /\ ~drift'[k] /\ phase' = "apply"
          /\ worker'[k].stage = "idle" /\ tasks'[k] = NoTask /\ config' = config
        BY <1>2 DEF FindAll, scheduler, IInv, Empty, IdleWorker
    <2>2. config[k].enabled => config[k].exists
        BY DEF Applied, Follows
    <2>3. ~config[k].exists => Planned(k)' = Wanted(k)'
        BY <2>1, <2>2 DEF Planned, Wanted
    <2>. QED
        BY <2>1, <2>2, <2>3 DEF Follows, Booting, Steady
<1>3. CASE \E k \in Keys : ApplyNext(k)
    <2>1. PICK k \in Keys : ApplyNext(k)
        BY <1>3
    <2>2. boot[k] \in Config
        BY DEF IInv, TypeOK
    <2>. QED
        BY <2>1, <2>2, ApplyFollows DEF ApplyNext
<1>4. CASE Listen
    <2>. SUFFICES ASSUME NEW k \in Keys PROVE Follows(k)'
        BY DEF Applied
    <2>1. /\ phase = "apply" /\ phase' = "up" /\ ~boot[k].exists
          /\ UNCHANGED <<config, tasks, worker, drift>>
        BY <1>4 DEF Listen, scheduler
    <2>2. Planned(k)' = Planned(k) /\ Wanted(k)' = Wanted(k)
        BY <2>1 DEF Planned, Wanted, Usable
    <2>. QED
        BY <2>1, <2>2 DEF Applied, Follows, Booting, Steady
<1>. QED
    BY <1>1, <1>2, <1>3, <1>4 DEF Boot

\* An edit of the collection is history.
LEMMA DirectChangeFollows ==
    ASSUME IInv, Applied, NEW k \in Keys, DirectChange(k)
    PROVE  Applied'
<1>1. /\ drift' = [drift EXCEPT ![k] = TRUE]
      /\ UNCHANGED <<phase, boot, tasks, queue, worker, requests>>
    BY DEF DirectChange, process, scheduler
<1>2. /\ config'[k].enabled => config'[k].exists
      /\ \A j \in Keys \ {k} : config'[j] = config[j]
    <2>1. \A v : ~[Absent EXCEPT !.version = v].enabled
        BY DEF Absent
    <2>2. PICK document : /\ document.enabled => document.exists
                          /\ config' = [config EXCEPT ![k] = document]
        <3>1. CASE \E enabled \in BOOLEAN, schedule \in Schedules \cup {Invalid},
                     version \in Version :
                  config' = [config EXCEPT ![k] =
                    [exists |-> TRUE, enabled |-> enabled, schedule |-> schedule,
                     version |-> version]]
            BY <3>1
        <3>2. CASE config' = [config EXCEPT ![k] = [Absent EXCEPT !.version = config[k].version]]
            BY <3>2, <2>1
        <3>. QED
            BY <3>1, <3>2 DEF DirectChange
    <2>. QED
        BY <2>2 DEF IInv, TypeOK
<1>3. Follows(k)'
    <2>1. drift'[k]
        BY <1>1 DEF IInv, TypeOK
    <2>. QED
        BY <1>1, <1>2, <2>1 DEF Applied, Follows, Booting, Steady
<1>4. ASSUME NEW j \in Keys \ {k} PROVE Follows(j)'
    <2>1. SavedStay(j) /\ drift'[j] = drift[j]
        BY <1>1 DEF SavedStay, IInv, TypeOK
    <2>. QED
        BY <1>1, <1>2, <2>1, FollowsFrame DEF Applied
<1>. QED
    BY <1>3, <1>4 DEF Applied

\* Every step leaves the jobs as the collection wants them, or a reload pending.
LEMMA AppliedKeeps == IInv /\ Applied /\ [Next]_vars => Applied'
<1>. SUFFICES ASSUME IInv, Applied, [Next]_vars PROVE Applied'
    OBVIOUS
<1>1. ASSUME UNCHANGED <<config, phase, boot, tasks, queue, worker, drift, requests>>
      PROVE  Applied'
    BY <1>1, FollowsFrame DEF Applied, SavedStay
<1>2. ASSUME NEW r \in Requests, Configure(r) PROVE Applied'
    BY <1>2, RequestFollows DEF Configure, process, scheduler
<1>3. ASSUME NEW r \in Requests, Find(r) PROVE Applied'
    <2>1. PICK request : Update(r, request)
        BY <1>3 DEF Find
    <2>. QED
        BY <1>3, <2>1, RequestFollows DEF Find, process, scheduler
<1>4. CASE \E k \in Keys : Fire(k) \/ EndRun(k)
    BY <1>1, <1>4 DEF Fire, EndRun, process, scheduler
<1>5. CASE \E k \in Keys : Advance(k)
    BY <1>5, BeginReloadFollows, ReadConfigurationFollows, StartedFollows,
       StartFailedFollows, DestroyedFollows DEF Advance
<1>6. CASE Shutdown \/ Stop \/ Crash
    BY <1>6, FollowsElsewhere DEF Shutdown, Stop, DestroyTasks, Stopped, Exit, Crash, Lost
<1>7. CASE UNCHANGED vars
    BY <1>1, <1>7 DEF vars, process, scheduler
<1>. QED
    BY <1>2, <1>3, <1>4, <1>5, <1>6, <1>7, SaveFollows, ReloadFollows, BootFollows,
       DirectChangeFollows DEF Next, Serve

-----------------------------------------------------------------------------
(* The theorems                                                            *)

\* The invariant holds in every state.
LEMMA Invariant == Spec => []IInv
BY Initially, Inductive, PTL DEF Spec

\* Every execution always holds the lock of its key.
LEMMA LockInvariant == Spec => []Locked
<1>1. Init => Locked
    BY DEF Init, Locked
<1>2. IInv => TypeOK
    BY DEF IInv
<1>. QED
    BY <1>1, <1>2, LockedKeeps, Invariant, PTL DEF Spec

\* Without direct edits a copy is always the document of its version.
LEMMA CopiesInvariant ==
    ASSUME ~DirectChanges
    PROVE  Spec => []CopiesByVersion
<1>1. Init => CopiesByVersion
    BY DEF Init, IdleRequest, CopiesByVersion
<1>2. IInv /\ CopiesByVersion /\ [Next]_vars => CopiesByVersion'
    BY CopiesKeep
<1>. QED
    BY <1>1, <1>2, Invariant, PTL DEF Spec

\* Every job is planned as the collection wants it, or has a reload pending.
LEMMA AppliedInvariant == Spec => []Applied
<1>1. Init => Applied
    BY DEF Init, Applied, Follows, Booting, Steady, Absent
<1>. QED
    BY <1>1, AppliedKeeps, Invariant, PTL DEF Spec

\* Before its deadline a shutdown that has ended has left no handler running.
LEMMA IdleInvariant == Spec => []Idle
<1>1. Init => Idle
    BY DEF Init, Idle
<1>. QED
    BY <1>1, IdleKeeps, Invariant, LockInvariant, PTL DEF Spec

\* The scheduler's state keeps its types.
THEOREM TypeCorrect == Spec => []TypeOK
<1>1. IInv => TypeOK
    BY DEF IInv
<1>. QED
    BY <1>1, Invariant, PTL

\* No handler of a job starts while another one of it runs, also when a reload
\* has left two live tasks of the job.
THEOREM JobsRunOnce == Spec => []OneExecution
<1>1. Locked => OneExecution
    BY DEF Locked, OneExecution
<1>. QED
    BY <1>1, LockInvariant, PTL

\* Whatever reloads raced or failed, the scheduler still holds every live task.
THEOREM TasksStayHeld == Spec => []NoOrphanTask
<1>1. IInv => NoOrphanTask
    BY DEF IInv, LiveTasks, LiveOf, Held, NoOrphanTask
<1>. QED
    BY <1>1, Invariant, PTL

\* shutdown() leaves no task and no application of one behind.
THEOREM ShutdownIsQuiet == Spec => []QuietAfterShutdown
<1>1. IInv /\ Idle => QuietAfterShutdown
    BY DEF IInv, Control, Applying, LiveTasks, Idle, QuietAfterShutdown
<1>. QED
    BY <1>1, Invariant, IdleInvariant, PTL

\* Unless somebody edits the collection directly, a configure request answers
\* with what it stored: versions keep concurrent requests from losing changes.
THEOREM AnswersAreStored ==
    ASSUME ~DirectChanges
    PROVE  Spec => AnswerIsStored
<1>1. IInv /\ CopiesByVersion /\ [Next]_vars =>
        [\A r \in Requests :
           requests[r].pc = "save" /\ requests'[r].pc = "saved" =>
              LET answer == Desired(requests[r])
                  stored == config'[requests[r].key]
              IN  stored.enabled = answer.enabled /\ stored.schedule = answer.schedule]_vars
    BY SaveStoresAnswer
<1>. QED
    BY <1>1, Invariant, CopiesInvariant, PTL DEF Spec, AnswerIsStored

\* When no change of a job waits for its reload, its live tasks are those its stored
\* configuration asks for, whatever requests, reloads and starts raced before.
THEOREM ConfigurationsInForce == Spec => []InForce
<1>1. IInv /\ Applied => InForce
    <2>. SUFFICES ASSUME IInv, Applied, NEW k \in Keys, Settled(k), ~drift[k]
                  PROVE  {task.schedule : task \in live[k]} = Wanted(k)
        BY DEF InForce, Wanted
    <2>1. phase = "up" /\ worker[k].stage = "idle"
        BY DEF Settled
    <2>2. queue[k] = <<>>
        <3>. SUFFICES ASSUME queue[k] # <<>> PROVE FALSE
            OBVIOUS
        <3>1. queue[k] \in Seq(Requests)
            BY DEF IInv, TypeOK
        <3>2. /\ Head(queue[k]) \in Requests
              /\ requests[Head(queue[k])].pc = "wait" /\ requests[Head(queue[k])].key = k
            BY <3>1, TailFacts DEF IInv, Control, Chain
        <3>. QED
            BY <3>2 DEF Settled
    <2>3. ~Pending(k)
        BY <2>2 DEF Pending, Settled
    <2>4. Planned(k) = Wanted(k)
        BY <2>1, <2>3 DEF Applied, Follows, Steady
    <2>5. live[k] = Held(k)
        BY <2>1 DEF IInv, LiveTasks, LiveOf
    <2>. QED
        BY <2>1, <2>4, <2>5 DEF Planned, Held
<1>. QED
    BY <1>1, Invariant, AppliedInvariant, PTL

\* A start is given up only for a task that could not be started, whatever
\* documents it finds: initialize() refuses none of them.
THEOREM BadDocumentsAreIgnored == Spec => StartIgnoresBadDocuments
<1>1. IInv /\ Applied /\ [Next]_vars =>
        [phase = "apply" /\ phase' = "abort" => \E k \in Keys : worker[k].stage = "start"]_vars
    <2>. SUFFICES ASSUME IInv, Applied, Next, phase = "apply", phase' = "abort"
                  PROVE  \E k \in Keys : worker[k].stage = "start"
        BY DEF vars, process
    <2>1. ASSUME NEW k \in Keys, NEW c, Apply(k, c) PROVE FALSE
        BY <2>1, Zenon DEF Apply, End, Proceed, process
    <2>2. ASSUME NEW k \in Keys PROVE ~BeginReload(k) /\ ~ReadConfiguration(k) /\ ~Destroyed(k)
        BY DEF BeginReload, ReadConfiguration, Destroyed, IInv, Control, Unserved,
               Applied, Follows, Booting
    <2>3. PICK k \in Keys : Advance(k)
        BY <2>1 DEF Next, Serve, Configure, Find, Save, Reload, Fire, EndRun, DirectChange,
               Boot, Start, FindAll, ApplyNext, Listen, Stop, DestroyTasks, Stopped, Exit,
               Shutdown, Crash, Lost, process
    <2>. QED
        BY <2>2, <2>3 DEF Advance, Started, StartFailed
<1>. QED
    BY <1>1, Invariant, AppliedInvariant, PTL DEF Spec, StartIgnoresBadDocuments

-----------------------------------------------------------------------------
(* The scheduler implements the service                                    *)

\* Without direct edits every document can be scheduled, so can what a request is
\* about to save, and what the start applies is the collection.
Proper ==
    /\ \A k \in Keys : config[k].exists => k \in Catalog /\ config[k].schedule \in Schedules
    /\ \A r \in Requests : requests[r].pc = "save" =>
         /\ requests[r].key \in Catalog
         /\ requests[r].copy.exists => requests[r].copy.schedule \in Schedules
    /\ phase = "apply" => \A k \in Keys : ~drift[k]

\* What a save stores can be scheduled if what it read and what it finds can.
LEMMA StoredIsProper ==
    ASSUME IInv, Proper, NEW r \in Requests, requests[r].pc = "save",
           SaveSucceeds(requests[r])
    PROVE  Stored(requests[r]).schedule \in Schedules
<1>. DEFINE request == requests[r]
            stored == config[request.key]
            desired == Desired(request)
            base == IF request.copy.exists THEN request.copy
                    ELSE Seeded(request.copy.version)
            chosen == Choose(request.input.schedule, base.schedule)
<1>1. request \in Request /\ request.key \in Keys /\ stored \in Config
    BY DEF IInv, TypeOK, Control, Keyed
<1>2. base \in Draft /\ base.schedule \in Schedules
    BY <1>1, DefaultAssumption, VersionAssumption
       DEF Request, Config, Draft, Seeded, Version, Proper
<1>3. request.input.schedule \in Schedules \cup {None}
    BY <1>1 DEF Request, Input
<1>4. chosen \in Schedules
    BY <1>2, <1>3 DEF Choose
<1>5. desired = [base EXCEPT !.enabled = Choose(request.input.enabled, base.enabled),
                     !.schedule = chosen, !.version = base.version + 1]
    BY DEF Desired
<1>6. desired \in Draft
    BY <1>1, DesiredIsDraft
<1>. HIDE DEF base, chosen
<1>7. desired.schedule = chosen
    BY <1>2, <1>5 DEF Draft
<1>. HIDE DEF desired
<1>8. CASE ~request.copy.exists
    <2>1. Stored(request) = [desired EXCEPT !.version = stored.version + 1]
        BY <1>8 DEF Stored, desired
    <2>2. \A v : [desired EXCEPT !.version = v].schedule = desired.schedule
        BY <1>6 DEF Draft
    <2>. QED
        BY <2>1, <2>2, <1>4, <1>7
<1>9. CASE request.copy.exists
    <2>. DEFINE on == IF desired.enabled = request.copy.enabled
                      THEN stored.enabled ELSE desired.enabled
                at == IF desired.schedule = request.copy.schedule
                      THEN stored.schedule ELSE desired.schedule
    <2>1. Stored(request) = [desired EXCEPT !.enabled = on, !.schedule = at]
        BY <1>9 DEF Stored, desired
    <2>2. at \in Schedules
        BY <1>1, <1>4, <1>7, <1>9 DEF SaveSucceeds, Proper
    <2>. HIDE DEF on, at
    <2>3. Stored(request).schedule = at
        BY <2>1, <1>6 DEF Draft
    <2>. QED
        BY <2>2, <2>3
<1>. QED
    BY <1>8, <1>9

\* No reload reads the collection during the start.
LEMMA NoReadDuringStart ==
    ASSUME IInv, Applied, NEW k \in Keys, ReadConfiguration(k)
    PROVE  phase \in {"up", "drain"} /\ queue[k] # <<>>
<1>1. worker[k].stage = "read"
    BY DEF ReadConfiguration
<1>. QED
    BY <1>1, UnderWay DEF Applied, Follows, Booting

\* The steps that neither save nor look up nor start leave what is proper so.
LEMMA ProperKeeps ==
    ASSUME IInv, Applied, Proper, ~DirectChanges, [Next]_vars
    PROVE  Proper'
<1>1. ASSUME NEW q \in Requests, Find(q) PROVE Proper'
    <2>1. /\ requests[q] \in Request /\ requests[q].pc = "find"
          /\ requests[q].key \in Keys /\ UNCHANGED <<config, phase, drift>>
        BY <1>1 DEF Find, process, IInv, TypeOK, Control, Keyed
    <2>. DEFINE found == [requests[q] EXCEPT !.pc = "save", !.copy = config[requests[q].key]]
    <2>2. found.key = requests[q].key /\ found.copy = config[requests[q].key]
        BY <2>1 DEF Request
    <2>3. IdleRequest.pc = "idle"
        BY DEF IdleRequest
    <2>4. \/ /\ config[requests[q].key].exists \/ requests[q].key \in Catalog
             /\ requests' = [requests EXCEPT ![q] = found]
          \/ requests' = [requests EXCEPT ![q] = IdleRequest]
        BY <1>1 DEF Find, Update
    <2>. HIDE DEF found
    <2>5. \A r \in Requests : r # q => requests'[r] = requests[r]
        BY <2>4 DEF IInv, TypeOK
    <2>6. requests'[q].pc = "save" =>
            /\ config[requests[q].key].exists \/ requests[q].key \in Catalog
            /\ requests'[q] = found
        BY <2>3, <2>4 DEF IInv, TypeOK
    <2>. QED
        BY <2>1, <2>2, <2>5, <2>6 DEF Proper
<1>2. ASSUME NEW q \in Requests, Save(q) PROVE Proper'
    <2>. DEFINE saved == [requests[q] EXCEPT !.pc = "saved"]
    <2>1. /\ requests[q].pc = "save" /\ UNCHANGED <<phase, drift>>
          /\ requests[q].key \in Keys /\ requests[q].key \in Catalog
        BY <1>2 DEF Save, process, IInv, Control, Keyed, Proper
    <2>2. saved.pc = "saved" /\ IdleRequest.pc = "idle"
        BY DEF IInv, TypeOK, Request, IdleRequest
    <2>3. /\ \/ requests' = [requests EXCEPT ![q] = saved]
             \/ requests' = [requests EXCEPT ![q] = IdleRequest]
          /\ \/ config' = config
             \/ /\ SaveSucceeds(requests[q])
                /\ config' = [config EXCEPT ![requests[q].key] = Stored(requests[q])]
        BY <1>2 DEF Save, Update
    <2>. HIDE DEF saved
    <2>4. \A r \in Requests : requests'[r].pc = "save" => requests'[r] = requests[r]
        BY <2>2, <2>3 DEF IInv, TypeOK
    <2>5. \A k \in Keys : config'[k].exists => k \in Catalog /\ config'[k].schedule \in Schedules
        BY <2>1, <2>3, StoredIsProper DEF Proper, IInv, TypeOK
    <2>. QED
        BY <2>1, <2>4, <2>5 DEF Proper
<1>3. CASE \A r \in Requests : ~Find(r) /\ ~Save(r)
    <2>1. \A r \in Requests : requests'[r].pc = "save" => requests'[r] = requests[r]
        BY <1>3, OtherSteps
    <2>2. config' = config \/ Start
        BY <1>3 DEF Next, vars, Serve, Configure, Reload, Advance, BeginReload,
           ReadConfiguration, Started, StartFailed, Destroyed, Fire, EndRun, DirectChange,
           Boot, FindAll, ApplyNext, Listen, Stop, DestroyTasks, Stopped, Exit, Shutdown,
           Crash, Lost
    <2>3. ASSUME Start
          PROVE  \A k \in Keys : config'[k].exists =>
                    k \in Catalog /\ config'[k].schedule \in Schedules
        BY <2>3, DefaultAssumption DEF Start, Seeded, Proper
    <2>4. ASSUME phase' = "apply" PROVE \A k \in Keys : ~drift'[k]
        <3>1. CASE FindAll
            BY <3>1 DEF FindAll
        <3>2. CASE ~FindAll
            <4>1. \A k \in Keys : ~ReadConfiguration(k)
                <5>1. ASSUME NEW k \in Keys, ReadConfiguration(k) PROVE FALSE
                    <6>1. phase \in {"up", "drain"}
                        BY <5>1, NoReadDuringStart
                    <6>2. phase' = phase
                        BY <5>1, <6>1 DEF ReadConfiguration, Apply, Proceed, End, process
                    <6>. QED
                        BY <6>1, <6>2, <2>4
                <5>. QED
                    BY <5>1
            <4>2. \A k \in Keys : ~StartFailed(k)
                <5>1. ASSUME NEW k \in Keys, StartFailed(k) PROVE FALSE
                    <6>1. phase' # "apply"
                        BY <5>1 DEF StartFailed, End
                    <6>. QED
                        BY <6>1, <2>4
                <5>. QED
                    BY <5>1
            <4>3. phase = "apply" /\ drift' = drift
                BY <1>3, <2>4, <3>2, <4>1, <4>2 DEF Next, vars, Serve, Configure, Reload,
                   Advance, BeginReload, Started, Destroyed, Proceed, End, process, Fire,
                   EndRun, DirectChange, Boot, Start, ApplyNext, Apply, Listen, Stop,
                   DestroyTasks, Stopped, Exit, Shutdown, Crash, Lost
            <4>. QED
                BY <4>3 DEF Proper
        <3>. QED
            BY <3>1, <3>2
    <2>. QED
        BY <2>1, <2>2, <2>3, <2>4 DEF Proper
<1>. QED
    BY <1>1, <1>2, <1>3

-----------------------------------------------------------------------------
(* How the view of the service changes                                     *)

\* A function that has changed in one place is the old one but for that place.
LEMMA OneChanged ==
    ASSUME NEW S, NEW f, NEW g, NEW a \in S,
           f = [x \in S |-> f[x]], g = [x \in S |-> g[x]],
           \A x \in S \ {a} : g[x] = f[x]
    PROVE  g = [f EXCEPT ![a] = g[a]]
OBVIOUS

\* The view is made of functions.
LEMMA ViewFunctions ==
    /\ Asked = [k \in Keys |-> Asked[k]]
    /\ Intended = [k \in Keys |-> Intended[k]]
    /\ Current = [k \in Keys |-> Current[k]]
    /\ Troubled = [k \in Keys |-> Troubled[k]]
    /\ Progress = [r \in Requests |-> Progress[r]]
BY DEF Asked, Intended, Current, Troubled, Progress

\* The same function.
LEMMA Unchanged ==
    ASSUME NEW S, NEW f, NEW g, f = [x \in S |-> f[x]], g = [x \in S |-> g[x]],
           \A x \in S : g[x] = f[x]
    PROVE  g = f
OBVIOUS

\* What the jobs look like depends on no request.
LEMMA JobsSame ==
    ASSUME UNCHANGED <<config, phase, tasks, worker, drift>>
    PROVE  UNCHANGED <<Asked, Intended, Current, Troubled, Availability>>
BY DEF Asked, Usable, Intended, Current, Troubled, Availability

\* A configuration is asked for as long as the collection does not change.
LEMMA AskedSame == ASSUME config' = config PROVE Asked' = Asked
BY DEF Asked, Usable

\* What a request looks like depends on itself and on the work at its job.
LEMMA ProgressFrame ==
    ASSUME NEW q \in Requests, requests'[q] = requests[q],
           requests[q].pc = "wait" => (Fetched(q)' <=> Fetched(q))
    PROVE  Progress'[q] = Progress[q]
<1>1. Fetched(q)' <=> Fetched(q)
    BY DEF Fetched
<1>. QED
    BY <1>1 DEF Progress

\* What idle, open, stored and taken requests look like.
LEMMA ProgressOf ==
    ASSUME NEW q \in Requests
    PROVE  /\ requests[q] = IdleRequest => Progress[q] = Service!Idle
           /\ requests[q].pc \in {"find", "save"} =>
                Progress[q] = [state |-> "open", key |-> requests[q].key]
           /\ requests[q].pc = "saved" =>
                Progress[q] = [state |-> "stored", key |-> requests[q].key]
           /\ requests[q].pc = "wait" =>
                Progress[q] = [state |-> IF Fetched(q) THEN "taken" ELSE "stored",
                               key |-> requests[q].key]
BY DEF Progress, Fetched, Service!Idle, IdleRequest

\* What a request that waits will look like.
LEMMA ProgressNext ==
    ASSUME NEW q \in Requests, requests'[q].pc = "wait"
    PROVE  /\ Fetched(q)' => Progress'[q] = [state |-> "taken", key |-> requests'[q].key]
           /\ ~Fetched(q)' => Progress'[q] = [state |-> "stored", key |-> requests'[q].key]
BY DEF Progress

\* A request that changes alone, and is not fetched, is all that changes.
LEMMA RequestView ==
    ASSUME TypeOK, NEW r \in Requests, NEW request, Update(r, request),
           UNCHANGED <<config, phase, tasks, worker, queue, drift>>
    PROVE  /\ UNCHANGED <<Asked, Intended, Current, Troubled, Availability>>
           /\ requests'[r] = request
           /\ Progress' = [Progress EXCEPT ![r] = Progress'[r]]
<1>1. requests'[r] = request /\ \A q \in Requests \ {r} : requests'[q] = requests[q]
    BY DEF Update, TypeOK
<1>2. \A q \in Requests \ {r} : Progress'[q] = Progress[q]
    BY <1>1, ProgressFrame DEF Fetched
<1>3. Progress' = [q \in Requests |-> Progress'[q]]
    BY DEF Progress
<1>. QED
    BY <1>1, <1>2, <1>3, JobsSame, ViewFunctions, OneChanged

\* Work is done only for the head of a chain.
LEMMA FetchedIsHead ==
    ASSUME IInv, NEW r \in Requests, Fetched(r)
    PROVE  /\ requests[r].key \in Keys /\ phase \in {"up", "drain"}
           /\ queue[requests[r].key] # <<>> /\ r = Head(queue[requests[r].key])
<1>1. requests[r].key \in Keys /\ worker[requests[r].key].stage # "idle"
    BY DEF Fetched, IInv, Control, Keyed
<1>2. phase # "apply"
    BY DEF Fetched, IInv, Control, Unserved
<1>. QED
    BY <1>1, <1>2, UnderWay DEF Fetched

\* A chain's head is a waiting request of its job.
LEMMA HeadWaits ==
    ASSUME IInv, NEW k \in Keys, queue[k] # <<>>
    PROVE  /\ Head(queue[k]) \in Requests
           /\ requests[Head(queue[k])].pc = "wait"
           /\ requests[Head(queue[k])].key = k
           /\ phase \in {"up", "drain", "stop", "stopped"}
<1>1. queue[k] \in Seq(Requests)
    BY DEF IInv, TypeOK
<1>2. phase \notin {"down", "find", "apply", "abort"}
    BY DEF IInv, Control, Unserved
<1>. QED
    BY <1>1, <1>2, TailFacts DEF IInv, TypeOK, Phase, Control, Chain

\* Of one job one request at most is being brought in force.
LEMMA TakenIsFetched ==
    ASSUME IInv, NEW k \in Keys
    PROVE  Service!Taken(k) =>
              worker[k].stage \in {"start", "replace", "remove"} /\ queue[k] # <<>>
<1>. SUFFICES ASSUME NEW r \in Requests, Progress[r] = [state |-> "taken", key |-> k]
              PROVE  worker[k].stage \in {"start", "replace", "remove"} /\ queue[k] # <<>>
    BY DEF Service!Taken
<1>1. Progress[r].state = "taken" /\ Progress[r].key = requests[r].key
    BY DEF Progress
<1>2. requests[r].pc \in {"idle", "find", "save", "saved", "wait"}
    BY DEF IInv, TypeOK, Request
<1>3. Fetched(r) /\ requests[r].key = k
    BY <1>1, <1>2 DEF Progress
<1>. QED
    BY <1>3, FetchedIsHead DEF Fetched

\* The end of a reload answers the head of the chain, and no other request.
LEMMA EndView ==
    ASSUME IInv, NEW k \in Keys, NEW ok \in BOOLEAN, End(k, ok),
           phase # "apply", queue[k] # <<>>
    PROVE  \E r \in Requests :
             /\ Progress[r] = [state |-> IF worker[k].stage \in {"start", "replace", "remove"}
                                         THEN "taken" ELSE "stored", key |-> k]
             /\ Progress' = [Progress EXCEPT ![r] = Service!Idle]
<1>. DEFINE r == Head(queue[k])
<1>1. /\ r \in Requests /\ requests[r].pc = "wait" /\ requests[r].key = k
    BY HeadWaits
<1>2. /\ requests' = [requests EXCEPT ![r] = IdleRequest]
      /\ queue' = [queue EXCEPT ![k] = Tail(queue[k])]
      /\ worker' = [worker EXCEPT ![k] = IdleWorker]
    BY DEF End, Work, Update, IdleWorker
<1>3. /\ \A q \in Requests \ {r} : requests'[q] = requests[q]
      /\ requests'[r] = IdleRequest
      /\ worker'[k].stage = "idle"
      /\ \A j \in Keys \ {k} : worker'[j] = worker[j] /\ queue'[j] = queue[j]
    BY <1>1, <1>2 DEF IInv, TypeOK, IdleWorker
<1>4. ASSUME NEW q \in Requests \ {r} PROVE Progress'[q] = Progress[q]
    <2>1. ASSUME requests[q].pc = "wait" PROVE Fetched(q)' <=> Fetched(q)
        <3>1. requests[q].key \in Keys
            BY <2>1 DEF IInv, Control, Keyed
        <3>2. CASE requests[q].key = k
            BY <1>3, <3>2 DEF Fetched
        <3>3. CASE requests[q].key # k
            BY <1>3, <3>1, <3>3 DEF Fetched
        <3>. QED
            BY <3>2, <3>3
    <2>. QED
        BY <1>3, <2>1, ProgressFrame
<1>5. Progress'[r] = Service!Idle
    BY <1>1, <1>3 DEF Progress, IdleRequest, Service!Idle
<1>6. Progress[r] = [state |-> IF worker[k].stage \in {"start", "replace", "remove"}
                               THEN "taken" ELSE "stored", key |-> k]
    <2>1. Fetched(r) <=> worker[k].stage \in {"start", "replace", "remove"}
        BY <1>1 DEF Fetched
    <2>. QED
        BY <1>1, <2>1, ProgressOf
<1>7. Progress' = [q \in Requests |-> Progress'[q]]
    BY DEF Progress
<1>8. Progress' = [Progress EXCEPT ![r] = Progress'[r]]
    BY <1>1, <1>4, <1>7, ViewFunctions, OneChanged
<1>. QED
    BY <1>1, <1>5, <1>6, <1>8

\* During the start there are no requests.
LEMMA NobodyAsks ==
    ASSUME IInv, phase \in {"down", "find", "apply", "abort"}, requests' = requests
    PROVE  Progress' = Progress
<1>1. ASSUME NEW q \in Requests PROVE Progress'[q] = Progress[q]
    <2>1. requests[q].pc = "idle"
        BY DEF IInv, Control, Unserved
    <2>. QED
        BY <2>1, ProgressFrame
<1>2. Progress' = [q \in Requests |-> Progress'[q]]
    BY DEF Progress
<1>. QED
    BY <1>1, <1>2, ViewFunctions, Unchanged

\* Where nothing is done that anybody asked for, every request stays where it was.
LEMMA ProgressSame ==
    ASSUME requests' = requests, queue' = queue,
           \A k \in Keys : worker'[k].stage = worker[k].stage \/
               {worker[k].stage, worker'[k].stage} \in
                  {{"idle", "read"}, {"start", "replace"}},
           IInv
    PROVE  Progress' = Progress
<1>1. ASSUME NEW q \in Requests PROVE Progress'[q] = Progress[q]
    <2>1. ASSUME requests[q].pc = "wait" PROVE Fetched(q)' <=> Fetched(q)
        <3>. DEFINE k == requests[q].key
        <3>1. k \in Keys
            BY <2>1 DEF IInv, Control, Keyed
        <3>2. worker'[k].stage \in {"start", "replace", "remove"} <=>
                worker[k].stage \in {"start", "replace", "remove"}
            BY <3>1
        <3>. QED
            BY <3>2 DEF Fetched
    <2>. QED
        BY <2>1, ProgressFrame
<1>2. Progress' = [q \in Requests |-> Progress'[q]]
    BY DEF Progress
<1>. QED
    BY <1>1, <1>2, ViewFunctions, Unchanged

-----------------------------------------------------------------------------
(* The steps of requests                                                   *)

\* Accepted by a server that is up.
LEMMA ConfigureCalls ==
    ASSUME IInv, NEW r \in Requests, Configure(r)
    PROVE  Service!Next
<1>1. PICK k \in Keys, input \in Inputs :
         Update(r, [pc |-> "find", key |-> k, input |-> input, copy |-> Absent])
    BY DEF Configure
<1>2. /\ UNCHANGED <<Asked, Intended, Current, Troubled, Availability>>
      /\ requests'[r] = [pc |-> "find", key |-> k, input |-> input, copy |-> Absent]
      /\ Progress' = [Progress EXCEPT ![r] = Progress'[r]]
    BY <1>1, RequestView DEF Configure, process, scheduler, IInv
<1>3. Progress'[r] = [state |-> "open", key |-> k]
    BY <1>2 DEF Progress
<1>4. requests[r].pc = "idle" /\ phase = "up"
    BY DEF Configure
<1>5. Progress[r].state = "idle" /\ Availability = "serving"
    BY <1>4 DEF Progress, Availability
<1>6. Service!Call(r)
    BY <1>2, <1>3, <1>5 DEF Service!Call, Service!Set
<1>. QED
    BY <1>6 DEF Service!Next

\* A request that ends before it saved is refused.
LEMMA RefusalMaps ==
    ASSUME IInv, NEW r \in Requests, requests[r].pc \in {"find", "save"},
           Update(r, IdleRequest),
           UNCHANGED <<config, phase, tasks, worker, queue, drift>>
    PROVE  Service!Next
<1>1. /\ UNCHANGED <<Asked, Intended, Current, Troubled, Availability>>
      /\ requests'[r] = IdleRequest
      /\ Progress' = [Progress EXCEPT ![r] = Progress'[r]]
    BY RequestView DEF IInv
<1>2. Progress'[r] = Service!Idle
    BY <1>1 DEF Progress, IdleRequest, Service!Idle
<1>3. Progress[r].state = "open"
    BY DEF Progress
<1>4. Service!Refuse(r)
    BY <1>1, <1>2, <1>3 DEF Service!Refuse, Service!Set
<1>. QED
    BY <1>4 DEF Service!Next, Service!Answer

\* Looking the document up shows nothing, unless there is none to be.
LEMMA FindMaps ==
    ASSUME IInv, NEW r \in Requests, Find(r)
    PROVE  Service!Next \/ UNCHANGED Service!vars
<1>. DEFINE found == [requests[r] EXCEPT !.pc = "save", !.copy = config[requests[r].key]]
<1>1. /\ requests[r].pc = "find" /\ requests[r] \in Request
      /\ UNCHANGED <<config, phase, tasks, worker, queue, drift>>
    BY DEF Find, process, scheduler, IInv, TypeOK
<1>2. found.pc = "save" /\ found.key = requests[r].key
    BY <1>1 DEF Request
<1>3. Update(r, found) \/ Update(r, IdleRequest)
    BY DEF Find
<1>. HIDE DEF found
<1>4. CASE Update(r, found)
    <2>1. /\ UNCHANGED <<Asked, Intended, Current, Troubled, Availability>>
          /\ requests'[r] = found
          /\ Progress' = [Progress EXCEPT ![r] = Progress'[r]]
        BY <1>1, <1>4, RequestView DEF IInv
    <2>2. Progress'[r] = Progress[r]
        BY <1>1, <1>2, <2>1 DEF Progress
    <2>3. Progress' = Progress
        BY <2>1, <2>2, ViewFunctions
    <2>. QED
        BY <2>1, <2>3 DEF Service!vars
<1>. QED
    BY <1>1, <1>3, <1>4, RefusalMaps

\* A save is the store of a call: what it stores can be scheduled, if it is enabled.
LEMMA SaveMaps ==
    ASSUME IInv, NEW r \in Requests, Save(r)
    PROVE  Service!Next
<1>. DEFINE saved == [requests[r] EXCEPT !.pc = "saved"]
            k == requests[r].key
<1>1. /\ requests[r].pc = "save" /\ requests[r] \in Request /\ k \in Keys
      /\ UNCHANGED <<phase, tasks, worker, queue, drift>>
    BY DEF Save, process, scheduler, IInv, TypeOK, Control, Keyed
<1>2. saved.pc = "saved" /\ saved.key = k
    BY <1>1 DEF Request
<1>3. CASE Update(r, IdleRequest) /\ config' = config
    BY <1>1, <1>3, RefusalMaps
<1>4. CASE Update(r, saved) /\ config' = [config EXCEPT ![k] = Stored(requests[r])]
    <2>. HIDE DEF saved, k
    <2>1. /\ requests'[r] = saved /\ \A q \in Requests \ {r} : requests'[q] = requests[q]
        BY <1>4 DEF Update, IInv, TypeOK
    <2>2. \A q \in Requests \ {r} : Progress'[q] = Progress[q]
        BY <1>1, <2>1, ProgressFrame DEF Fetched
    <2>3. Progress' = [q \in Requests |-> Progress'[q]]
        BY DEF Progress
    <2>4. Progress' = [Progress EXCEPT ![r] = Progress'[r]]
        BY <2>2, <2>3, ViewFunctions, OneChanged
    <2>5. Progress[r] = [state |-> "open", key |-> k]
        BY <1>1 DEF Progress, k
    <2>6. Progress'[r] = [state |-> "stored", key |-> k]
        BY <1>2, <2>1 DEF Progress, Fetched
    <2>7. \A j \in Keys \ {k} : Asked'[j] = Asked[j]
        BY <1>1, <1>4 DEF Asked, Usable, IInv, TypeOK
    <2>8. Asked' = [j \in Keys |-> Asked'[j]]
        BY DEF Asked
    <2>9. Asked' = [Asked EXCEPT ![k] = Asked'[k]]
        BY <1>1, <2>7, <2>8, ViewFunctions, OneChanged
    <2>10. Asked'[k] \in Schedules \cup {None}
        BY <1>1 DEF Asked, Usable
    <2>11. UNCHANGED <<Intended, Current, Troubled, Availability>>
        BY <1>1 DEF Intended, Current, Troubled, Availability
    <2>12. Service!Store(r)
        BY <2>4, <2>5, <2>6, <2>9, <2>10, <2>11 DEF Service!Store, Service!Set
    <2>. QED
        BY <2>12 DEF Service!Next
<1>. QED
    BY <1>3, <1>4 DEF Save

\* A reload that is chained is no other call than the one that stored.
LEMMA ReloadMaps ==
    ASSUME IInv, NEW r \in Requests, Reload(r)
    PROVE  UNCHANGED Service!vars
<1>. DEFINE k == requests[r].key
            waiting == [requests[r] EXCEPT !.pc = "wait"]
<1>1. /\ requests[r].pc = "saved" /\ requests[r] \in Request /\ k \in Keys
      /\ queue' = [queue EXCEPT ![k] = Append(queue[k], r)]
      /\ requests' = [requests EXCEPT ![r] = waiting]
      /\ UNCHANGED <<config, phase, tasks, worker, drift>>
    BY DEF Reload, Update, process, IInv, TypeOK, Control, Keyed
<1>2. waiting.pc = "wait" /\ waiting.key = k
    BY <1>1 DEF Request
<1>. HIDE DEF waiting
<1>3. /\ requests'[r] = waiting /\ \A q \in Requests \ {r} : requests'[q] = requests[q]
      /\ queue'[k] = Append(queue[k], r)
      /\ \A j \in Keys \ {k} : queue'[j] = queue[j]
    BY <1>1 DEF IInv, TypeOK
<1>4. ASSUME worker[k].stage \in {"start", "replace", "remove"}
      PROVE  /\ Head(queue'[k]) = Head(queue[k])
             /\ Head(queue[k]) # r
    <2>1. phase # "apply"
        BY <1>1 DEF IInv, Control, Unserved
    <2>2. queue[k] # <<>>
        BY <1>1, <1>4, <2>1, UnderWay
    <2>3. queue[k] \in Seq(Requests)
        BY <1>1 DEF IInv, TypeOK
    <2>4. requests[Head(queue[k])].pc = "wait"
        BY <1>1, <2>2, HeadWaits
    <2>. QED
        BY <1>1, <1>3, <2>2, <2>3, <2>4, AppendFacts
<1>5. ASSUME NEW q \in Requests \ {r} PROVE Progress'[q] = Progress[q]
    <2>1. ASSUME requests[q].pc = "wait" PROVE Fetched(q)' <=> Fetched(q)
        <3>1. requests[q].key \in Keys
            BY <2>1 DEF IInv, Control, Keyed
        <3>2. CASE requests[q].key = k
            BY <1>1, <1>3, <1>4, <3>2 DEF Fetched
        <3>3. CASE requests[q].key # k
            BY <1>1, <1>3, <3>1, <3>3 DEF Fetched
        <3>. QED
            BY <3>2, <3>3
    <2>. QED
        BY <1>3, <2>1, ProgressFrame
<1>6. Progress'[r] = Progress[r]
    <2>1. ~Fetched(r)'
        BY <1>1, <1>2, <1>3, <1>4 DEF Fetched
    <2>2. Progress'[r] = [state |-> "stored", key |-> k]
        BY <1>2, <1>3, <2>1 DEF Progress
    <2>. QED
        BY <1>1, <2>2, ProgressOf
<1>7. Progress' = [q \in Requests |-> Progress'[q]]
    BY DEF Progress
<1>8. Progress' = Progress
    BY <1>5, <1>6, <1>7, ViewFunctions, Unchanged
<1>. QED
    BY <1>1, <1>8, JobsSame DEF Service!vars

-----------------------------------------------------------------------------
(* The steps of an application                                             *)

\* Work at one job shows in that job only.
LEMMA OneJob ==
    ASSUME NEW k \in Keys, config' = config,
           phase' = phase \/ {phase, phase'} \subseteq {"apply", "abort"},
           \A j \in Keys \ {k} : /\ worker'[j] = worker[j] /\ tasks'[j] = tasks[j]
                                 /\ drift'[j] = drift[j]
    PROVE  /\ Asked' = Asked /\ Availability' = Availability
           /\ Intended' = [Intended EXCEPT ![k] = Intended'[k]]
           /\ Current' = [Current EXCEPT ![k] = Current'[k]]
           /\ Troubled' = [Troubled EXCEPT ![k] = Troubled'[k]]
<1>1. \A j \in Keys \ {k} : /\ Intended'[j] = Intended[j] /\ Current'[j] = Current[j]
                            /\ Troubled'[j] = Troubled[j]
    BY DEF Intended, Current, Troubled
<1>2. /\ Intended' = [j \in Keys |-> Intended'[j]]
      /\ Current' = [j \in Keys |-> Current'[j]]
      /\ Troubled' = [j \in Keys |-> Troubled'[j]]
    BY DEF Intended, Current, Troubled
<1>3. Intended' = [Intended EXCEPT ![k] = Intended'[k]]
    BY <1>1, <1>2, ViewFunctions, OneChanged
<1>4. Current' = [Current EXCEPT ![k] = Current'[k]]
    BY <1>1, <1>2, ViewFunctions, OneChanged
<1>5. Troubled' = [Troubled EXCEPT ![k] = Troubled'[k]]
    BY <1>1, <1>2, ViewFunctions, OneChanged
<1>6. Availability' = Availability
    BY DEF Availability
<1>. QED
    BY <1>3, <1>4, <1>5, <1>6, AskedSame

\* A place that got the value it had has not changed.
LEMMA NoneChanged ==
    ASSUME NEW S, NEW f, NEW g, NEW a \in S, f = [x \in S |-> f[x]],
           g = [f EXCEPT ![a] = g[a]], g[a] = f[a]
    PROVE  g = f
OBVIOUS

\* A reload that begins shows nothing, one that a closing server passes over does.
LEMMA BeginReloadMaps ==
    ASSUME IInv, NEW k \in Keys, BeginReload(k)
    PROVE  Service!Next \/ UNCHANGED Service!vars
<1>1. /\ queue[k] # <<>> /\ worker[k].stage = "idle"
      /\ UNCHANGED <<config, tasks, drift>>
    BY DEF BeginReload
<1>2. phase \in {"up", "drain", "stop", "stopped"}
    BY <1>1, HeadWaits
<1>3. CASE phase = "up" /\ Proceed(k, "read", NoTask)
    <2>1. /\ worker' = [worker EXCEPT ![k] = [stage |-> "read", task |-> NoTask]]
          /\ UNCHANGED <<phase, queue, requests>>
        BY <1>3 DEF Proceed, Work, process
    <2>2. /\ worker'[k].stage = "read" /\ \A j \in Keys \ {k} : worker'[j] = worker[j]
        BY <2>1 DEF IInv, TypeOK
    <2>3. Progress' = Progress
        <3>1. \A j \in Keys : worker'[j].stage = worker[j].stage \/
                 {worker[j].stage, worker'[j].stage} \in {{"idle", "read"}, {"start", "replace"}}
            BY <2>2, <1>1
        <3>. QED
            BY <2>1, <3>1, ProgressSame
    <2>4. /\ Asked' = Asked /\ Availability' = Availability
          /\ Intended' = [Intended EXCEPT ![k] = Intended'[k]]
          /\ Current' = [Current EXCEPT ![k] = Current'[k]]
          /\ Troubled' = [Troubled EXCEPT ![k] = Troubled'[k]]
        BY <1>1, <2>1, <2>2, OneJob
    <2>5. Intended'[k] = Intended[k] /\ Current'[k] = Current[k] /\ Troubled'[k] = Troubled[k]
        BY <1>1, <2>1, <2>2 DEF Intended, Current, Troubled
    <2>6. Intended' = Intended /\ Current' = Current /\ Troubled' = Troubled
        BY <2>4, <2>5, ViewFunctions, NoneChanged
    <2>. QED
        BY <2>3, <2>4, <2>6 DEF Service!vars
<1>4. CASE phase # "up" /\ End(k, TRUE)
    <2>1. /\ worker'[k].stage = "idle" /\ \A j \in Keys \ {k} : worker'[j] = worker[j]
          /\ phase' = phase
        BY <1>2, <1>4 DEF End, Work, IInv, TypeOK
    <2>2. PICK r \in Requests :
             /\ Progress[r] = [state |-> "stored", key |-> k]
             /\ Progress' = [Progress EXCEPT ![r] = Service!Idle]
        BY <1>1, <1>2, <1>4, EndView
    <2>3. /\ Asked' = Asked /\ Availability' = Availability
          /\ Intended' = [Intended EXCEPT ![k] = Intended'[k]]
          /\ Current' = [Current EXCEPT ![k] = Current'[k]]
          /\ Troubled' = [Troubled EXCEPT ![k] = Troubled'[k]]
        BY <1>1, <2>1, OneJob
    <2>4. Intended'[k] = Intended[k] /\ Current'[k] = Current[k] /\ Troubled'[k] = Troubled[k]
        BY <1>1, <2>1 DEF Intended, Current, Troubled
    <2>5. Intended' = Intended /\ Current' = Current /\ Troubled' = Troubled
        BY <2>3, <2>4, ViewFunctions, NoneChanged
    <2>6. Availability \in {"closing", "closed"}
        BY <1>2, <1>4 DEF Availability
    <2>7. Service!Skip(r)
        BY <2>2, <2>3, <2>5, <2>6 DEF Service!Skip, Service!Set
    <2>. QED
        BY <2>7 DEF Service!Next, Service!Answer
<1>. QED
    BY <1>3, <1>4 DEF BeginReload

\* A document that has been read and is enabled can be scheduled.
LEMMA NothingIsRefused ==
    ASSUME Applied, Proper, NEW k \in Keys
    PROVE  /\ ~Refused(k, config[k])
           /\ config[k].enabled => Asked[k] = config[k].schedule /\ Usable(k, config[k])
           /\ ~config[k].enabled => Asked[k] = None
<1>1. config[k].enabled => Usable(k, config[k])
    BY DEF Applied, Follows, Proper, Usable
<1>. QED
    BY <1>1 DEF Refused, Asked

\* What is planned after the reading is what was read, at the request of the head.
LEMMA ReadTakes ==
    ASSUME IInv, NEW k \in Keys, worker[k].stage = "read", NEW task,
           NEW stage \in {"start", "remove"}, Proceed(k, stage, task),
           phase \in {"up", "drain"}, queue[k] # <<>>,
           UNCHANGED <<config, tasks>>, drift' = [drift EXCEPT ![k] = FALSE],
           Asked[k] = IF stage = "remove" THEN None ELSE task.schedule
    PROVE  Service!Next
<1>1. /\ worker' = [worker EXCEPT ![k] = [stage |-> stage, task |-> task]]
      /\ UNCHANGED <<phase, queue, requests>>
    BY DEF Proceed, Work, process
<1>2. /\ worker'[k].stage = stage /\ worker'[k].task = task
      /\ \A j \in Keys \ {k} : worker'[j] = worker[j]
      /\ ~drift'[k] /\ \A j \in Keys \ {k} : drift'[j] = drift[j]
    BY <1>1 DEF IInv, TypeOK
<1>3. /\ Asked' = Asked /\ Availability' = Availability
      /\ Intended' = [Intended EXCEPT ![k] = Intended'[k]]
      /\ Current' = [Current EXCEPT ![k] = Current'[k]]
      /\ Troubled' = [Troubled EXCEPT ![k] = Troubled'[k]]
    BY <1>1, <1>2, OneJob
<1>4. Intended'[k] = Asked[k] /\ Current'[k] = Current[k] /\ Troubled'[k] = FALSE
    BY <1>1, <1>2 DEF Intended, Current, Troubled
<1>5. Current' = Current
    BY <1>3, <1>4, ViewFunctions, NoneChanged
<1>6. PICK head \in Requests :
         head = Head(queue[k]) /\ requests[head].pc = "wait" /\ requests[head].key = k
    BY HeadWaits
<1>7. ASSUME NEW q \in Requests \ {head} PROVE Progress'[q] = Progress[q]
    <2>1. ASSUME requests[q].pc = "wait" PROVE Fetched(q)' <=> Fetched(q)
        <3>1. requests[q].key \in Keys
            BY <2>1 DEF IInv, Control, Keyed
        <3>2. CASE requests[q].key = k
            BY <1>1, <1>6, <3>2 DEF Fetched
        <3>3. CASE requests[q].key # k
            BY <1>1, <1>2, <3>1, <3>3 DEF Fetched
        <3>. QED
            BY <3>2, <3>3
    <2>. QED
        BY <1>1, <2>1, ProgressFrame
<1>8. Progress[head] = [state |-> "stored", key |-> k]
    <2>1. ~Fetched(head)
        BY <1>6 DEF Fetched
    <2>. QED
        BY <1>6, <2>1, ProgressOf
<1>9. Progress'[head] = [state |-> "taken", key |-> k]
    <2>1. Fetched(head)'
        BY <1>1, <1>2, <1>6 DEF Fetched
    <2>2. requests'[head].pc = "wait" /\ requests'[head].key = k
        BY <1>1, <1>6
    <2>. QED
        BY <1>6, <2>1, <2>2, ProgressNext
<1>10. Progress' = [q \in Requests |-> Progress'[q]]
    BY DEF Progress
<1>11. Progress' = [Progress EXCEPT ![head] = Progress'[head]]
    BY <1>6, <1>7, <1>10, ViewFunctions, OneChanged
<1>12. ~Service!Taken(k)
    BY TakenIsFetched
<1>13. Availability \in {"serving", "closing"}
    BY DEF Availability
<1>14. Service!Take(head)
    BY <1>3, <1>4, <1>5, <1>8, <1>9, <1>11, <1>12, <1>13
       DEF Service!Take, Service!Set, Service!Mark
<1>. QED
    BY <1>6, <1>14 DEF Service!Next

\* The look at the collection: what it shows is planned, in force already, or lost.
LEMMA ReadMaps ==
    ASSUME IInv, Applied, Proper, NEW k \in Keys, ReadConfiguration(k)
    PROVE  Service!Next
<1>1. /\ worker[k].stage = "read" /\ UNCHANGED <<config, tasks>>
      /\ phase \in {"up", "drain"} /\ queue[k] # <<>>
    BY NoReadDuringStart DEF ReadConfiguration
<1>2. ASSUME NEW ok \in BOOLEAN, End(k, ok), NEW failure \in BOOLEAN,
             drift' = [drift EXCEPT ![k] = failure]
      PROVE  \E r \in Requests :
               /\ Progress[r] = [state |-> "stored", key |-> k]
               /\ Progress' = [Progress EXCEPT ![r] = Service!Idle]
               /\ UNCHANGED <<Asked, Intended, Current, Availability>>
               /\ Troubled' = [Troubled EXCEPT ![k] = failure]
               /\ ~Service!Taken(k)
    <2>1. /\ worker'[k].stage = "idle" /\ \A j \in Keys \ {k} : worker'[j] = worker[j]
          /\ phase' = phase
          /\ drift'[k] = failure /\ \A j \in Keys \ {k} : drift'[j] = drift[j]
        BY <1>1, <1>2 DEF End, Work, IInv, TypeOK
    <2>2. PICK r \in Requests :
             /\ Progress[r] = [state |-> "stored", key |-> k]
             /\ Progress' = [Progress EXCEPT ![r] = Service!Idle]
        BY <1>1, <1>2, EndView
    <2>3. /\ Asked' = Asked /\ Availability' = Availability
          /\ Intended' = [Intended EXCEPT ![k] = Intended'[k]]
          /\ Current' = [Current EXCEPT ![k] = Current'[k]]
          /\ Troubled' = [Troubled EXCEPT ![k] = Troubled'[k]]
        BY <1>1, <2>1, OneJob
    <2>4. Intended'[k] = Intended[k] /\ Current'[k] = Current[k] /\ Troubled'[k] = failure
        BY <1>1, <2>1 DEF Intended, Current, Troubled
    <2>5. Intended' = Intended /\ Current' = Current
        BY <2>3, <2>4, ViewFunctions, NoneChanged
    <2>6. ~Service!Taken(k)
        BY <1>1, TakenIsFetched
    <2>. QED
        BY <2>2, <2>3, <2>4, <2>5, <2>6
<1>3. CASE Apply(k, config[k]) /\ drift' = [drift EXCEPT ![k] = Refused(k, config[k])]
    <2>1. drift' = [drift EXCEPT ![k] = FALSE]
        <3>1. Refused(k, config[k]) = FALSE
            BY NothingIsRefused DEF Refused
        <3>. QED
            BY <1>3, <3>1
    <2>2. CASE ~config[k].enabled /\ tasks[k] = NoTask /\ End(k, TRUE)
        <3>1. PICK r \in Requests :
               /\ Progress[r] = [state |-> "stored", key |-> k]
               /\ Progress' = [Progress EXCEPT ![r] = Service!Idle]
               /\ UNCHANGED <<Asked, Intended, Current, Availability>>
               /\ Troubled' = [Troubled EXCEPT ![k] = FALSE]
               /\ ~Service!Taken(k)
            BY <1>2, <2>1, <2>2
        <3>2. Asked[k] = None
            BY <2>2, NothingIsRefused
        <3>3. Intended[k] = None /\ Current[k] = None
            BY <1>1, <2>2 DEF Intended, Current, NoTask
        <3>4. Service!AlreadySo(r)
            BY <3>1, <3>2, <3>3 DEF Service!AlreadySo, Service!Set, Service!Mark
        <3>. QED
            BY <3>4 DEF Service!Next, Service!Answer
    <2>3. CASE ~config[k].enabled /\ tasks[k] # NoTask /\ Proceed(k, "remove", tasks[k])
        <3>1. Asked[k] = None
            BY <2>3, NothingIsRefused
        <3>. QED
            BY <1>1, <2>1, <2>3, <3>1, ReadTakes
    <2>4. CASE config[k].enabled /\ Usable(k, config[k]) /\
               \E id \in FreshId(k) :
                 Proceed(k, "start", [id |-> id, schedule |-> config[k].schedule])
        <3>1. PICK id \in FreshId(k) :
                 Proceed(k, "start", [id |-> id, schedule |-> config[k].schedule])
            BY <2>4
        <3>2. Asked[k] = config[k].schedule
            BY <2>4, NothingIsRefused
        <3>. QED
            BY <1>1, <2>1, <3>1, <3>2, ReadTakes
    <2>. QED
        BY <1>3, <2>2, <2>3, <2>4, NothingIsRefused DEF Apply
<1>4. CASE Faults /\ End(k, FALSE) /\ drift' = [drift EXCEPT ![k] = TRUE]
    <2>1. PICK r \in Requests :
               /\ Progress[r] = [state |-> "stored", key |-> k]
               /\ Progress' = [Progress EXCEPT ![r] = Service!Idle]
               /\ UNCHANGED <<Asked, Intended, Current, Availability>>
               /\ Troubled' = [Troubled EXCEPT ![k] = TRUE]
               /\ ~Service!Taken(k)
        BY <1>2, <1>4
    <2>2. Service!Lose(r)
        BY <1>4, <2>1 DEF Service!Lose, Service!Set, Service!Mark
    <2>. QED
        BY <2>2 DEF Service!Next, Service!Answer
<1>. QED
    BY <1>3, <1>4 DEF ReadConfiguration

\* An application that ends answers its call, and changes the view of its job only.
LEMMA AppliedView ==
    ASSUME IInv, NEW k \in Keys, NEW ok \in BOOLEAN, End(k, ok),
           worker[k].stage \in {"start", "replace", "remove"}, phase # "apply",
           config' = config, drift'[k] \in BOOLEAN,
           \A j \in Keys \ {k} : tasks'[j] = tasks[j] /\ drift'[j] = drift[j]
    PROVE  \E r \in Requests :
             /\ Progress[r] = [state |-> "taken", key |-> k]
             /\ Progress' = [Progress EXCEPT ![r] = Service!Idle]
             /\ Asked' = Asked /\ Availability' = Availability
             /\ Intended' = [Intended EXCEPT ![k] = tasks'[k].schedule]
             /\ Current' = [Current EXCEPT ![k] = tasks'[k].schedule]
             /\ Troubled' = [Troubled EXCEPT ![k] = drift'[k]]
<1>1. phase \in {"up", "drain"} /\ queue[k] # <<>>
    BY UnderWay
<1>2. /\ worker'[k].stage = "idle" /\ \A j \in Keys \ {k} : worker'[j] = worker[j]
      /\ phase' = phase
    BY <1>1 DEF End, Work, IInv, TypeOK
<1>3. PICK r \in Requests :
         /\ Progress[r] = [state |-> "taken", key |-> k]
         /\ Progress' = [Progress EXCEPT ![r] = Service!Idle]
    BY <1>1, EndView
<1>4. /\ Asked' = Asked /\ Availability' = Availability
      /\ Intended' = [Intended EXCEPT ![k] = Intended'[k]]
      /\ Current' = [Current EXCEPT ![k] = Current'[k]]
      /\ Troubled' = [Troubled EXCEPT ![k] = Troubled'[k]]
    BY <1>2, OneJob
<1>5. /\ Intended'[k] = tasks'[k].schedule /\ Current'[k] = tasks'[k].schedule
    BY <1>1, <1>2 DEF Intended, Current
<1>6. Troubled'[k] = drift'[k]
    BY <1>1, <1>2 DEF Troubled
<1>. QED
    BY <1>3, <1>4, <1>5, <1>6

\* A task that was started is in force, once no other one is.
LEMMA StartedMaps ==
    ASSUME IInv, Applied, NEW k \in Keys, Started(k)
    PROVE  Service!Next \/ UNCHANGED Service!vars
<1>1. /\ worker[k].stage = "start" /\ UNCHANGED <<config, drift>>
      /\ tasks' = [tasks EXCEPT ![k] = worker[k].task]
    BY DEF Started
<1>2. /\ tasks'[k] = worker[k].task
      /\ \A j \in Keys \ {k} : tasks'[j] = tasks[j] /\ drift'[j] = drift[j]
      /\ drift'[k] = drift[k] /\ drift[k] \in BOOLEAN
    BY <1>1 DEF IInv, TypeOK
<1>3. phase \in {"apply", "up", "drain"}
    BY <1>1, UnderWay
<1>4. CASE phase = "apply"
    <2>1. tasks[k] = NoTask
        BY <1>1, <1>4 DEF Applied, Follows, Booting
    <2>2. End(k, TRUE)
        BY <2>1 DEF Started
    <2>3. /\ worker'[k].stage = "idle" /\ \A j \in Keys \ {k} : worker'[j] = worker[j]
          /\ phase' = phase /\ requests' = requests
        BY <1>4, <2>2 DEF End, Work, IInv, TypeOK
    <2>4. /\ Asked' = Asked /\ Availability' = Availability
          /\ Intended' = [Intended EXCEPT ![k] = Intended'[k]]
          /\ Current' = [Current EXCEPT ![k] = Current'[k]]
          /\ Troubled' = [Troubled EXCEPT ![k] = Troubled'[k]]
        BY <1>1, <1>2, <2>3, OneJob
    <2>5. /\ Intended'[k] = Intended[k] /\ Current'[k] = Intended[k]
          /\ Troubled'[k] = Troubled[k]
        BY <1>1, <1>2, <1>4, <2>3 DEF Intended, Current, Troubled
    <2>6. Intended' = Intended /\ Troubled' = Troubled
        BY <2>4, <2>5, ViewFunctions, NoneChanged
    <2>7. Progress' = Progress /\ Availability = "starting"
        BY <1>4, <2>3, NobodyAsks DEF Availability
    <2>8. Service!Prepared(k)
        BY <2>4, <2>5, <2>6, <2>7 DEF Service!Prepared
    <2>. QED
        BY <2>8 DEF Service!Next
<1>5. CASE phase # "apply" /\ tasks[k] = NoTask
    <2>1. End(k, TRUE)
        BY <1>5 DEF Started
    <2>2. Intended[k] = tasks'[k].schedule /\ Troubled[k] = drift'[k]
        BY <1>1, <1>2, <1>3 DEF Intended, Troubled
    <2>3. PICK r \in Requests :
             /\ Progress[r] = [state |-> "taken", key |-> k]
             /\ Progress' = [Progress EXCEPT ![r] = Service!Idle]
             /\ Asked' = Asked /\ Availability' = Availability
             /\ Intended' = [Intended EXCEPT ![k] = tasks'[k].schedule]
             /\ Current' = [Current EXCEPT ![k] = tasks'[k].schedule]
             /\ Troubled' = [Troubled EXCEPT ![k] = drift'[k]]
        BY <1>1, <1>2, <1>5, <2>1, AppliedView
    <2>4. Intended' = Intended /\ Troubled' = Troubled
        BY <2>2, <2>3, ViewFunctions
    <2>5. /\ Progress[r].state = "taken" /\ Progress[r].key = k
          /\ Current' = [Current EXCEPT ![k] = Intended[k]]
        BY <2>2, <2>3
    <2>6. Service!Commit(r)
        BY <2>3, <2>4, <2>5 DEF Service!Commit, Service!Set
    <2>. QED
        BY <2>6 DEF Service!Next, Service!Answer
<1>6. CASE phase # "apply" /\ tasks[k] # NoTask
    <2>1. Proceed(k, "replace", tasks[k])
        BY <1>6 DEF Started
    <2>2. /\ worker' = [worker EXCEPT ![k] = [stage |-> "replace", task |-> tasks[k]]]
          /\ UNCHANGED <<phase, queue, requests>>
        BY <2>1 DEF Proceed, Work, process
    <2>3. /\ worker'[k].stage = "replace" /\ worker'[k].task = tasks[k]
          /\ \A j \in Keys \ {k} : worker'[j] = worker[j]
        BY <2>2 DEF IInv, TypeOK
    <2>4. Progress' = Progress
        <3>1. \A j \in Keys : worker'[j].stage = worker[j].stage \/
                 {worker[j].stage, worker'[j].stage} \in {{"idle", "read"}, {"start", "replace"}}
            BY <1>1, <2>3
        <3>. QED
            BY <2>2, <3>1, ProgressSame
    <2>5. /\ Asked' = Asked /\ Availability' = Availability
          /\ Intended' = [Intended EXCEPT ![k] = Intended'[k]]
          /\ Current' = [Current EXCEPT ![k] = Current'[k]]
          /\ Troubled' = [Troubled EXCEPT ![k] = Troubled'[k]]
        BY <1>1, <1>2, <2>2, <2>3, OneJob
    <2>6. Intended'[k] = Intended[k] /\ Current'[k] = Current[k] /\ Troubled'[k] = Troubled[k]
        BY <1>1, <1>2, <1>3, <2>2, <2>3 DEF Intended, Current, Troubled
    <2>7. Intended' = Intended /\ Current' = Current /\ Troubled' = Troubled
        BY <2>5, <2>6, ViewFunctions, NoneChanged
    <2>. QED
        BY <2>4, <2>5, <2>7 DEF Service!vars
<1>. QED
    BY <1>4, <1>5, <1>6

\* A task that could not be started leaves in force what was.
LEMMA StartFailedMaps ==
    ASSUME IInv, Applied, NEW k \in Keys, StartFailed(k)
    PROVE  Service!Next
<1>1. /\ worker[k].stage = "start" /\ End(k, FALSE) /\ UNCHANGED <<config, tasks>>
      /\ Faults /\ drift' = [drift EXCEPT ![k] = TRUE]
    BY DEF StartFailed
<1>2. /\ drift'[k] = TRUE /\ tasks'[k] = tasks[k]
      /\ \A j \in Keys \ {k} : tasks'[j] = tasks[j] /\ drift'[j] = drift[j]
    BY <1>1 DEF IInv, TypeOK
<1>3. phase \in {"apply", "up", "drain"}
    BY <1>1, UnderWay
<1>4. Current[k] = tasks[k].schedule
    BY <1>1, <1>3 DEF Current
<1>5. CASE phase = "apply"
    <2>1. /\ worker'[k].stage = "idle" /\ \A j \in Keys \ {k} : worker'[j] = worker[j]
          /\ phase' = "abort" /\ requests' = requests
        BY <1>1, <1>5 DEF End, Work, IInv, TypeOK
    <2>2. /\ Asked' = Asked /\ Availability' = Availability
          /\ Intended' = [Intended EXCEPT ![k] = Intended'[k]]
          /\ Current' = [Current EXCEPT ![k] = Current'[k]]
          /\ Troubled' = [Troubled EXCEPT ![k] = Troubled'[k]]
        BY <1>1, <1>2, <1>5, <2>1, OneJob
    <2>3. Intended'[k] = Current[k] /\ Current'[k] = Current[k] /\ Troubled'[k] = TRUE
        BY <1>2, <1>4, <2>1 DEF Intended, Current, Troubled
    <2>4. Current' = Current
        BY <2>2, <2>3, ViewFunctions, NoneChanged
    <2>5. Progress' = Progress /\ Availability = "starting"
        BY <1>5, <2>1, NobodyAsks DEF Availability
    <2>6. Service!Unprepared(k)
        BY <1>1, <2>2, <2>3, <2>4, <2>5 DEF Service!Unprepared, Service!Mark
    <2>. QED
        BY <2>6 DEF Service!Next
<1>6. CASE phase # "apply"
    <2>1. PICK r \in Requests :
             /\ Progress[r] = [state |-> "taken", key |-> k]
             /\ Progress' = [Progress EXCEPT ![r] = Service!Idle]
             /\ Asked' = Asked /\ Availability' = Availability
             /\ Intended' = [Intended EXCEPT ![k] = tasks'[k].schedule]
             /\ Current' = [Current EXCEPT ![k] = tasks'[k].schedule]
             /\ Troubled' = [Troubled EXCEPT ![k] = drift'[k]]
        BY <1>1, <1>2, <1>6, AppliedView
    <2>2. Current' = Current
        BY <1>2, <1>4, <2>1, ViewFunctions
    <2>3. /\ Progress[r].state = "taken" /\ Progress[r].key = k
          /\ Intended' = [Intended EXCEPT ![k] = Current[k]]
          /\ Troubled' = [Troubled EXCEPT ![k] = TRUE]
        <3>1. tasks'[k].schedule = Current[k]
            BY <1>2, <1>4
        <3>2. Troubled' = [Troubled EXCEPT ![k] = TRUE]
            BY <1>2, <2>1
        <3>3. Intended' = [Intended EXCEPT ![k] = Current[k]]
            BY <2>1, <3>1
        <3>4. Progress[r].state = "taken" /\ Progress[r].key = k
            BY <2>1
        <3>. QED
            BY <3>2, <3>3, <3>4
    <2>4. Service!Revert(r)
        BY <1>1, <2>1, <2>2, <2>3 DEF Service!Revert, Service!Set, Service!Mark
    <2>. QED
        BY <2>4 DEF Service!Next, Service!Answer
<1>. QED
    BY <1>5, <1>6

\* The end of the old task brings the new plan in force.
LEMMA DestroyedMaps ==
    ASSUME IInv, Applied, NEW k \in Keys, Destroyed(k)
    PROVE  Service!Next
<1>1. /\ worker[k].stage \in {"replace", "remove"} /\ UNCHANGED <<config, drift>>
      /\ End(k, TRUE)
      /\ tasks' = IF worker[k].stage = "remove"
                  THEN [tasks EXCEPT ![k] = NoTask] ELSE tasks
    BY DEF Destroyed
<1>2. /\ \A j \in Keys \ {k} : tasks'[j] = tasks[j] /\ drift'[j] = drift[j]
      /\ tasks'[k] = IF worker[k].stage = "remove" THEN NoTask ELSE tasks[k]
      /\ drift'[k] = drift[k] /\ drift[k] \in BOOLEAN
    BY <1>1 DEF IInv, TypeOK
<1>3. phase \in {"up", "drain"}
    BY <1>1, UnderWay DEF Applied, Follows, Booting
<1>4. PICK r \in Requests :
         /\ Progress[r] = [state |-> "taken", key |-> k]
         /\ Progress' = [Progress EXCEPT ![r] = Service!Idle]
         /\ Asked' = Asked /\ Availability' = Availability
         /\ Intended' = [Intended EXCEPT ![k] = tasks'[k].schedule]
         /\ Current' = [Current EXCEPT ![k] = tasks'[k].schedule]
         /\ Troubled' = [Troubled EXCEPT ![k] = drift'[k]]
    BY <1>1, <1>2, <1>3, AppliedView
<1>5. Intended[k] = tasks'[k].schedule /\ Troubled[k] = drift'[k]
    BY <1>1, <1>2, <1>3 DEF Intended, Troubled, NoTask
<1>6. Intended' = Intended /\ Troubled' = Troubled
    BY <1>4, <1>5, ViewFunctions
<1>7. /\ Progress[r].state = "taken" /\ Progress[r].key = k
      /\ Current' = [Current EXCEPT ![k] = Intended[k]]
    BY <1>4, <1>5
<1>8. Service!Commit(r)
    BY <1>4, <1>6, <1>7 DEF Service!Commit, Service!Set
<1>. QED
    BY <1>8 DEF Service!Next, Service!Answer

-----------------------------------------------------------------------------
(* The steps of the process                                                *)

\* A process that seeds the collection asks for nothing new.
LEMMA StartMaps ==
    ASSUME IInv, Applied, Start
    PROVE  Service!Next
<1>1. /\ phase = "down" /\ phase' = "find"
      /\ UNCHANGED <<tasks, worker, drift, requests>>
    BY DEF Start, scheduler
<1>2. ASSUME NEW k \in Keys PROVE Asked'[k] = Asked[k]
    <2>1. CASE config'[k] = config[k]
        BY <2>1 DEF Asked, Usable
    <2>2. CASE config'[k] = Seeded(config[k].version) /\ ~config[k].exists
        <3>1. ~config'[k].enabled /\ ~config[k].enabled
            BY <2>2 DEF Seeded, Applied, Follows
        <3>. QED
            BY <3>1 DEF Asked
    <2>. QED
        BY <2>1, <2>2 DEF Start
<1>3. Asked' = Asked
    <2>1. Asked' = [k \in Keys |-> Asked'[k]]
        BY DEF Asked
    <2>. QED
        BY <1>2, <2>1, ViewFunctions, Unchanged
<1>4. Intended' = Intended /\ Current' = Current /\ Troubled' = Troubled
    BY <1>1 DEF Intended, Current, Troubled
<1>5. Progress' = Progress
    BY <1>1, NobodyAsks
<1>6. Availability = "down" /\ Availability' = "starting"
    BY <1>1 DEF Availability
<1>7. Service!Boot
    BY <1>3, <1>4, <1>5, <1>6 DEF Service!Boot
<1>. QED
    BY <1>7 DEF Service!Next

\* What the start has read shows nothing yet.
LEMMA FindAllMaps ==
    ASSUME IInv, FindAll
    PROVE  UNCHANGED Service!vars
<1>1. /\ phase = "find" /\ phase' = "apply" /\ drift' = [k \in Keys |-> FALSE]
      /\ UNCHANGED <<config, tasks, worker, requests>>
    BY DEF FindAll, scheduler
<1>2. Intended' = Intended /\ Current' = Current /\ Asked' = Asked
    BY <1>1, AskedSame DEF Intended, Current
<1>3. Troubled' = Troubled
    BY <1>1 DEF Troubled
<1>4. Progress' = Progress
    BY <1>1, NobodyAsks
<1>5. Availability' = Availability
    BY <1>1 DEF Availability
<1>. QED
    BY <1>2, <1>3, <1>4, <1>5 DEF Service!vars

\* The start plans one job after the other as it is stored.
LEMMA ApplyNextMaps ==
    ASSUME IInv, Applied, Proper, NEW k \in Keys, ApplyNext(k)
    PROVE  Service!Next \/ UNCHANGED Service!vars
<1>1. /\ phase = "apply" /\ \A j \in Keys : worker[j].stage = "idle"
      /\ boot[k].exists /\ Apply(k, boot[k]) /\ UNCHANGED <<config, tasks, drift>>
    BY DEF ApplyNext
<1>2. tasks[k] = NoTask /\ boot[k] = config[k] /\ \A j \in Keys : ~drift[j]
    BY <1>1 DEF Applied, Follows, Booting, Proper
<1>3. Apply(k, config[k])
    BY <1>1, <1>2
<1>4. Progress' = Progress
    <2>1. requests' = requests
        BY <1>1 DEF Apply, End, Proceed
    <2>. QED
        BY <1>1, <2>1, NobodyAsks
<1>5. CASE ~config[k].enabled /\ End(k, TRUE)
    <2>1. /\ worker'[k].stage = "idle" /\ \A j \in Keys \ {k} : worker'[j] = worker[j]
          /\ phase' = phase
        BY <1>1, <1>5 DEF End, Work, IInv, TypeOK
    <2>2. /\ Asked' = Asked /\ Availability' = Availability
          /\ Intended' = [Intended EXCEPT ![k] = Intended'[k]]
          /\ Current' = [Current EXCEPT ![k] = Current'[k]]
          /\ Troubled' = [Troubled EXCEPT ![k] = Troubled'[k]]
        BY <1>1, <2>1, OneJob
    <2>3. Intended'[k] = Intended[k] /\ Current'[k] = Current[k] /\ Troubled'[k] = Troubled[k]
        BY <1>1, <2>1 DEF Intended, Current, Troubled
    <2>4. Intended' = Intended /\ Current' = Current /\ Troubled' = Troubled
        BY <2>2, <2>3, ViewFunctions, NoneChanged
    <2>. QED
        BY <1>4, <2>2, <2>4 DEF Service!vars
<1>6. ASSUME NEW id \in FreshId(k), config[k].enabled,
             Proceed(k, "start", [id |-> id, schedule |-> config[k].schedule])
      PROVE  Service!Next
    <2>. DEFINE task == [id |-> id, schedule |-> config[k].schedule]
    <2>1. /\ worker' = [worker EXCEPT ![k] = [stage |-> "start", task |-> task]]
          /\ phase' = phase
        BY <1>6 DEF Proceed, Work, process
    <2>2. /\ worker'[k].stage = "start" /\ worker'[k].task.schedule = config[k].schedule
          /\ \A j \in Keys \ {k} : worker'[j] = worker[j]
        BY <2>1 DEF IInv, TypeOK
    <2>3. /\ Asked' = Asked /\ Availability' = Availability
          /\ Intended' = [Intended EXCEPT ![k] = Intended'[k]]
          /\ Current' = [Current EXCEPT ![k] = Current'[k]]
          /\ Troubled' = [Troubled EXCEPT ![k] = Troubled'[k]]
        BY <1>1, <2>1, <2>2, OneJob
    <2>4. /\ Intended'[k] = Asked[k] /\ Current'[k] = Current[k] /\ Troubled'[k] = Troubled[k]
        BY <1>1, <1>6, <2>1, <2>2, NothingIsRefused DEF Intended, Current, Troubled
    <2>5. Current' = Current /\ Troubled' = Troubled
        BY <2>3, <2>4, ViewFunctions, NoneChanged
    <2>6. \A j \in Keys : Intended[j] = Current[j] /\ ~Troubled[j]
        BY <1>1, <1>2 DEF Intended, Current, Troubled
    <2>7. Current[k] = None /\ Availability = "starting"
        BY <1>1, <1>2 DEF Current, NoTask, Availability
    <2>8. Service!Prepare(k)
        BY <1>4, <2>3, <2>4, <2>5, <2>6, <2>7 DEF Service!Prepare
    <2>. QED
        BY <2>8 DEF Service!Next
<1>. QED
    BY <1>2, <1>3, <1>5, <1>6, NothingIsRefused DEF Apply

\* A server that accepts requests has every job in force as it is stored.
LEMMA ListenMaps ==
    ASSUME IInv, Applied, Proper, Listen
    PROVE  Service!Next
<1>1. /\ phase = "apply" /\ phase' = "up"
      /\ \A k \in Keys : ~boot[k].exists /\ worker[k].stage = "idle"
      /\ UNCHANGED <<config, tasks, worker, drift, requests>>
    BY DEF Listen, scheduler
<1>2. UNCHANGED <<Asked, Intended, Current, Troubled>>
    BY <1>1, AskedSame DEF Intended, Current, Troubled
<1>3. Progress' = Progress
    BY <1>1, NobodyAsks
<1>4. Availability = "starting" /\ Availability' = "serving"
    BY <1>1 DEF Availability
<1>5. ASSUME NEW k \in Keys
      PROVE  Current[k] = Asked[k] /\ Intended[k] = Asked[k] /\ ~Troubled[k]
    <2>1. ~drift[k] /\ worker[k].stage = "idle"
        BY <1>1 DEF Proper
    <2>2. Planned(k) = Wanted(k)
        BY <1>1, <2>1 DEF Applied, Follows, Booting
    <2>3. Current[k] = tasks[k].schedule /\ Intended[k] = tasks[k].schedule
        BY <1>1, <2>1 DEF Current, Intended
    <2>4. tasks[k].schedule = Asked[k]
        BY <2>1, <2>2 DEF Planned, Wanted, Asked, NoTask
    <2>. QED
        BY <1>1, <2>1, <2>3, <2>4 DEF Troubled
<1>6. Service!Open
    BY <1>2, <1>3, <1>4, <1>5 DEF Service!Open
<1>. QED
    BY <1>6 DEF Service!Next

\* The shutdown begins by accepting no more calls.
LEMMA ShutdownMaps ==
    ASSUME IInv, Shutdown
    PROVE  Service!Next
<1>1. /\ phase = "up" /\ phase' = "drain"
      /\ UNCHANGED <<config, tasks, worker, queue, drift, requests>>
    BY DEF Shutdown, scheduler
<1>2. UNCHANGED <<Asked, Intended, Current, Troubled>>
    BY <1>1, AskedSame DEF Intended, Current, Troubled
<1>3. Progress' = Progress
    BY <1>1, ProgressSame
<1>4. Availability = "serving" /\ Availability' = "closing"
    BY <1>1 DEF Availability
<1>5. Service!Close
    BY <1>2, <1>3, <1>4 DEF Service!Close
<1>. QED
    BY <1>5 DEF Service!Next

\* When the tasks are destroyed nothing is on its way to be in force.
LEMMA DestroyTasksMaps ==
    ASSUME IInv, DestroyTasks
    PROVE  Service!Next
<1>1. /\ phase = "drain" /\ awaited = {} /\ phase' = "stop"
      /\ UNCHANGED <<config, tasks, worker, queue, drift, requests>>
    BY DEF DestroyTasks
<1>2. UNCHANGED <<Asked, Troubled>>
    BY <1>1, AskedSame DEF Troubled
<1>3. Intended' = Service!Nothing /\ Current' = Service!Nothing
    BY <1>1 DEF Intended, Current, Service!Nothing
<1>4. Progress' = Progress
    BY <1>1, ProgressSame
<1>5. \A k \in Keys : worker[k].stage = "idle"
    BY <1>1 DEF IInv, Control, Applying
<1>6. \A k \in Keys : ~Service!Taken(k)
    BY <1>5, TakenIsFetched
<1>7. Availability = "closing" /\ Availability' = "closed"
    BY <1>1 DEF Availability
<1>8. Service!Closed
    BY <1>2, <1>3, <1>4, <1>6, <1>7 DEF Service!Closed
<1>. QED
    BY <1>8 DEF Service!Next

\* What else a shutdown waits for shows nothing.
LEMMA StoppedMaps ==
    ASSUME IInv, NEW timeout \in BOOLEAN, Stopped(timeout)
    PROVE  UNCHANGED Service!vars
<1>1. /\ phase = "stop" /\ phase' = "stopped"
      /\ UNCHANGED <<config, worker, queue, drift, requests>>
    BY DEF Stopped
<1>2. UNCHANGED <<Asked, Intended, Current, Troubled, Availability>>
    BY <1>1, AskedSame DEF Intended, Current, Troubled, Availability
<1>3. Progress' = Progress
    BY <1>1, ProgressSame
<1>. QED
    BY <1>2, <1>3 DEF Service!vars

\* A process that is gone leaves the collection.
LEMMA LostMaps ==
    ASSUME IInv, Lost, phase # "down"
    PROVE  Service!Next
<1>1. /\ phase' = "down" /\ UNCHANGED config
      /\ tasks' = [k \in Keys |-> NoTask] /\ worker' = [k \in Keys |-> IdleWorker]
      /\ requests' = [r \in Requests |-> IdleRequest]
    BY DEF Lost
<1>2. Asked' = Asked
    BY <1>1, AskedSame
<1>3. Intended' = Service!Nothing /\ Current' = Service!Nothing
    BY <1>1 DEF Intended, Current, Service!Nothing, NoTask, IdleWorker
<1>4. Troubled' = [k \in Keys |-> FALSE]
    BY <1>1 DEF Troubled
<1>5. Progress' = [r \in Requests |-> Service!Idle]
    BY <1>1 DEF Progress, IdleRequest, Service!Idle
<1>6. Availability # "down" /\ Availability' = "down"
    BY <1>1 DEF Availability, IInv, TypeOK, Phase
<1>7. Service!Die
    BY <1>2, <1>3, <1>4, <1>5, <1>6 DEF Service!Die
<1>. QED
    BY <1>7 DEF Service!Next

\* A process that was never started shows a service that was never started.
LEMMA InitMaps == Init => Service!Init
<1>. SUFFICES ASSUME Init PROVE Service!Init
    OBVIOUS
<1>1. Asked = Service!Nothing
    BY DEF Init, Asked, Absent, Service!Nothing
<1>2. Intended = Service!Nothing /\ Current = Service!Nothing
    BY DEF Init, Intended, Current, NoTask, IdleWorker, Service!Nothing
<1>3. Troubled = [k \in Keys |-> FALSE]
    BY DEF Init, Troubled
<1>4. Progress = [r \in Requests |-> Service!Idle]
    BY DEF Init, Progress, IdleRequest, Service!Idle
<1>5. Availability = "down"
    BY DEF Init, Availability
<1>. QED
    BY <1>1, <1>2, <1>3, <1>4, <1>5 DEF Service!Init

\* The executions of the handlers are no part of what is promised.
LEMMA ViewSame ==
    ASSUME IInv, UNCHANGED <<config, phase, tasks, worker, queue, requests, drift>>
    PROVE  UNCHANGED Service!vars
<1>1. UNCHANGED <<Asked, Intended, Current, Troubled, Availability>>
    BY JobsSame
<1>2. Progress' = Progress
    BY ProgressSame
<1>. QED
    BY <1>1, <1>2 DEF Service!vars

\* Every step of the scheduler is one of the service or shows nothing.
LEMMA StepMaps ==
    ASSUME IInv, Applied, Proper, ~DirectChanges, [Next]_vars
    PROVE  [Service!Next]_(Service!vars)
<1>1. ASSUME NEW r \in Requests, Configure(r) \/ Serve(r)
      PROVE  Service!Next \/ UNCHANGED Service!vars
    BY <1>1, ConfigureCalls, FindMaps, SaveMaps, ReloadMaps DEF Serve
<1>2. ASSUME NEW k \in Keys, Advance(k)
      PROVE  Service!Next \/ UNCHANGED Service!vars
    BY <1>2, BeginReloadMaps, ReadMaps, StartedMaps, StartFailedMaps, DestroyedMaps
       DEF Advance
<1>3. ASSUME NEW k \in Keys, Fire(k) \/ EndRun(k)
      PROVE  UNCHANGED Service!vars
    BY <1>3, ViewSame DEF Fire, EndRun, process, scheduler
<1>4. ASSUME NEW k \in Keys, DirectChange(k) PROVE FALSE
    BY <1>4 DEF DirectChange
<1>5. CASE Boot
    BY <1>5, StartMaps, FindAllMaps, ApplyNextMaps, ListenMaps DEF Boot
<1>6. CASE Stop
    <2>1. CASE Exit
        BY <2>1, LostMaps DEF Exit
    <2>. QED
        BY <1>6, <2>1, DestroyTasksMaps, StoppedMaps DEF Stop
<1>7. CASE Shutdown
    BY <1>7, ShutdownMaps
<1>8. CASE Crash
    BY <1>8, LostMaps DEF Crash
<1>9. CASE UNCHANGED vars
    BY <1>9, ViewSame DEF vars, process, scheduler
<1>. QED
    BY <1>1, <1>2, <1>3, <1>4, <1>5, <1>6, <1>7, <1>8, <1>9 DEF Next

\* Without direct edits everything in the collection can always be scheduled.
LEMMA ProperInvariant ==
    ASSUME ~DirectChanges
    PROVE  Spec => []Proper
<1>1. Init => Proper
    BY DEF Init, Absent, IdleRequest, Proper
<1>2. IInv /\ Applied /\ Proper /\ [Next]_vars => Proper'
    BY ProperKeeps
<1>. QED
    BY <1>1, <1>2, Invariant, AppliedInvariant, PTL DEF Spec

\* Unless somebody edits the collection directly, the scheduler is a JobService: a
\* change is answered only after one look at the collection that saw it and was
\* brought in force, failed, or was passed over because the server closes.
THEOREM ServiceImplemented ==
    ASSUME ~DirectChanges
    PROVE  Spec => ImplementsService
<1>1. Init => Service!Init
    BY InitMaps
<1>2. IInv /\ Applied /\ Proper /\ [Next]_vars => [Service!Next]_(Service!vars)
    BY StepMaps
<1>. QED
    BY <1>1, <1>2, Invariant, AppliedInvariant, ProperInvariant, PTL
       DEF Spec, ImplementsService, Service!Spec
=============================================================================
