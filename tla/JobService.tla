----------------------------- MODULE JobService -----------------------------
(***************************************************************************)
(* What the cron jobs promise to those who configure them.  Every job has  *)
(* a schedule the collection asks for and one that is in force.  A call    *)
(* stores a change and is answered only when, after its store, the service *)
(* has looked at the collection in one step and brought in force what it   *)
(* saw; otherwise the job is marked failed or the service is closing.      *)
(* There are no documents, tasks, chains, reads or phases of a start here: *)
(* CronScheduler has all of these and is shown to implement this module.   *)
(*                                                                         *)
(* Sources: configure() of src/services/cron-job.service.ts; initialize(), *)
(* reload() and shutdown() of src/cron/scheduler.ts.                       *)
(***************************************************************************)
CONSTANTS Keys,      \* the jobs
          Schedules, \* valid schedules
          Requests,  \* calls in flight
          Faults,    \* TRUE if attempts can fail
          None       \* not scheduled

VARIABLES stored,  \* what the collection asks for, by job
          plan,    \* what the service is bringing, or has brought, in force
          held,    \* what is in force
          failed,  \* the last attempt at the job failed
          calls,   \* how far each call has come, and on which job
          server

vars == <<stored, plan, held, failed, calls, server>>

\* open: accepted; stored: waits to be looked at; taken: what the service saw when
\* it looked is being brought in force.
Idle == [state |-> "idle", key |-> None]

Nothing == [k \in Keys |-> None]

Init ==
    /\ stored = Nothing /\ plan = Nothing /\ held = Nothing
    /\ failed = [k \in Keys |-> FALSE]
    /\ calls = [r \in Requests |-> Idle]
    /\ server = "down"

Set(r, call) == calls' = [calls EXCEPT ![r] = call]
Mark(k, failure) == failed' = [failed EXCEPT ![k] = failure]

Taken(k) == \E r \in Requests : calls[r] = [state |-> "taken", key |-> k]

-----------------------------------------------------------------------------
(* A call                                                                  *)

Call(r) ==
    /\ server = "serving" /\ calls[r].state = "idle"
    /\ \E k \in Keys : Set(r, [state |-> "open", key |-> k])
    /\ UNCHANGED <<stored, plan, held, failed, server>>

\* No such job, or somebody else saved it meanwhile.
Refuse(r) ==
    /\ calls[r].state = "open"
    /\ Set(r, Idle)
    /\ UNCHANGED <<stored, plan, held, failed, server>>

Store(r) ==
    /\ calls[r].state = "open"
    /\ \E schedule \in Schedules \cup {None} :
         stored' = [stored EXCEPT ![calls[r].key] = schedule]
    /\ Set(r, [calls[r] EXCEPT !.state = "stored"])
    /\ UNCHANGED <<plan, held, failed, server>>

\* The service looks at what is stored now.
Take(r) ==
    LET k == calls[r].key IN
    /\ calls[r].state = "stored" /\ ~Taken(k)
    /\ server \in {"serving", "closing"}
    /\ plan' = [plan EXCEPT ![k] = stored[k]]
    /\ Mark(k, FALSE)
    /\ Set(r, [calls[r] EXCEPT !.state = "taken"])
    /\ UNCHANGED <<stored, held, server>>

\* It looks, and what is stored is in force already.
AlreadySo(r) ==
    LET k == calls[r].key IN
    /\ calls[r].state = "stored" /\ ~Taken(k)
    /\ plan[k] = stored[k] /\ held[k] = stored[k]
    /\ Mark(k, FALSE)
    /\ Set(r, Idle)
    /\ UNCHANGED <<stored, plan, held, server>>

Commit(r) ==
    LET k == calls[r].key IN
    /\ calls[r].state = "taken"
    /\ held' = [held EXCEPT ![k] = plan[k]]
    /\ Set(r, Idle)
    /\ UNCHANGED <<stored, plan, failed, server>>

\* What was taken could not be brought in force: what was in force stays.
Revert(r) ==
    LET k == calls[r].key IN
    /\ Faults /\ calls[r].state = "taken"
    /\ plan' = [plan EXCEPT ![k] = held[k]]
    /\ Mark(k, TRUE)
    /\ Set(r, Idle)
    /\ UNCHANGED <<stored, held, server>>

\* The look failed.
Lose(r) ==
    LET k == calls[r].key IN
    /\ Faults /\ calls[r].state = "stored" /\ ~Taken(k)
    /\ Mark(k, TRUE)
    /\ Set(r, Idle)
    /\ UNCHANGED <<stored, plan, held, server>>

\* A service that closes looks no more.
Skip(r) ==
    /\ server \in {"closing", "closed"} /\ calls[r].state = "stored"
    /\ Set(r, Idle)
    /\ UNCHANGED <<stored, plan, held, failed, server>>

-----------------------------------------------------------------------------
(* The service                                                             *)

Boot ==
    /\ server = "down" /\ server' = "starting"
    /\ UNCHANGED <<stored, plan, held, failed, calls>>

\* One job after the other is brought in force.
Prepare(k) ==
    /\ server = "starting"
    /\ \A j \in Keys : plan[j] = held[j] /\ ~failed[j]
    /\ held[k] = None
    /\ plan' = [plan EXCEPT ![k] = stored[k]]
    /\ UNCHANGED <<stored, held, failed, calls, server>>

Prepared(k) ==
    /\ server = "starting"
    /\ held' = [held EXCEPT ![k] = plan[k]]
    /\ UNCHANGED <<stored, plan, failed, calls, server>>

Unprepared(k) ==
    /\ Faults /\ server = "starting"
    /\ plan' = [plan EXCEPT ![k] = held[k]]
    /\ Mark(k, TRUE)
    /\ UNCHANGED <<stored, held, calls, server>>

\* Calls are accepted only after every job was brought in force as it is stored.
Open ==
    /\ server = "starting" /\ server' = "serving"
    /\ \A k \in Keys : held[k] = stored[k] /\ plan[k] = stored[k] /\ ~failed[k]
    /\ UNCHANGED <<stored, plan, held, failed, calls>>

Close ==
    /\ server = "serving" /\ server' = "closing"
    /\ UNCHANGED <<stored, plan, held, failed, calls>>

\* Nothing is in force any more, and nothing that was taken is on its way.
Closed ==
    /\ server = "closing" /\ server' = "closed"
    /\ \A k \in Keys : ~Taken(k)
    /\ plan' = Nothing /\ held' = Nothing
    /\ UNCHANGED <<stored, failed, calls>>

\* The process is gone.
Die ==
    /\ server # "down" /\ server' = "down"
    /\ plan' = Nothing /\ held' = Nothing
    /\ failed' = [k \in Keys |-> FALSE]
    /\ calls' = [r \in Requests |-> Idle]
    /\ UNCHANGED stored

-----------------------------------------------------------------------------

Answer(r) ==
    Refuse(r) \/ AlreadySo(r) \/ Commit(r) \/ Revert(r) \/ Lose(r) \/ Skip(r)

Next ==
    \/ \E r \in Requests : Call(r) \/ Store(r) \/ Take(r) \/ Answer(r)
    \/ \E k \in Keys : Prepare(k) \/ Prepared(k) \/ Unprepared(k)
    \/ Boot \/ Open \/ Close \/ Closed \/ Die

Spec == Init /\ [][Next]_vars
=============================================================================
