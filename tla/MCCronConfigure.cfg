\* Two concurrent configure requests of one job, with failures, crashes and
\* shutdowns.  No symmetry: the run checks liveness.
CONSTANTS
    s1 = s1
    s2 = s2
    None = None
    Invalid = Invalid
    Keys = {heartbeat}
    Catalog = {heartbeat}
    Schedules = {s1, s2}
    Default = s1
    TaskIds = {t1, t2, t3}
    Requests = {r1, r2}
    Inputs <- Changes
    MaxVersion = 2
    DirectChanges = FALSE
    Faults = TRUE
SPECIFICATION FairSpec
INVARIANTS OneExecution NoOrphanTask QuietAfterShutdown
PROPERTIES ImplementsService AnswerIsStored RequestsAnswered ShutdownEnds
CHECK_DEADLOCK FALSE
