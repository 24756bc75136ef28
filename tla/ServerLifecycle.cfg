\* Two connections and one job, with failing steps.  No symmetry: the run checks
\* liveness.
CONSTANTS
    Connections = {c1, c2}
    Jobs = {j1}
    Faults = TRUE
SPECIFICATION FairSpec
INVARIANTS ConfigurationIsComplete WorkHasItsDatabase CleanEnd
PROPERTY ShutdownEnds
CHECK_DEADLOCK FALSE
