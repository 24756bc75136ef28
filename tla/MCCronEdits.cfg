\* A job with a handler and one without, whose documents are also edited directly.
CONSTANTS
    s1 = s1
    s2 = s2
    None = None
    Invalid = Invalid
    Keys = {heartbeat, retired}
    Catalog = {heartbeat}
    Schedules = {s1}
    Default = s1
    TaskIds = {t1, t2, t3}
    Requests = {r1}
    Inputs <- Switches
    MaxVersion = 1
    DirectChanges = TRUE
    Faults = TRUE
SPECIFICATION Spec
SYMMETRY Symmetry
INVARIANT InForce
PROPERTY StartIgnoresBadDocuments
CHECK_DEADLOCK FALSE
