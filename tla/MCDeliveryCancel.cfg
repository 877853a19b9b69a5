\* A cancellation that meets a message the client took and the broker answered.
CONSTANTS
    Pubs = {p1, p2}
    Flushers = {f1}
    Loop = Loop
    Survives = FALSE
    CancelWindow = TRUE
    MaxDisconnects = 1
SPECIFICATION Spec
PROPERTY GuardReleasesOwnCount
\* Every publish may be over and every flush may have returned.
CHECK_DEADLOCK FALSE
