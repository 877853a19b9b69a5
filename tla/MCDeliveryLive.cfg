\* Liveness of flush while the broker answers.
CONSTANTS
    Pubs = {p1, p2}
    Flushers = {f1}
    Loop = Loop
    Survives = TRUE
    CancelWindow = TRUE
    MaxDisconnects = 2
SPECIFICATION AnsweringSpec
PROPERTY FlushReturnsOncePublishingPauses
\* Every publish may be over and every flush may have returned.
CHECK_DEADLOCK FALSE
