\* Any broker session: late messages and cancellations at the worst moment.
CONSTANTS
    Pubs = {p1, p2}
    Flushers = {f1, f2}
    Loop = Loop
    Survives = TRUE
    CancelWindow = TRUE
    MaxDisconnects = 1
SPECIFICATION Spec
SYMMETRY TaskSymmetry
INVARIANTS TypeOK CountIsExact FlushOkMeansAckedUnlessStray NoSleepAfterDrain
PROPERTIES ReportsItsWindow LossIsToldToSomeone ContractUnlessStray
\* Every publish may be over and every flush may have returned.
CHECK_DEADLOCK FALSE
