\* A message that outlives its count answers for another one.
CONSTANTS
    Pubs = {p1, p2}
    Flushers = {f1}
    EdgeNodes = {n1, n2}
    NoPub = NoPub
    NoNode = NoNode
    Loop = Loop
    SeqMod = 3
    Capacity = 1
    MaxInflight = 1
    CancelWindow = FALSE
    MaxWire = 1
    MaxDisconnects = 2
    FlushAgain = TRUE
SPECIFICATION Spec
SYMMETRY TaskSymmetry
INVARIANT FlushOkMeansAcked
\* The callers may stop publishing.
CHECK_DEADLOCK FALSE
