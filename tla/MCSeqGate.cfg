\* Two tasks of an edge-node client, its own edge node and a foreign one.
CONSTANTS
    Tasks = {t1, t2}
    EdgeNodes = {own, other}
    OwnNode = own
    NoTask = NoTask
    NoNode = NoNode
    SeqMod = 3
    Capacity = 1
    CancelWindow = TRUE
    MaxWire = 2
SPECIFICATION Spec
SYMMETRY TaskSymmetry
INVARIANTS TypeOK GateInv NumberFollowsLastKept BirthPairTogether
PROPERTY AtomicSpec
\* The callers may stop publishing.
CHECK_DEADLOCK FALSE
