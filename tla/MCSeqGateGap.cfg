\* A birth cancelled between its two messages, without the window of ADR-0005.
CONSTANTS
    Tasks = {t1, t2}
    EdgeNodes = {own, other}
    OwnNode = own
    NoTask = NoTask
    NoNode = NoNode
    SeqMod = 3
    Capacity = 1
    CancelWindow = FALSE
    MaxWire = 2
SPECIFICATION Spec
INVARIANT HostReadsNoGap
CHECK_DEADLOCK FALSE
