\* Liveness, with and without an event loop that empties the channel.
CONSTANTS
    Tasks = {t1, t2}
    EdgeNodes = {own, other}
    OwnNode = own
    NoTask = NoTask
    NoNode = NoNode
    SeqMod = 3
    Capacity = 1
    CancelWindow = TRUE
    MaxWire = 1
SPECIFICATION FairSpec
PROPERTIES EveryCallEnds WaitsOnlyForItsOwnNode
\* The callers may stop publishing.
CHECK_DEADLOCK FALSE
