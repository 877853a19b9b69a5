\* Two tasks of a publisher share a channel with one slot; one task flushes once.
\* New calls stop once the client took two messages; the calls under way and the
\* waiting publishes still add to them. Two events take the link down: one ends
\* the first session, one more is a failed attempt or the end after a DISCONNECT.
CONSTANTS
    Pubs = {p1, p2}
    Flushers = {f1}
    EdgeNodes = {n1, n2}
    NoPub = NoPub
    NoNode = NoNode
    Loop = Loop
    SeqMod = 3
    Capacity = 1
    MaxInflight = 1
    CancelWindow = TRUE
    MaxWire = 2
    MaxDisconnects = 2
    FlushAgain = FALSE
SPECIFICATION Spec
SYMMETRY TaskSymmetry
INVARIANTS TypeOK SessionReadsNoGap LossesAreRecorded CountMatchesTheLink
\* The callers may stop publishing.
CHECK_DEADLOCK FALSE
