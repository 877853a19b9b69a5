\* Both roles, connect to shutdown, over a link that breaks and reconnects.
CONSTANTS
    Roles = {"Publisher", "EdgeNode"}
    Capacity = 2
    MaxPubs = 3
    MaxEvents = 4
    LoopMayDie = TRUE
SPECIFICATION FairSpec
INVARIANTS TypeOK ShutdownMeansDelivered CountMatchesTheLink
    HealthFollowsTheLink OpenMeansGreeted
PROPERTIES ShutdownReturnsInTime LoopStopsWithTheClient
\* A client that is done, with its loop stopped, does nothing more.
CHECK_DEADLOCK FALSE
