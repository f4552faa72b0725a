CONSTANTS
    Nodes = {n1, n2}
    Lifetime = 2
    MaxSockets = 2
    MaxJobs = 1
SPECIFICATION Spec
INVARIANTS SocketCounts PauseFollows
PROPERTIES GoneReadsGone
CHECK_DEADLOCK FALSE
