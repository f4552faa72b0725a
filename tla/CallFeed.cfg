CONSTANTS
    Calls = {c1}
    NoCall = NoCall
    Agents = {a1, a2}
    NoAgent = NoAgent
    Nodes = {n1, n2}
    Home = n1
    MaxFlushes = 2
    Batch = 2
    MaxRows = 3
    MaxIncidents = 1
SPECIFICATION Spec
INVARIANTS FirstInOrder
PROPERTIES OutboxReliable EndedLeavesScreen
CHECK_DEADLOCK FALSE
