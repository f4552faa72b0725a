CONSTANTS
    Calls = {c1, c2}
    NoCall = NoCall
    Agents = {a1}
    NoAgent = NoAgent
    Nodes = {n1}
    Home = n1
    MaxFlushes = 1
    Batch = 2
    MaxRows = 3
    MaxIncidents = 1
SPECIFICATION Spec
PROPERTIES OwnCallTaken
CHECK_DEADLOCK FALSE
