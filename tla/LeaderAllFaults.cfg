SPECIFICATION FairSpec
CONSTANTS
    Nodes = {n1, n2, n3}
    NoNode = NoNode
    OldId = OldId
    Faults = {"refuse", "restart", "disconnect"}
    MaxFaults = 3
PROPERTY SettlesOnOne
