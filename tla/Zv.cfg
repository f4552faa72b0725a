SPECIFICATION Spec
CONSTANTS
    nc = nc
    qj = qj
    ac = ac
    an = an
    be = be
    qj2 = qj2
    ho = ho
    un = un
    cw = cw
    hu = hu
    hu2 = hu2
    lh = lh
    Events = {be, ho, un, cw, hu, hu2, lh}
    Kind <- MCKind
    Identity <- MCIdentity
    Channels = {"caller", "local", "agent"}
    ChannelOf <- MCChannelOf
    LocalChannels = {"local"}
    AgentChannels = {"agent"}
    Replayer = Replayer
    Overlap = FALSE
    MaxReplays = 0
    Commands = {"transfer", "cancel", "complete", "pickup", "expiry"}
    MaxCommands = 2
    MaxTime = 5
    StaleAfter = 1
    Faults = {}
INVARIANT HoldWithinCall
INVARIANT AnnouncedEndStands
PROPERTY EndedIsFinal
CHECK_DEADLOCK FALSE
