SPECIFICATION FairSpec
CONSTANTS
    nc = nc
    qj = qj
    ac = ac
    an = an
    be = be
    qj2 = qj2
    ho = ho
    un = un
    cw = cw
    hu = hu
    hu2 = hu2
    lh = lh
    Events = {qj, qj2}
    Kind <- MCKind
    Identity <- MCIdentity
    Channels = {"caller", "local", "agent"}
    ChannelOf <- MCChannelOf
    LocalChannels = {"local"}
    AgentChannels = {"agent"}
    Replayer = Replayer
    Overlap = TRUE
    MaxReplays = 1
    Commands = {"pickup"}
    MaxCommands = 1
    MaxTime = 5
    StaleAfter = 1
    Faults = {"db", "redis"}
INVARIANT CreatedFirst
INVARIANT OncePerFingerprint
PROPERTY OpenEnds
CHECK_DEADLOCK FALSE
