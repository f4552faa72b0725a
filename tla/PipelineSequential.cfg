SPECIFICATION FairSpec
CONSTANTS
    t1 = t1
    e2 = e2
    e1 = e1
    e3 = e3
    e4 = e4
    Events = {e1, e2, e3, e4}
    Tenants = {t1}
    TenantOf <- OneTenant
    NoDbEvents = {e4}
    MaxInFlight = 1
    MaxOutages = 1
    ScanCap = 4
    StreamMaxLen = 4
    NoTenant = NoTenant
    Faults = {}
INVARIANT NoLoss
PROPERTY DeliversReliably
PROPERTY NormalMeansReplayed
