SPECIFICATION FairSpec
CONSTANTS
    t1 = t1
    e2 = e2
    e1 = e1
    Events = {e1, e2}
    Tenants = {t1}
    TenantOf <- OneTenant
    NoDbEvents = {e2}
    MaxInFlight = 2
    MaxOutages = 1
    ScanCap = 2
    StreamMaxLen = 1
    NoTenant = NoTenant
    Faults = {"crash", "election", "redis", "disk", "error"}
INVARIANT CursorOnApplied
INVARIANT FrozenMeansRestricted
PROPERTY BackToNormal
