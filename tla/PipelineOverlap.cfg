SPECIFICATION Spec
CONSTANTS
    t1 = t1
    e2 = e2
    e1 = e1
    Events = {e1, e2}
    Tenants = {t1}
    TenantOf <- OneTenant
    NoDbEvents = {}
    MaxInFlight = 2
    MaxOutages = 1
    ScanCap = 3
    StreamMaxLen = 3
    NoTenant = NoTenant
    Faults = {}
INVARIANT NoLoss
