SPECIFICATION FairSpec
CONSTANTS
    h = h
    h2 = h2
    t1 = t1
    NoSource = NoSource
    Sources = {t1}
    Names <- TenantNames
    NameOf <- NameTable
    Removable <- TenantNames
    Critical = {}
    BootSources = {}
    FatalCapacity = 1
    CmdCapacity = 1
    RetireTimeout = 1
    CritThreshold = 2
    FailureCeiling = 2
    BaseBackoff = 1
    MaxBackoff = 4
    ShiftCap = 16
PROPERTIES InterruptStops
