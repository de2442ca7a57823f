SPECIFICATION FairSpec
CONSTANTS
    h = h
    h2 = h2
    t1 = t1
    NoSource = NoSource
    Sources = {h, t1}
    Names <- BothNames
    NameOf <- NameTable
    Removable <- TenantNames
    Critical = {t1}
    BootSources = {h}
    FatalCapacity = 1
    CmdCapacity = 1
    RetireTimeout = 0
    CritThreshold = 1
    FailureCeiling = 1
    BaseBackoff = 1
    MaxBackoff = 4
    ShiftCap = 16
PROPERTIES RetirementCompletes LoopResumes FatalEndsTheProcess
