SPECIFICATION FairWatcher
CONSTANTS
    t = t
    Own = Own
    NoSource = NoSource
    Sources = {t}
    Names <- OneName
    NameOf <- NameTable
    Removable <- OneName
    Critical = {}
    BootSources = {}
    FatalCapacity = 1
    CmdCapacity = 1
    RetireTimeout = 1
    CritThreshold = 2
    FailureCeiling = 2
    BaseBackoff = 2
    MaxBackoff = 4
    ShiftCap = 16
    MaxSignals = 4
    ChannelCapacity = 2
    BatchSize = 2
INVARIANT RetiredIsShownGone
PROPERTIES ImplementsSupervisor RetirementNeedsNoBackend FlushNeedsNoTimeout
