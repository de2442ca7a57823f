SPECIFICATION Spec
CONSTANTS
    h = h
    h2 = h2
    t1 = t1
    NoSource = NoSource
    Sources = {h, h2}
    Names <- BootNames
    NameOf <- NameTable
    Removable <- BootNames
    Critical = {h}
    BootSources = {h}
    FatalCapacity = 1
    CmdCapacity = 2
    RetireTimeout = 1
    CritThreshold = 2
    FailureCeiling = 2
    BaseBackoff = 1
    MaxBackoff = 4
    ShiftCap = 16
INVARIANTS SupervisorInv OneWatcherPerName QuietNameWasCut RegisteredIsWatched OnlyCriticalIsFatal ShutdownAbortsAll
PROPERTY ImplementsRegistry
