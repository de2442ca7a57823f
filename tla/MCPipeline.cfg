SPECIFICATION FairSpec
CONSTANTS
    a = a
    b = b
    Holders = {a, b}
    MaxSignals = 3
    ChannelCapacity = 2
    BatchSize = 2
PROPERTIES ImplementsBestEffort SignalsLeave DrainEnds
INVARIANTS TypeOK BatchesAreBounded EndsEmpty InOrderOnce
