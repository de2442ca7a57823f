SPECIFICATION FairSpec
CONSTANTS
    d = d
    e = e
    k = k
    n = n
    m = m
    g = g
    a = a
    b = b
    p = p
    x = x
    y = y
    z = z
    Series <- AllSeries
    MaxChanges = 3
    MaxDrops = 1
    MaxShown = 3
    TotalFiles = {"memory.events"}
    MaxUsage = 1
    Skills = {d, e, k}
    SkillNames = {n}
    NameOfSkill <- OneName
    HomeOf <- Placed
    MemoryFiles = {m}
    Graphs = {g}
    Observations = 2
    MaxRecords = 1
    Targets <- InTurn
    Processes = {p}
    Itself = Itself
    MaxMemory = 1
    Services = {x}
    Hosts = {y, z}
    Unknown = Unknown
    Unnamed = Unnamed
    MaxBatch = 3
    Options = {"data_root", "container_cgroup"}
    Layers = {"gateway", "proxy"}
    Misspelt = Misspelt
    Unset = Unset
    MaxTargets = 2
INVARIANTS RequestsKeepTheBatch AnswerTells RunsAsWritten
PROPERTIES ContainerCatchesUp AgentCatchesUp SamplesCatchUp
