SPECIFICATION Spec
CONSTANTS
    d = d
    e = e
    k = k
    n = n
    m = m
    g = g
    a = a
    b = b
    p = p
    x = x
    y = y
    z = z
    Series <- AllSeries
    MaxChanges = 2
    MaxDrops = 0
    MaxShown = 3
    TotalFiles = {"cpu.stat"}
    MaxUsage = 1
    Skills = {d}
    SkillNames = {n}
    NameOfSkill <- OneName
    HomeOf <- Placed
    MemoryFiles = {m}
    Graphs = {g}
    Observations = 2
    MaxRecords = 1
    Targets <- InTurn
    Processes = {p}
    Itself = Itself
    MaxMemory = 1
    Services = {x}
    Hosts = {y, z}
    Unknown = Unknown
    Unnamed = Unnamed
    MaxBatch = 1
    Options = {"data_root", "container_cgroup"}
    Layers = {"gateway", "proxy"}
    Misspelt = Misspelt
    Unset = Unset
    MaxTargets = 1
INVARIANTS CountersAreNotInflated
