SPECIFICATION FairSpec
CONSTANTS
    f = f
    g = g
    NoRole = NoRole
    NoState = NoState
    NoFile = NoFile
    Files = {f, g}
    CronFiles = {g}
    Lines = {"c"}
    Roles = {"user", "assistant"}
    RoleOf <- RoleTable
    CallsOf <- CallsTable
    Width <- WidthTable
    Inside <- InsideTable
    MetaFirst = TRUE
    MaxLines <- TwoAndOne
    MaxRewritten = 1
    MaxRestarts = 1
INVARIANTS ResumedIsAPrefix
PROPERTIES TailIsReached RestartAgrees TotalsCatchUp
