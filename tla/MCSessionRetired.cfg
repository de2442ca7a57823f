SPECIFICATION Spec
CONSTANTS
    f = f
    g = g
    NoRole = NoRole
    NoState = NoState
    NoFile = NoFile
    Files = {f}
    CronFiles = {}
    Lines = {"u"}
    Roles = {"user", "assistant"}
    RoleOf <- RoleTable
    CallsOf <- CallsTable
    Width <- WidthTable
    Inside <- InsideTable
    MetaFirst = TRUE
    MaxLines <- TwoAndOne
    MaxRewritten = 0
    MaxRestarts = 1
INVARIANT RetiredGoesAbsent
