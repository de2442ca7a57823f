SPECIFICATION FairSpec
CONSTANTS
    u = u
    v = v
    NoCommand = NoCommand
    Workspaces = {u, v}
    CmdCapacity = 2
    MaxChanges = 2
    MaxGlitches = 1
    ScanWrap = 2
PROPERTIES Converges ScansGoOn StopsWithSupervisor
INVARIANTS TypeOK KnownMirrorsRegistry CommandsAreApt
