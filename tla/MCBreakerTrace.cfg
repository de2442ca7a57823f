SPECIFICATION Spec
CONSTANTS
    CritThreshold = 3
    FailureCeiling = 7
    BaseBackoff = 1
    MaxBackoff = 12
    ShiftCap = 5
    MaxHistory = 8
INVARIANTS CountsTheStreak BackoffDoubles FatalFromTheThreshold
CHECK_DEADLOCK FALSE
