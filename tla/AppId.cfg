SPECIFICATION Spec
CONSTANTS
    AppId = {a1, a2}
    Worker = {w1}
    MaxHeight = 4
    Missing = {2}
    MAX_BLOCKS_PER_APP_PER_RUN = 2
    BOOTSTRAP = 1
    MAX_FAILURES = 2
    MaxSwitches = 1
    MaxCrash = 1
INVARIANT HolesExplained
PROPERTY CatchesUp
CHECK_DEADLOCK FALSE
