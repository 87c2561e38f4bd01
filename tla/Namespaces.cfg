SPECIFICATION NamespacesSpec
CONSTANTS
    Namespace = {n1, n2}
    Placeholder = {}
    Worker = {w1, w2}
    MaxHead = 3
    MAX_BLOCKS_PER_NAMESPACE_PER_RUN = 2
    BACKFILL = 1
    MaxSwitches = 1
    MaxDeaths = 1
INVARIANT GapsAreTooOld
PROPERTY CatchesUp
CHECK_DEADLOCK FALSE
