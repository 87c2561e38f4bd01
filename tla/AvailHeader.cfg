SPECIFICATION Spec
CONSTANTS
    Worker = {w1, w2}
    MaxHeight = 5
    Missing = {2, 3, 4}
    MAX_BLOCKS_PER_RUN = 3
    BOOTSTRAP = 2
    MAX_FAILURES = 2
    MaxCrash = 1
INVARIANTS ShortGaps AggregatesAccountedFor DuplicatesBounded
PROPERTY CatchesUp
