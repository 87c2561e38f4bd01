SPECIFICATION Spec
CONSTANTS
    Worker = {w1, w2}
    Row = {r1, r2, r3}
    HeightOf <- MCHeightOf
    MAX_BLOCKS_PER_RUN = 2
    MaxCrash = 1
    r1 = r1
    r2 = r2
    r3 = r3
INVARIANTS VerdictHasItsSample SamplesBoundedByOverlap
PROPERTIES DoneIsFinal RefinesSettlement
CHECK_DEADLOCK FALSE
