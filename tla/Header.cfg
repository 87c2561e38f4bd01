SPECIFICATION AggregatesSpec
CONSTANTS
    Worker = {w1, w2}
    MaxHeight = 5
    InitialHeights = {1}
    EmptyBlock = {3}
    MAX_BLOCKS_PER_RUN = 3
    BOOTSTRAP = 1
    MaxCrash = 1
    Block <- MCBlock
    Side <- MCSide
INVARIANTS Contiguous AggregatesAccountedFor DuplicatesBounded CountsAgree
PROPERTY EveryBlockStored
