SPECIFICATION Spec
CONSTANTS
    Worker = {w1, w2}
    PERIOD = 10
    Buckets <- MCBuckets
    TOLERANCE = 4
    HTTP_TIMEOUT = 3
    SUBMIT_MAX = 1
    MaxLost = 1
SYMMETRY WorkerSymmetry
INVARIANTS RunsDoNotOverlap PassedOverOnlyWhenLate
PROPERTIES OncePerBucket LabelIsHonest
