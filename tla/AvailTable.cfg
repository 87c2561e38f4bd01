SPECIFICATION TableSpec
CONSTANTS
    Worker = {w1, w2}
    MaxHeight = 1
    Missing = {}
    MAX_BLOCKS_PER_RUN = 1
    BOOTSTRAP = 1
    MAX_FAILURES = 2
    MaxCrash = 1
    Checker = {c1}
    Confidence = {40, 99}
    SETTLE_CONFIDENCE_THRESHOLD = 99
    MAX_ATTEMPTS = 2
    MAX_PENDING_PER_RUN = 1
    MaxCheckCrash = 1
PROPERTY BlocksAreSettled
