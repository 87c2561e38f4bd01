SPECIFICATION Spec
CONSTANTS
    Worker = {w1, w2}
    Row = {r1, r2}
    HeightOf <- MCHeightOf
    Confidence = {40, 99}
    SETTLE_CONFIDENCE_THRESHOLD = 99
    MAX_ATTEMPTS = 2
    MAX_PENDING_PER_RUN = 2
    MaxCrash = 1
    r1 = r1
    r2 = r2
INVARIANTS NoStrandedRow SettledJustified SummaryBackedBySamples SampleBudget
PROPERTIES MaxNeverDecreases RefinesSettlement
CHECK_DEADLOCK FALSE
