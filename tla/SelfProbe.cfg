SPECIFICATION Spec
CONSTANTS
    MaxProbe = 2
    MaxHeight = 4
    FEE = 2
    TOP_UP = 3
    MaxTopUp = 1
    BALANCE = 3
    MaxCrash = 1
INVARIANTS TypeOK FeesWithinCharges FeeExplained ProbesAccountForBlobs
PROPERTY VerdictIsTrue
