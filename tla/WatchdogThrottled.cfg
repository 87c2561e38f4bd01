SPECIFICATION Spec
CONSTANTS
    PERIOD = 5
    SUBMIT_MAX = 1
    WATCHDOG_MAX = 2
    WINDOW_MIN = 15
    FAIL_THRESHOLD = 3
    COOLDOWN_MIN = 30
    MaxLost = 0
PROPERTY Throttled
