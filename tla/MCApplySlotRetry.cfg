SPECIFICATION Spec
CONSTANTS
    Tables = {t1}
    Recreate = TRUE
    MaxLsn = 4
    MaxFaults = 3
INVARIANTS RetryHasWork
CHECK_DEADLOCK FALSE
