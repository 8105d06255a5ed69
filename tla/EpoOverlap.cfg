SPECIFICATION Spec
CONSTANTS
    DwDays = 6
    GpsPeriod = 3
    WifiPeriod = 1
    WifiTrigger = TRUE
    Enabled = TRUE
    RetryLimit = 2
    MaxDay = 5
    UpdCap = 1
    Envs <- MCOverlap
INVARIANTS
    PieceDone
