SPECIFICATION FairSpec
CONSTANTS
    DwDays = 8
    GpsPeriod = 3
    WifiPeriod = 1
    WifiTrigger = TRUE
    Enabled = TRUE
    RetryLimit = 2
    MaxDay = 3
    UpdCap = 1
    Envs <- MCEnvs
INVARIANTS
    TypeOK
    HalWellFormed
    DatWellFormed
    CompletedHasAll
PROPERTIES
    RetryEnds
