SPECIFICATION FairSpec
CONSTANTS
    Builds <- MCBuilds
    Clients <- MCClients
    Freqs <- MCFreqs
    ApFreqs <- MCApFreqs
    OperChannel <- MCOperChannel
    Garbage <- MCGarbage
    Stations = {s1, s2}
    Countries <- MCCountries
    Lists <- MCLists
    Capabilities <- MCCapabilities
    DRV_NUMBER_SEQUENTIAL_ERRORS = 1
    ScanTimeout = 3
    StatsLines <- MCStatsLines
    LinkLines <- MCLinkLines
    MaxBuf = 10
    MaxFails = 3
INVARIANTS
    TypeOK
    ChannelListCurrent
    OnSharedChannel
    ErrorsCounted
    ScanLoading
    BlockListAgrees
    ReportsWhole
PROPERTIES
    ScanAnnounced
