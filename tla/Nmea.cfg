SPECIFICATION Spec
CONSTANTS
    NMEA_MAX_SIZE = 3
    GPS_MAX_SVS = 3
    GNSS_MAX_SVS = 4
    NMEA_MAX_SV_INFO = 2
    Links <- MCLinks
    DayOf <- Days
    MaxEpoch = 3
INVARIANTS
    TypeOK
    LineIntact
    LocationWhole
    LocationReported
    SatellitesReported
