SPECIFICATION BusySpec
CONSTANTS
    Leases = {}
    REQUEST_RETRIES = 1
    BlockSize = 2
    MAX_CONFIG_SIZE = 4
    FileLen <- MCFileLen
    Valid = {1, 2, 3}
    MaxSends = 2
    RxCap = 2
PROPERTIES
    StaticFallback
