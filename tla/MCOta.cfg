SPECIFICATION FairOtaSpec
CONSTANTS
    SECTOR = 2
    APP_LEN = 4
    GOLDEN_BASE = 6
    GOLDEN_LEN = 2
    MARGINAL_BASE = 8
    MARGINAL_LEN = 2
    SCRATCH_BASE = 10
    SCRATCH_LEN = 2
    FLASH_SIZE = 14
    Files = {"old", "a", "long", "text"}
    Blocks <- MCBlocks
    EmptyTail = {"a"}
    Bitstreams = {"old", "a", "long"}
    Factory = "old"
    NetCap = 1
    MaxRequests = 2
    MaxFaults = 1
INVARIANTS
    OtaTypeOK
    NeverBricked
    DoneIsInstalled
PROPERTIES
    ProtectedUntouched
    BootSlotSpec
    LoaderEnds
CHECK_DEADLOCK FALSE
