SPECIFICATION FairWallSpec
CONSTANTS
    Cards = {"c1"}
    Programs = {"p"}
    Shows = {"a", "b"}
    QUEUE = 1
    FULL_EVERY = 2
    BOOT_STEPS = 2
    MaxPlayers = 2
    MaxEvents = 2
INVARIANTS
    WallTypeOK
    QueueIsCurrent
PROPERTIES
    CardReturns
    WallConverges
    StoppedPlayersEnd
CHECK_DEADLOCK FALSE
