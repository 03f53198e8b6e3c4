SPECIFICATION FairPanelSpec
CONSTANTS
    H = 3
    W = 2
    REPAINT_SLICE = 1
    Programs = {"board", "plain", "show"}
    First = "plain"
    Dynamic <- MCDynamic
    Scroll <- MCScroll
    Palette <- MCPalette
    Reads <- MCReads
    MAX_VALUES = 1
    Values = {"1", "2"}
    Requests = {"values", "program", "pattern", "dma", "frame", "layout"}
    MaxRequests = 3
INVARIANTS
    PanelTypeOK
    NothingOwedIsCurrent
PROPERTIES
    Converges
CHECK_DEADLOCK FALSE
