SPECIFICATION FairReceiverSpec
CONSTANTS
    NumFrames = 2
    WireId <- MCWireId
    Format <- MCMixed
    NumPixels = 2
    PixelsPerChunk <- MCStride
    Total <- MCTotal
    Copies = 1
    SwapWholeOnly = TRUE
    Delays = FALSE
    Overflow = FALSE
    WireCap = 1
    SeqMod = 4
    PaletteOf <- MCOwnPalette
    MaxRepair = 1
    StuckFrames = 2
    MacCap = 1
    Knobs = {"hold", "dma", "filter", "auto_swap"}
    Strays <- MCStrays
    MaxKnobs = 1
    FilterOn = FALSE
    DmaOn = TRUE
    MacLoss = FALSE
INVARIANTS
    RxTypeOK
    MaskCounts
PROPERTIES
    FrameResolved
    PaletteApplied
