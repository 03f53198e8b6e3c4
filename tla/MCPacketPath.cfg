SPECIFICATION ReceiverSpec
CONSTANTS
    NumFrames = 3
    WireId <- MCWireId
    Format <- MCRgb
    NumPixels = 3
    PixelsPerChunk <- MCStride
    Total <- MCTotal
    Copies = 2
    SwapWholeOnly = TRUE
    Delays = FALSE
    Overflow = TRUE
    WireCap = 1
    SeqMod = 4
    PaletteOf <- MCNoPalette
    MaxRepair = 1
    StuckFrames = 8
    MacCap = 2
    Knobs = {}
    Strays <- MCNoStrays
    MaxKnobs = 0
    FilterOn = FALSE
    DmaOn = FALSE
    MacLoss = TRUE
PROPERTIES
    PatchedFlip
    PixelsNeverGoBack
