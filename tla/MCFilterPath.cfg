SPECIFICATION ReceiverSpec
CONSTANTS
    NumFrames = 4
    WireId <- MCWireId
    Format <- MCMixed
    NumPixels = 2
    PixelsPerChunk <- MCStride
    Total <- MCTotal
    Copies = 1
    SwapWholeOnly = TRUE
    Delays = TRUE
    Overflow = FALSE
    WireCap = 2
    SeqMod = 4
    PaletteOf <- MCOwnPalette
    MaxRepair = 1
    StuckFrames = 2
    MacCap = 1
    Knobs = {"hold", "cpu_pixels"}
    Strays <- MCNoStrays
    MaxKnobs = 2
    FilterOn = TRUE
    DmaOn = TRUE
    MacLoss = TRUE
INVARIANTS
    WholeWhileHardware
PROPERTIES
    HeldMeansHeld
