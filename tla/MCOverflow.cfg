SPECIFICATION OverflowSpec
CONSTANTS
    NumFrames = 2
    WireId <- MCWireId
    Format <- MCFormat
    NumPixels = 3
    PixelsPerChunk <- MCStride
    Total <- MCTotal
    Copies = 1
    SwapWholeOnly = TRUE
    Delays = FALSE
    WireCap = 3
    SeqMod = 4
INVARIANTS
    WholeOnGlass
