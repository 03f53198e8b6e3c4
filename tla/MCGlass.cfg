SPECIFICATION DmaSpec
CONSTANTS
    NumFrames = 4
    WireId <- MCWireId
    Format <- MCFormat
    NumPixels = 3
    PixelsPerChunk <- MCStride
    Total <- MCTotal
    Copies = 2
    SwapWholeOnly = TRUE
    Delays = FALSE
    WireCap = 3
    SeqMod = 4
PROPERTIES
    GlassSpec
