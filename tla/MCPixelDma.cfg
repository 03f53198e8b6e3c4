SPECIFICATION DmaSpec
CONSTANTS
    NumFrames = 3
    WireId <- MCWireId
    Format <- MCFormat
    NumPixels = 3
    PixelsPerChunk <- MCStride
    Total <- MCTotal
    Copies = 1
    SwapWholeOnly = TRUE
    Delays = TRUE
    WireCap = 3
    SeqMod = 4
INVARIANTS
    TypeOK
    WholeOnGlass
    SnapshotOnGlass
    IInv
