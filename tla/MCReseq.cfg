SPECIFICATION BusySpec
CONSTANTS
    Flows = {f1}
    SeqSpace = 16
    Window = 2
    Segs <- UnitSegs
    SendWindow = 3
    Late = 2
    MaxPos = 18
INVARIANT TypeOK
INVARIANT BufferBounded
INVARIANT NothingReadyHeld
PROPERTY WatermarkAdvances
PROPERTY HeldReachesTun
PROPERTY ReleasedInOrder
PROPERTY StreamAdvances
