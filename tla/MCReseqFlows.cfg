SPECIFICATION Spec
CONSTANTS
    Flows = {f1, f2}
    SeqSpace = 16
    Window = 2
    Segs <- MixedSegs
    SendWindow = 4
    Late = 0
    MaxPos = 4
INVARIANT BufferBounded
INVARIANT NothingReadyHeld
