SPECIFICATION Spec
CONSTANTS
    Flows = {f1}
    SeqSpace = 8
    Window = 2
    Segs <- MixedSegs
    SendWindow = 2
    Late = 0
    MaxPos = 8
PROPERTY ReleasedInOrder
