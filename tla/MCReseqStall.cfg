SPECIFICATION FairSpec
CONSTANTS
    Flows = {f1}
    SeqSpace = 16
    Window = 2
    Segs <- UnitSegs
    SendWindow = 3
    Late = 1
    MaxPos = 6
PROPERTY LossNeverStalls
