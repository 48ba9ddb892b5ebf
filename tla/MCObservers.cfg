SPECIFICATION Spec
\* One flow pushes the other out of PreSendGenuineObserver.
SYMMETRY Symmetry
CONSTANTS
    Flows = {f1, f2}
    SeqSpace = 6
    preSendRingSize = 2
    FlowLimit = 1
    GenFlowLimit = 1
    MaxLate = 2
INVARIANT TypeOK
INVARIANT BoundedMemory
INVARIANT RingMirrorsSet
INVARIANT HighWaterExact
PROPERTY CountsReorder
PROPERTY ImplementsSeenWindow
