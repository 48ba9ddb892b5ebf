SPECIFICATION FairSpec
\* TUN_QUEUES unset (two queues) or 1; the smallest link that carries full
\* packets, of the derived MTU.
CONSTANTS
    TunQueues = {0, 1}
    NumCPU = 2
    WanMTUs = {1291}
    TunnelMTUs = {0}
    MaxOut = 2
    MaxPackets = 2
INVARIANT TypeOK
INVARIANT FailureReachesWatcher
PROPERTY OneQueueKeepsOrder
PROPERTY RefusedOnlyUntilProbed
PROPERTY LossEndsSession
PROPERTY PumpsReturn
PROPERTY ImplementsSession
\* The session ends, and tunnel() with it.
CHECK_DEADLOCK FALSE
