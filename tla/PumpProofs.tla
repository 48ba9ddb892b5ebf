----------------------------- MODULE PumpProofs -----------------------------
(***************************************************************************)
(* Proofs about Pump, for any number of queues and CPUs, any MTUs and any  *)
(* traffic.                                                                *)
(***************************************************************************)
EXTENDS Pump, TLAPS

USE DEF sizeVars, kernelVars, downVars, upVars, ctlVars

\* A queue holds packets newer than the one its pump has.
QueueInv ==
    \A q \in Queues : /\ pkt[q] <= sentToTun
                      /\ \A p \in tun[q] : pkt[q] < p /\ p <= sentToTun

\* With one queue nothing newer than the pump's packet was sent.
SentInv == tunQueues = 1 => sent <= pkt[1]

\* The session's context is cancelled after the first error and not before.
CtxInv == connCtx <=> watcher \in {"closeConn", "closeDevs", "done"}

Inv == TypeOK /\ QueueInv /\ SentInv /\ CtxInv /\ FailureReachesWatcher

\* There is at least one queue, and exactly one when TUN_QUEUES says so.
LEMMA QueueFacts ==
    ASSUME TypeOK
    PROVE  /\ numQueues \in Nat \ {0} /\ Queues \subseteq Nat /\ 1 \in Queues
           /\ tunQueues = 1 => Queues = {1}
<1>1. tunQueues \in Nat /\ NumCPU \in Nat \ {0}
  BY PumpAssumption DEF PumpAssumption, TypeOK
<1>2. numQueues \in Nat \ {0}
  BY <1>1 DEF numQueues
<1>3. tunQueues = 1 => numQueues = 1
  BY DEF numQueues
<1> QED
  BY <1>2, <1>3 DEF Queues

\* The sizes of a session do not change, and nothing that is derived from them.
LEMMA SizesFixed ==
    ASSUME UNCHANGED sizeVars
    PROVE  Queues' = Queues /\ numQueues' = numQueues /\ tunQueues' = tunQueues
  BY DEF Queues, numQueues

\* Reporting an error never loses the fact that there is one.
LEMMA Reporting ==
    ASSUME eChan \in 0..Capacity, Report
    PROVE  eChan' \in 0..Capacity /\ eChan' > 0 /\ eChan' >= eChan
  BY PumpAssumption DEF PumpAssumption, Capacity, Report

LEMMA ReportingIf ==
    ASSUME eChan \in 0..Capacity, NEW err \in BOOLEAN, ReportIf(err)
    PROVE  eChan' \in 0..Capacity /\ eChan' >= eChan
  BY Reporting, PumpAssumption DEF PumpAssumption, Capacity, ReportIf

LEMMA InitInv == Init => Inv
<1> SUFFICES ASSUME Init PROVE Inv
  OBVIOUS
<1>1. 0 \in 0..Capacity /\ 0 \in 0..MaxOut /\ 0 \in 0..MaxPackets
  BY PumpAssumption DEF PumpAssumption, Capacity
<1>2. TypeOK
  <2>1. down = "write" <=> left > 0
    BY DEF Init
  <2>2. /\ sentToTun \in 0..MaxPackets /\ tun \in [Queues -> SUBSET (1..MaxPackets)]
        /\ left \in 0..MaxOut /\ sent \in 0..MaxPackets /\ eChan \in 0..Capacity
        /\ pkt \in [Queues -> 0..MaxPackets]
    BY <1>1 DEF Init
  <2> QED
    BY <2>1, <2>2 DEF Init, TypeOK
<1>3. tunQueues = 1 => pkt[1] = 0
  BY <1>2, QueueFacts DEF Init
<1> QED
  BY <1>2, <1>3 DEF Init, Inv, QueueInv, SentInv, CtxInv,
     FailureReachesWatcher, Returned

----------------------------------------------------------------------------
(* One lemma for each process. *)

LEMMA DownInv ==
    ASSUME Inv, Down \/ \E n \in 0..MaxOut : DownRead(n)
    PROVE  Inv'
<1> USE DEF Inv
<1>1. UNCHANGED <<sizeVars, packetSize, conn, openDevs, kernelVars, upVars, ctlVars>>
  BY DEF Down, DownReadFails, DownWrite, DownRead
<1>2. Queues' = Queues
  BY <1>1, SizesFixed
<1>3. QueueInv' /\ SentInv' /\ CtxInv'
  BY <1>1, <1>2 DEF QueueInv, SentInv, CtxInv
<1>4. /\ eChan' \in 0..Capacity /\ eChan' >= eChan
      /\ down' \in {"read", "write", "done"} /\ left' \in 0..MaxOut
      /\ down' = "write" <=> left' > 0
      /\ down' = "done" /\ down # "done" => eChan' > 0
  <2>1. ASSUME NEW n \in 0..MaxOut, DownRead(n) PROVE <1>4
    BY <2>1, PumpAssumption DEF PumpAssumption, DownRead, TypeOK, Capacity
  <2>2. CASE DownReadFails
    BY <2>2, Reporting DEF DownReadFails, TypeOK
  <2>3. CASE DownWrite
    <3>1. eChan' \in 0..Capacity /\ eChan' >= eChan
      BY <2>3, ReportingIf DEF DownWrite, TypeOK
    <3>2. left \in 0..MaxOut /\ left > 0
      BY <2>3 DEF DownWrite, TypeOK
    <3> QED
      BY <2>3, <3>1, <3>2, PumpAssumption DEF DownWrite, PumpAssumption
  <2> QED
    BY <2>1, <2>2, <2>3 DEF Down
<1>5. TypeOK'
  BY <1>1, <1>2, <1>4 DEF TypeOK, Capacity
<1>6. FailureReachesWatcher'
  BY <1>1, <1>2, <1>4 DEF FailureReachesWatcher, Returned, TypeOK, Capacity
<1> QED
  BY <1>3, <1>5, <1>6

LEMMA EnqueueInv ==
    ASSUME Inv, NEW q \in Queues, Enqueue(q)
    PROVE  Inv'
<1> USE DEF Inv
<1>1. Queues' = Queues
  BY SizesFixed DEF Enqueue
<1>2. sentToTun + 1 \in 1..MaxPackets
  BY PumpAssumption DEF PumpAssumption, Enqueue, TypeOK
<1>3. TypeOK'
  BY <1>1, <1>2 DEF TypeOK, Enqueue, Capacity
<1>4. QueueInv'
  BY <1>1, <1>2, PumpAssumption DEF PumpAssumption, QueueInv, Enqueue, TypeOK
<1> QED
  BY <1>1, <1>3, <1>4 DEF Enqueue, SentInv, CtxInv,
     FailureReachesWatcher, Returned

LEMMA UpInv ==
    ASSUME Inv, NEW q \in Queues, Up(q)
    PROVE  Inv'
<1> USE DEF Inv
<1>1. UNCHANGED <<sizeVars, packetSize, conn, openDevs, sentToTun, downVars, ctlVars>>
  BY DEF Up, UpRead, UpReadFails, UpSend, UpIcmp
<1>2. Queues' = Queues /\ tunQueues' = tunQueues
  BY <1>1, SizesFixed
<1>3. tunQueues = 1 => q = 1
  BY QueueFacts
<1>4. CASE UpRead(q)
  <2>1. PICK first \in tun[q] :
          /\ \A p \in tun[q] : first <= p
          /\ pkt' = [pkt EXCEPT ![q] = first]
          /\ tun' = [tun EXCEPT ![q] = @ \ {first}]
    BY <1>4 DEF UpRead
  <2>2. first \in 1..MaxPackets /\ tun[q] \subseteq 1..MaxPackets
    BY <2>1 DEF TypeOK
  <2>3. TypeOK'
    BY <1>1, <1>2, <1>4, <2>1, <2>2 DEF UpRead, TypeOK, Capacity
  <2>4. QueueInv'
    <3> SUFFICES ASSUME NEW r \in Queues
                 PROVE  /\ pkt'[r] <= sentToTun
                        /\ \A p \in tun'[r] : pkt'[r] < p /\ p <= sentToTun
      BY <1>1, <1>2 DEF QueueInv
    <3>1. CASE r = q
      BY <2>1, <2>2, <3>1, PumpAssumption DEF PumpAssumption, QueueInv, TypeOK
    <3>2. CASE r # q
      BY <2>1, <3>2 DEF QueueInv, TypeOK
    <3> QED
      BY <3>1, <3>2
  <2>5. SentInv'
    <3>1. tunQueues = 1 => pkt'[1] = first /\ pkt[1] < first
      BY <1>3, <2>1 DEF QueueInv, TypeOK
    <3>2. sent' = sent /\ sent \in Nat /\ pkt[q] \in Nat /\ first \in Nat
      BY <1>4, <2>2, PumpAssumption DEF UpRead, TypeOK, PumpAssumption
    <3> QED
      BY <1>2, <1>3, <3>1, <3>2 DEF SentInv
  <2> QED
    BY <1>1, <1>2, <1>4, <2>3, <2>4, <2>5 DEF UpRead, CtxInv,
       FailureReachesWatcher, Returned, TypeOK
<1>5. CASE UpReadFails(q)
  <2>1. eChan' \in 0..Capacity /\ eChan' > 0
    BY <1>5, Reporting DEF UpReadFails, TypeOK
  <2>2. TypeOK'
    BY <1>1, <1>2, <1>5, <2>1 DEF UpReadFails, TypeOK, Capacity
  <2> QED
    BY <1>1, <1>2, <1>5, <2>1, <2>2 DEF UpReadFails, QueueInv, SentInv,
       CtxInv, FailureReachesWatcher, TypeOK
<1>6. CASE UpSend(q)
  <2>1. /\ eChan' \in 0..Capacity /\ eChan' >= eChan
        /\ sent' \in {sent, pkt[q]}
        /\ \E label \in {"read", "icmp"} : up' = [up EXCEPT ![q] = label]
    BY <1>6, Reporting, PumpAssumption
    DEF UpSend, TypeOK, PumpAssumption, Capacity
  <2>2. TypeOK'
    BY <1>1, <1>2, <1>6, <2>1 DEF UpSend, TypeOK, Capacity
  <2>3. SentInv'
    BY <1>1, <1>2, <1>3, <1>6, <2>1 DEF UpSend, SentInv, TypeOK
  <2>4. FailureReachesWatcher'
    BY <1>1, <1>2, <2>1 DEF FailureReachesWatcher, Returned, TypeOK, Capacity
  <2> QED
    BY <1>1, <1>2, <1>6, <2>1, <2>2, <2>3, <2>4
    DEF UpSend, QueueInv, CtxInv, TypeOK
<1>7. CASE UpIcmp(q)
  <2>1. eChan' \in 0..Capacity /\ eChan' >= eChan
    BY <1>7, ReportingIf DEF UpIcmp, TypeOK
  <2>2. TypeOK'
    BY <1>1, <1>2, <1>7, <2>1 DEF UpIcmp, TypeOK, Capacity
  <2>3. FailureReachesWatcher'
    BY <1>1, <1>2, <1>7, <2>1
    DEF UpIcmp, FailureReachesWatcher, Returned, TypeOK, Capacity
  <2> QED
    BY <1>1, <1>2, <1>7, <2>2, <2>3
    DEF UpIcmp, QueueInv, SentInv, CtxInv, TypeOK
<1> QED
  BY <1>4, <1>5, <1>6, <1>7 DEF Up

LEMMA ControlInv ==
    ASSUME Inv, Watcher \/ Tunnel \/ Probe \/ ConnLost \/ Cancel
    PROVE  Inv'
<1> USE DEF Inv
<1>1. UNCHANGED <<sizeVars, kernelVars, downVars, upVars>>
  BY DEF Watcher, WatcherStart, WatcherReceive, connCancel, CloseConn, CloseDevs,
         Tunnel, AnnounceUp, TunnelReturns, Probe, ConnLost, Cancel
<1>2. Queues' = Queues
  BY <1>1, SizesFixed
<1>3. QueueInv' /\ SentInv'
  BY <1>1, <1>2 DEF QueueInv, SentInv
<1>4. eChan' \in 0..Capacity /\ (eChan' # eChan => watcher = "recv" /\ watcher' = "cancel")
  BY PumpAssumption
  DEF PumpAssumption, Capacity, TypeOK, Watcher, WatcherStart, WatcherReceive,
      connCancel, CloseConn, CloseDevs, Tunnel, AnnounceUp, TunnelReturns,
      Probe, ConnLost, Cancel
<1>5. TypeOK'
  <2>1. /\ openDevs' \subseteq Queues /\ conn' \in {"open", "lost", "closed"}
        /\ watcher' \in {"start", "recv", "cancel", "closeConn", "closeDevs", "done"}
    BY DEF TypeOK, Watcher, WatcherStart, WatcherReceive, connCancel, CloseConn,
        CloseDevs, Tunnel, AnnounceUp, TunnelReturns, Probe, ConnLost, Cancel
  <2>2. /\ packetSize' \in {clientInitialPacketSize(wan), probedPacketSize(wan)}
        /\ rc' \in {"announce", "wait", "returned"}
        /\ connCtx' \in BOOLEAN /\ ctx' \in BOOLEAN
    BY DEF TypeOK, Watcher, WatcherStart, WatcherReceive, connCancel, CloseConn,
        CloseDevs, Tunnel, AnnounceUp, TunnelReturns, Probe, ConnLost, Cancel
  <2> QED
    BY <1>1, <1>2, <1>4, <2>1, <2>2 DEF TypeOK, Capacity
<1>6. CtxInv'
  BY DEF CtxInv, TypeOK, Watcher, WatcherStart, WatcherReceive,
      connCancel, CloseConn, CloseDevs, Tunnel, AnnounceUp, TunnelReturns,
      Probe, ConnLost, Cancel
<1>7. watcher \notin {"start", "recv"} => watcher' \notin {"start", "recv"}
  BY DEF Watcher, WatcherStart, WatcherReceive,
      connCancel, CloseConn, CloseDevs, Tunnel, AnnounceUp, TunnelReturns,
      Probe, ConnLost, Cancel
<1>8. FailureReachesWatcher'
  BY <1>1, <1>2, <1>4, <1>7 DEF FailureReachesWatcher, Returned
<1> QED
  BY <1>3, <1>5, <1>6, <1>8

----------------------------------------------------------------------------
\* Inv is an inductive invariant.
THEOREM Invariance == Spec => []Inv
<1>1. Inv /\ [Next]_vars => Inv'
  <2> SUFFICES ASSUME Inv, [Next]_vars PROVE Inv'
    OBVIOUS
  <2>1. CASE UNCHANGED vars
    <3>1. Queues' = Queues
      BY <2>1, SizesFixed DEF vars
    <3> QED
      BY <2>1, <3>1 DEF vars, Inv, TypeOK, QueueInv, SentInv, 
         CtxInv, FailureReachesWatcher, Returned, Capacity
  <2>2. CASE Next
    BY <2>2, DownInv, EnqueueInv, UpInv, ControlInv DEF Next
  <2> QED
    BY <2>1, <2>2
<1> QED
  BY <1>1, InitInv, PTL DEF Spec

\* Every variable of the session keeps its type, for any number of TUN queues:
\* in particular the download pump has nothing left to write when it reads
\* again, whichever writes failed (main.go:896).
THEOREM TypeCorrect == Spec => []TypeOK
  BY Invariance, PTL DEF Inv

\* No pump ends unheard, whatever the capacity of eChan and however many pumps
\* fail at once.
THEOREM PumpsAreHeard == Spec => []FailureReachesWatcher
  BY Invariance, PTL DEF Inv

\* TUN_QUEUES=1 keeps the order of a flow, for any traffic.
THEOREM StrictOrder == Spec => OneQueueKeepsOrder
<1>1. Inv /\ [Next]_vars => [tunQueues = 1 => sent' >= sent]_vars
  <2> SUFFICES ASSUME Inv, Next, tunQueues = 1 PROVE sent' >= sent
    BY DEF vars
  <2>1. sent \in Nat /\ sent <= pkt[1] /\ pkt[1] \in Nat
    BY QueueFacts, PumpAssumption DEF PumpAssumption, Inv, TypeOK, SentInv
  <2>2. sent' = sent \/ \E q \in Queues : sent' = pkt[q]
    BY DEF Next, Down, DownReadFails, DownWrite, DownRead, Up, UpRead, UpReadFails,
       UpSend, UpIcmp, Enqueue, Watcher, WatcherStart, WatcherReceive, connCancel,
       CloseConn, CloseDevs, Tunnel, AnnounceUp, TunnelReturns, Probe, ConnLost, Cancel
  <2> QED
    BY <2>1, <2>2, QueueFacts DEF Inv
<1> QED
  BY <1>1, Invariance, PTL DEF Spec, OneQueueKeepsOrder

\* On a link that PMTUD has probed, a full packet of the derived MTU fits the
\* DATAGRAM budget.
LEMMA ProbedFits ==
    ASSUME TypeOK, conf = 0, wan >= 1291, packetSize = probedPacketSize(wan)
    PROVE  Carried
<1>1. wan \in Int
  BY PumpAssumption DEF PumpAssumption, TypeOK
<1> QED
  BY <1>1 DEF Carried, mtu, tunMTU, clientTunnelMTU, clientInitialPacketSize,
     probedPacketSize, datagramBudget, datagramOverhead, xdpNativeMaxMTU,
     outerOverhead, maxQUICPacket, ipUdpHeader, AtMost, AtLeast

\* No pump refuses a full packet of the derived MTU once PMTUD is through, for
\* every link of 1291 bytes or more, jumbo links included.
THEOREM ProbedPathCarries == Spec => RefusedOnlyUntilProbed
<1> DEFINE Good == conf = 0 /\ wan >= 1291 /\ packetSize = probedPacketSize(wan) =>
                      \A q \in Queues : up[q] = "send" => up'[q] # "icmp"
<1>1. Inv /\ [Next]_vars => [Good]_vars
  <2> SUFFICES ASSUME Inv, Next, conf = 0, wan >= 1291,
                      packetSize = probedPacketSize(wan),
                      NEW r \in Queues, up[r] = "send"
               PROVE  up'[r] # "icmp"
    BY DEF vars
  <2>1. Carried
    BY ProbedFits DEF Inv
  <2>2. CASE up' = up
    BY <2>2
  <2>3. ASSUME NEW q \in Queues, Up(q) PROVE up'[r] # "icmp"
    BY <2>1, <2>3 DEF Inv, TypeOK, Up, UpRead, UpReadFails, UpSend, UpIcmp
  <2>4. up' = up \/ \E q \in Queues : Up(q)
    BY DEF Next, Down, DownReadFails, DownWrite, DownRead, Enqueue, Watcher,
       WatcherStart, WatcherReceive, connCancel, CloseConn, CloseDevs, Tunnel,
       AnnounceUp, TunnelReturns, Probe, ConnLost, Cancel
  <2> QED
    BY <2>2, <2>3, <2>4
<1> QED
  BY <1>1, Invariance, PTL DEF Spec, RefusedOnlyUntilProbed

----------------------------------------------------------------------------
\* The safety part of the refinement: a session does what Session allows.
THEOREM SessionRefinement == Spec => S!SessionSafety
<1>1. Init => S!SessionInit
  BY DEF Init, S!SessionInit, Phase
<1>2. Inv /\ [Next]_vars => [S!SessionNext]_(S!sessionVars)
  <2> SUFFICES ASSUME Inv, [Next]_vars
               PROVE  S!SessionNext \/ UNCHANGED S!sessionVars
    OBVIOUS
  <2> USE DEF S!SessionNext, S!sessionVars, S!Fail, S!Close, S!Announce, S!Return,
          S!Quit, Phase
  <2>1. CASE UNCHANGED <<watcher, rc, ctx>>
    BY <2>1
  <2>2. CASE Watcher
    BY <2>2 DEF Watcher, WatcherStart, WatcherReceive, connCancel, CloseConn, CloseDevs
  <2>3. CASE AnnounceUp
    BY <2>3 DEF AnnounceUp
  <2>4. CASE TunnelReturns
    BY <2>4 DEF TunnelReturns, Inv, CtxInv, TypeOK
  <2>5. CASE Cancel
    BY <2>5 DEF Cancel
  <2>6. \/ UNCHANGED <<watcher, rc, ctx>>
        \/ Watcher \/ AnnounceUp \/ TunnelReturns \/ Cancel
    BY DEF vars, Next, Down, DownReadFails, DownWrite, DownRead, Up, UpRead,
       UpReadFails, UpSend, UpIcmp, Enqueue, Tunnel, Probe, ConnLost
  <2> QED
    BY <2>1, <2>2, <2>3, <2>4, <2>5, <2>6
<1> QED
  BY <1>1, <1>2, Invariance, PTL DEF Spec, S!SessionSafety
=============================================================================
