-------------------------------- MODULE Pump --------------------------------
(***************************************************************************)
(* One session from the inside: the goroutines of tunnel() (main.go) and   *)
(* the watcher that the reconnect loop starts beside it.                   *)
(*                                                                         *)
(*   down      reads packets from the connection and writes them to the    *)
(*             first queue of the TUN device;                              *)
(*   up[q]     reads packets from TUN queue q and sends them, and writes   *)
(*             back the ICMP message of a packet that was refused;         *)
(*   watcher   takes the first error from eChan, cancels the session and   *)
(*             closes the connection, then the queues;                     *)
(*   rc        the reconnect loop inside tunnel().                         *)
(*                                                                         *)
(* Errors go to eChan without blocking and are dropped when it is full.    *)
(* Resequencing is in Reseq, the observers are in Observers.  tunnelCount  *)
(* is 1, so flowHashSym (FlowHash) always picks the one connection.        *)
(***************************************************************************)
EXTENDS HostTuning

CONSTANTS
    TunQueues,    \* values of TUN_QUEUES, 0 when unset or malformed
    NumCPU,       \* the default for it, and part of the capacity of eChan
    WanMTUs,      \* MTUs of the link towards the server
    TunnelMTUs,   \* values of TUNNEL_MTU, 0 when unset
    MaxOut,       \* bound: packets the resequencer releases at once
    MaxPackets    \* bound: packets of the flow that is uploaded

ASSUME PumpAssumption ==
    /\ TunQueues \subseteq Nat
    /\ NumCPU \in Nat \ {0}
    /\ WanMTUs \subseteq Nat \ {0} /\ TunnelMTUs \subseteq Nat
    /\ MaxOut \in Nat \ {0} /\ MaxPackets \in Nat

VARIABLES
    tunQueues,  \* TUN_QUEUES
    wan, conf,  \* what the MTU is derived from: the link's, and TUNNEL_MTU
    packetSize, \* size of the connection's QUIC packets
    conn,       \* the connection: "open", "lost" (by the peer) or "closed"
    openDevs,   \* queues not closed yet
    sentToTun,  \* packets of the flow the kernel has put on a queue
    tun,        \* queue -> packets waiting, numbered in the order of the flow
    down,       \* label of the download pump: "read", "write", "done"
    left,       \* packets it still has to write
    up,         \* queue -> label: "read", "send", "icmp", "done"
    pkt,        \* queue -> the packet in the pump's buffer
    sent,       \* number of the packet sent last
    eChan,      \* errors in the channel
    watcher,    \* "start", "recv", "cancel", "closeConn", "closeDevs", "done"
    rc,         \* "announce", "wait", "returned"
    connCtx,    \* the session's context is cancelled
    ctx         \* the process's context is cancelled

sizeVars == <<tunQueues, wan, conf>>
kernelVars == <<sentToTun, tun>>
downVars == <<down, left>>
upVars == <<up, pkt, sent>>
ctlVars == <<watcher, rc, connCtx, ctx>>
vars == <<sizeVars, packetSize, conn, openDevs, kernelVars, downVars, upVars,
          eChan, ctlVars>>

\* Faulty variant: TUN_QUEUES is ignored.
QueuePerCPU == NumCPU

numQueues == IF tunQueues > 0 THEN tunQueues ELSE NumCPU

Queues == 1..numQueues
Capacity == NumCPU + 2

TypeOK ==
    /\ tunQueues \in TunQueues /\ wan \in WanMTUs /\ conf \in TunnelMTUs
    /\ packetSize \in {clientInitialPacketSize(wan), probedPacketSize(wan)}
    /\ conn \in {"open", "lost", "closed"}
    /\ openDevs \subseteq Queues
    /\ sentToTun \in 0..MaxPackets
    /\ tun \in [Queues -> SUBSET (1..MaxPackets)]
    /\ down \in {"read", "write", "done"} /\ left \in 0..MaxOut
    /\ down = "write" <=> left > 0
    /\ up \in [Queues -> {"read", "send", "icmp", "done"}]
    /\ pkt \in [Queues -> 0..MaxPackets]
    /\ sent \in 0..MaxPackets
    /\ eChan \in 0..Capacity
    /\ watcher \in {"start", "recv", "cancel", "closeConn", "closeDevs", "done"}
    /\ rc \in {"announce", "wait", "returned"}
    /\ connCtx \in BOOLEAN /\ ctx \in BOOLEAN

Init ==
    /\ tunQueues \in TunQueues /\ wan \in WanMTUs /\ conf \in TunnelMTUs
    /\ packetSize = clientInitialPacketSize(wan)
    /\ conn = "open" /\ openDevs = Queues
    /\ sentToTun = 0 /\ tun = [q \in Queues |-> {}]
    /\ down = "read" /\ left = 0
    /\ up = [q \in Queues |-> "read"] /\ pkt = [q \in Queues |-> 0]
    /\ sent = 0 /\ eChan = 0
    /\ watcher = "start" /\ rc = "announce"
    /\ connCtx = FALSE /\ ctx = FALSE

----------------------------------------------------------------------------
(* Sizes: every packet is as long as the MTU of the device allows. *)

mtu == tunMTU(wan, conf)

Carried == mtu <= datagramBudget(packetSize)

\* PMTUD, which the client leaves enabled, ends; a size on the way carries the
\* packets or does not, as one of the two ends.
Probe ==
    /\ conn = "open" /\ packetSize # probedPacketSize(wan)
    /\ packetSize' = probedPacketSize(wan)
    /\ UNCHANGED <<sizeVars, conn, openDevs, kernelVars, downVars, upVars,
                   eChan, ctlVars>>

----------------------------------------------------------------------------
(* eChan: select { case errChan <- err: default: } *)

\* Faulty variant: an unbuffered channel, for a watcher that is waiting.
ReportUnbuffered == eChan' = IF watcher = "recv" /\ eChan = 0 THEN 1 ELSE eChan

Report == eChan' = IF eChan < Capacity THEN eChan + 1 ELSE eChan

ReportIf(err) == IF err THEN Report ELSE UNCHANGED eChan

----------------------------------------------------------------------------
(* The download pump *)

\* ReadPacket returns a packet; n packets are now due for the device (one,
\* without the resequencer).
DownRead(n) ==
    /\ down = "read" /\ conn = "open"
    /\ left' = n
    /\ down' = IF n = 0 THEN "read" ELSE "write"
    /\ UNCHANGED <<sizeVars, packetSize, conn, openDevs, kernelVars, upVars,
                   eChan, ctlVars>>

\* Any error ends the pump, the first of a session included.
DownReadFails ==
    /\ down = "read"
    /\ Report
    /\ down' = "done"
    /\ UNCHANGED <<sizeVars, packetSize, conn, openDevs, kernelVars, left,
                   upVars, ctlVars>>

\* Faulty variant: a failed write abandons the packets after it.
DownWriteAbandons ==
    /\ down = "write"
    /\ \E err \in BOOLEAN :
           /\ (1 \notin openDevs => err) /\ ReportIf(err)
           /\ down' = IF err \/ left = 1 THEN "read" ELSE "write"
    /\ left' = left - 1
    /\ UNCHANGED <<sizeVars, packetSize, conn, openDevs, kernelVars, upVars,
                   ctlVars>>

\* The pump goes on after a failed write.
DownWrite ==
    /\ down = "write"
    /\ \E err \in BOOLEAN : (1 \notin openDevs => err) /\ ReportIf(err)
    /\ left' = left - 1
    /\ down' = IF left = 1 THEN "read" ELSE "write"
    /\ UNCHANGED <<sizeVars, packetSize, conn, openDevs, kernelVars, upVars,
                   ctlVars>>

----------------------------------------------------------------------------
(* The upload pumps *)

\* The kernel puts the next packet of the flow on a queue of its choice.
Enqueue(q) ==
    /\ sentToTun < MaxPackets /\ q \in openDevs
    /\ sentToTun' = sentToTun + 1
    /\ tun' = [tun EXCEPT ![q] = @ \cup {sentToTun + 1}]
    /\ UNCHANGED <<sizeVars, packetSize, conn, openDevs, downVars, upVars,
                   eChan, ctlVars>>

UpRead(q) ==
    /\ up[q] = "read" /\ q \in openDevs
    /\ \E first \in tun[q] :
           /\ \A p \in tun[q] : first <= p
           /\ pkt' = [pkt EXCEPT ![q] = first]
           /\ tun' = [tun EXCEPT ![q] = @ \ {first}]
    /\ up' = [up EXCEPT ![q] = "send"]
    /\ UNCHANGED <<sizeVars, packetSize, conn, openDevs, sentToTun, downVars,
                   sent, eChan, ctlVars>>

\* Any error ends the pump, the first of a session included.
UpReadFails(q) ==
    /\ up[q] = "read"
    /\ Report
    /\ up' = [up EXCEPT ![q] = "done"]
    /\ UNCHANGED <<sizeVars, packetSize, conn, openDevs, kernelVars, downVars,
                   pkt, sent, ctlVars>>

\* WritePacket sends the packet, fails, or refuses a packet that is too long
\* with an ICMP message.
UpSend(q) ==
    /\ up[q] = "send"
    /\ \/ /\ conn = "open" /\ Carried
          /\ sent' = pkt[q]
          /\ up' = [up EXCEPT ![q] = "read"]
          /\ UNCHANGED eChan
       \/ /\ conn = "open" /\ ~Carried
          /\ up' = [up EXCEPT ![q] = "icmp"]
          /\ UNCHANGED <<sent, eChan>>
       \/ /\ Report
          /\ up' = [up EXCEPT ![q] = "read"]
          /\ UNCHANGED sent
    /\ UNCHANGED <<sizeVars, packetSize, conn, openDevs, kernelVars, downVars,
                   pkt, ctlVars>>

UpIcmp(q) ==
    /\ up[q] = "icmp"
    /\ \E err \in BOOLEAN : (q \notin openDevs => err) /\ ReportIf(err)
    /\ up' = [up EXCEPT ![q] = "read"]
    /\ UNCHANGED <<sizeVars, packetSize, conn, openDevs, kernelVars, downVars,
                   pkt, sent, ctlVars>>

----------------------------------------------------------------------------
(* The watcher *)

WatcherStart ==
    /\ watcher = "start" /\ watcher' = "recv"
    /\ UNCHANGED <<sizeVars, packetSize, conn, openDevs, kernelVars, downVars,
                   upVars, eChan, rc, connCtx, ctx>>

WatcherReceive ==
    /\ watcher = "recv" /\ eChan > 0
    /\ eChan' = eChan - 1
    /\ watcher' = "cancel"
    /\ UNCHANGED <<sizeVars, packetSize, conn, openDevs, kernelVars, downVars,
                   upVars, rc, connCtx, ctx>>

\* Faulty variant: the session's context is not cancelled.
WatcherSkipsCancel ==
    /\ watcher = "cancel" /\ watcher' = "closeConn"
    /\ UNCHANGED <<sizeVars, packetSize, conn, openDevs, kernelVars, downVars,
                   upVars, eChan, rc, connCtx, ctx>>

connCancel ==
    /\ watcher = "cancel" /\ watcher' = "closeConn"
    /\ connCtx' = TRUE
    /\ UNCHANGED <<sizeVars, packetSize, conn, openDevs, kernelVars, downVars,
                   upVars, eChan, rc, ctx>>

CloseConn ==
    /\ watcher = "closeConn" /\ watcher' = "closeDevs"
    /\ conn' = "closed"
    /\ UNCHANGED <<sizeVars, packetSize, openDevs, kernelVars, downVars,
                   upVars, eChan, rc, connCtx, ctx>>

\* Faulty variant: only the first queue is closed.
CloseFirstDev ==
    /\ watcher = "closeDevs" /\ watcher' = "done"
    /\ openDevs' = openDevs \ {1}
    /\ UNCHANGED <<sizeVars, packetSize, conn, kernelVars, downVars, upVars,
                   eChan, rc, connCtx, ctx>>

\* One queue after the other.
CloseDevs ==
    /\ watcher = "closeDevs"
    /\ \/ /\ \E q \in openDevs : /\ \A r \in openDevs : q <= r
                                /\ openDevs' = openDevs \ {q}
          /\ UNCHANGED watcher
       \/ /\ openDevs = {}
          /\ watcher' = "done"
          /\ UNCHANGED openDevs
    /\ UNCHANGED <<sizeVars, packetSize, conn, kernelVars, downVars, upVars,
                   eChan, rc, connCtx, ctx>>

Watcher == WatcherStart \/ WatcherReceive \/ connCancel \/ CloseConn \/ CloseDevs

----------------------------------------------------------------------------
(* tunnel() itself, and the rest of the process *)

\* isRunningChan <- true, received by the event loop of main().
AnnounceUp ==
    /\ rc = "announce" /\ rc' = "wait"
    /\ UNCHANGED <<sizeVars, packetSize, conn, openDevs, kernelVars, downVars,
                   upVars, eChan, watcher, connCtx, ctx>>

TunnelReturns ==
    /\ rc = "wait" /\ (connCtx \/ ctx)
    /\ rc' = "returned"
    /\ UNCHANGED <<sizeVars, packetSize, conn, openDevs, kernelVars, downVars,
                   upVars, eChan, watcher, connCtx, ctx>>

ConnLost ==
    /\ conn = "open" /\ conn' = "lost"
    /\ UNCHANGED <<sizeVars, packetSize, openDevs, kernelVars, downVars,
                   upVars, eChan, ctlVars>>

Cancel ==
    /\ ~ctx /\ ctx' = TRUE
    /\ UNCHANGED <<sizeVars, packetSize, conn, openDevs, kernelVars, downVars,
                   upVars, eChan, watcher, rc, connCtx>>

----------------------------------------------------------------------------
Down == DownReadFails \/ DownWrite
Up(q) == UpRead(q) \/ UpReadFails(q) \/ UpSend(q) \/ UpIcmp(q)
Tunnel == AnnounceUp \/ TunnelReturns

Next ==
    \/ Down \/ (\E n \in 0..MaxOut : DownRead(n))
    \/ \E q \in Queues : Up(q) \/ Enqueue(q)
    \/ Watcher \/ Tunnel \/ Probe \/ ConnLost \/ Cancel

Spec == Init /\ [][Next]_vars

\* The queues there may be.
AllQueues == 1..NumCPU \cup UNION {1..n : n \in TunQueues}

\* What a pump does without anything having to fail: a read fails for sure
\* only when the connection or the queue is gone.
DownRuns == DownWrite \/ (conn # "open" /\ DownReadFails)
UpRuns(q) ==
    UpRead(q) \/ UpSend(q) \/ UpIcmp(q) \/ (q \notin openDevs /\ UpReadFails(q))

\* Goroutines that can run do run, until the context is cancelled and the
\* process ends.  Nothing is assumed of errors, of packets, of the peer, of
\* PMTUD or of signals.
FairSpec ==
    /\ Spec
    /\ WF_vars(~ctx /\ DownRuns) /\ WF_vars(~ctx /\ Watcher) /\ WF_vars(~ctx /\ Tunnel)
    /\ \A q \in AllQueues : WF_vars(~ctx /\ q \in Queues /\ UpRuns(q))

----------------------------------------------------------------------------
(* Safety *)

Returned == down = "done" \/ \E q \in Queues : up[q] = "done"

\* A pump never ends unheard: its error is in eChan, or the watcher has
\* already taken one, even when the session's first error is a read of an
\* open queue, when eChan is full of errors of pumps that go on, when the pump
\* fails before the watcher waits, or when several fail at once (main.go:471,
\* 880, 915).
FailureReachesWatcher ==
    Returned => eChan > 0 \/ watcher \notin {"start", "recv"}

\* "Set TUN_QUEUES=1 for strict per-flow ordering" (main.go:691): the packets
\* of a flow are sent in the order the kernel had them, whichever of them
\* are refused or fail.
OneQueueKeepsOrder == [][tunQueues = 1 => sent' >= sent]_vars

\* With TUNNEL_MTU unset, a full packet of the device is refused only until
\* PMTUD has raised the packet size: the bytes by which datagramOverhead falls
\* short of the DATAGRAM budget fit into the margin of outerOverhead, on every
\* link of 1291 bytes or more (main.go:268-270, 276, 300).
RefusedOnlyUntilProbed ==
    [][conf = 0 /\ wan >= 1291 /\ packetSize = probedPacketSize(wan) =>
           \A q \in Queues : up[q] = "send" => up'[q] # "icmp"]_vars

(* Liveness *)

\* A lost connection ends tunnel(), so that the client reconnects: nobody
\* waits for somebody who waits for him (main.go:473, 943).
LossEndsSession == conn = "lost" ~> (rc = "returned" \/ ctx)

\* After the first error every pump of the session ends, so that none is
\* left beside the next session's (main.go:477).
PumpsReturn ==
    watcher = "cancel" ~>
        (ctx \/ (down = "done" /\ \A q \in Queues : up[q] = "done"))

(* Refinement *)

Phase ==
    CASE watcher \in {"start", "recv", "cancel"} -> "live"
      [] watcher \in {"closeConn", "closeDevs"} -> "failed"
      [] watcher = "done" -> "closed"

S == INSTANCE Session WITH phase <- Phase, stage <- rc, quit <- ctx

\* The goroutines of a session implement what the reconnect loop relies on:
\* tunnel() returns after a failure or a signal, never before, and the
\* failed session is closed (main.go:472-486, 942-943).
ImplementsSession == S!SessionSpec
=============================================================================
