---------------------------- MODULE TuningProofs ----------------------------
(***************************************************************************)
(* Proofs about the pure parts: the MTU derived from a link, the kernel    *)
(* settings that Bootstrap raises, and the flow hash.                      *)
(***************************************************************************)
EXTENDS HostTuning, FlowHash, TLAPS

\* For every link, a full packet of the TUN device fits the buffer of the pumps,
\* so that none is truncated (deriveTunnelMTU).
THEOREM DeviceFitsBuffer ==
    ASSUME NEW wan \in Int
    PROVE  tunMTU(wan, 0) \in 576..pumpBuffer
  BY DEF tunMTU, clientTunnelMTU, clientInitialPacketSize, AtMost, AtLeast,
     datagramOverhead, pumpBuffer, xdpNativeMaxMTU, outerOverhead, maxQUICPacket

\* No link carries full packets of the TUN device from the first one on, as
\* the comments of deriveTunnelMTU have it: the budget for a DATAGRAM that
\* main.go:739-743 states is smaller.  It grows to what they need when PMTUD
\* finds all that the link carries, for exactly the links of 1291 bytes or more.
THEOREM BudgetNeedsProbing ==
    ASSUME NEW wan \in Int
    PROVE  /\ tunMTU(wan, 0) > datagramBudget(clientInitialPacketSize(wan))
           /\ tunMTU(wan, 0) <= datagramBudget(probedPacketSize(wan)) <=> wan >= 1291
  BY DEF tunMTU, clientTunnelMTU, clientInitialPacketSize, probedPacketSize,
     datagramBudget, datagramOverhead, xdpNativeMaxMTU, outerOverhead,
     maxQUICPacket, ipUdpHeader, AtMost, AtLeast

\* The QUIC packet with its headers fits the link, for exactly the links of
\* the MTU that IPv6 requires, 1280, or more: below it the floor is too high.
THEOREM OuterFits ==
    ASSUME NEW wan \in Int
    PROVE  clientInitialPacketSize(wan) + ipUdpHeader <= wan <=> wan >= 1280
  BY DEF clientInitialPacketSize, AtMost, AtLeast, ipUdpHeader,
     xdpNativeMaxMTU, outerOverhead, maxQUICPacket

\* A larger link never gets a smaller device.
THEOREM MtuMonotone ==
    ASSUME NEW small \in Int, NEW large \in Int, small <= large
    PROVE  tunMTU(small, 0) <= tunMTU(large, 0)
  BY DEF tunMTU, clientTunnelMTU, clientInitialPacketSize, AtMost, AtLeast,
     datagramOverhead, xdpNativeMaxMTU, outerOverhead, maxQUICPacket

\* "Raise only": a setting that could be read is never lowered, and raising it
\* again changes nothing more, so that Bootstrap may run at every attempt.
THEOREM RaiseOnly ==
    ASSUME NEW cur \in Nat, NEW target \in Nat,
           NEW new \in raiseSysctl(cur, TRUE, target)
    PROVE  /\ new >= cur
           /\ new # cur => raiseSysctl(new, TRUE, target) = {new}
  BY DEF raiseSysctl

\* The same for the maximum of a triple, whose minimum and default stay.
THEOREM RaiseOnlyMax ==
    ASSUME NEW t \in Nat \X Nat \X Nat, NEW target \in Nat,
           NEW new \in raiseSysctlTriple(t, target)
    PROVE  /\ new[1] = t[1] /\ new[2] = t[2] /\ new[3] >= t[3]
           /\ new # t => raiseSysctlTriple(new, target) = {new}
  BY DEF raiseSysctlTriple

----------------------------------------------------------------------------
(* The flow hash *)

LEMMA ReversedEnds ==
    ASSUME NEW p \in Packets
    PROVE  /\ SrcEnd(Reversed(p)) = DstEnd(p) /\ DstEnd(Reversed(p)) = SrcEnd(p)
           /\ Reversed(p).proto = p.proto /\ Reversed(p).kind = p.kind
  BY DEF Packets, Reversed, SrcEnd, DstEnd, HasPorts

\* Of two different ends exactly one is above the other.
LEMMA AboveTotal ==
    ASSUME NEW a \in Nat \X Nat, NEW b \in Nat \X Nat
    PROVE  (Above(a, b) <=> ~Above(b, a)) \/ a = b
  BY DEF Above

\* Both directions of a flow hash to the same value, and are sent through the
\* same tunnel, however many there are.
THEOREM Symmetric ==
    ASSUME NEW p \in Packets, NEW n \in Nat
    PROVE  /\ flowHashSym(Reversed(p)) = flowHashSym(p)
           /\ tunnelOf(Reversed(p), n) = tunnelOf(p, n)
<1>1. SrcEnd(p) \in Nat \X Nat /\ DstEnd(p) \in Nat \X Nat
  BY DEF Packets, SrcEnd, DstEnd
<1>2. Canonical(Reversed(p)) = Canonical(p)
  <2>1. CASE SrcEnd(p) = DstEnd(p)
    BY <2>1, ReversedEnds DEF Canonical
  <2>2. CASE SrcEnd(p) # DstEnd(p)
    <3>1. Above(SrcEnd(p), DstEnd(p)) <=> ~Above(DstEnd(p), SrcEnd(p))
      BY <1>1, <2>2, AboveTotal
    <3> QED
      BY <3>1, ReversedEnds DEF Canonical
  <2> QED
    BY <2>1, <2>2
<1>3. flowHashSym(Reversed(p)) = flowHashSym(p)
  BY <1>2, ReversedEnds DEF flowHashSym
<1> QED
  BY <1>3 DEF tunnelOf
=============================================================================
