----------------------------- MODULE HostTuning -----------------------------
(***************************************************************************)
(* What main() and Bootstrap (main.go) derive from the host and write back *)
(* to it: the MTU of the TUN device and the size of QUIC packets, and the  *)
(* kernel settings that Bootstrap raises at every attempt.                 *)
(*                                                                         *)
(* Writes to /proc may fail and are never fatal: the operators for them    *)
(* give the set of values the setting may have afterwards.                 *)
(***************************************************************************)
EXTENDS Integers

xdpNativeMaxMTU  == 3506
outerOverhead    == 56
datagramOverhead == 28
maxQUICPacket    == 4000
udpBufTarget     == 7864320
innerTCPBufTarget == 33554432

\* The IPv4 and UDP headers around a QUIC packet.
ipUdpHeader == 28

\* The buffer of every packet pump.
pumpBuffer == 4096

AtMost(x, bound) == IF x > bound THEN bound ELSE x
AtLeast(x, bound) == IF x < bound THEN bound ELSE x

----------------------------------------------------------------------------
(* deriveTunnelMTU.  wan is the MTU of the link towards the server, 1500   *)
(* when the route or the link cannot be looked up.                         *)

clientInitialPacketSize(wan) ==
    AtLeast(AtMost(AtMost(wan, xdpNativeMaxMTU) - outerOverhead, maxQUICPacket), 1252)

\* Faulty variant: the overhead of a DATAGRAM frame is not subtracted.
TunnelMTUWithoutOverhead(wan) == AtLeast(clientInitialPacketSize(wan), 576)

clientTunnelMTU(wan) ==
    AtLeast(clientInitialPacketSize(wan) - datagramOverhead, 576)

\* What quic-go and connect-ip carry in packets of a size: a DATAGRAM without
\* the type byte, the longest connection ID and the AEAD tag, and in it two
\* one-byte varints (main.go:739-743).
datagramBudget(size) == size - (1 + 20 + 16) - (1 + 1)

\* The size of packets once PMTUD has found all that the link carries.
probedPacketSize(wan) ==
    AtLeast(AtMost(wan - ipUdpHeader, maxQUICPacket), clientInitialPacketSize(wan))

\* The MTU of the TUN device; conf is TUNNEL_MTU, 0 when unset or malformed.
tunMTU(wan, conf) == IF conf >= 576 THEN conf ELSE clientTunnelMTU(wan)

----------------------------------------------------------------------------
(* Bootstrap's settings.  cur is what the setting is; what cannot be read  *)
(* is taken for 0.                                                         *)

raiseSysctl(cur, readable, target) ==
    IF readable /\ cur >= target THEN {cur} ELSE {cur, target}

tuneUDPBuffers(rmem, wmem, readable) ==
    raiseSysctl(rmem, readable, udpBufTarget)
        \X raiseSysctl(wmem, readable, udpBufTarget)

\* t is the triple <<min, default, max>> of tcp_wmem or tcp_rmem.
raiseSysctlTriple(t, targetMax) ==
    IF t[3] >= targetMax THEN {t} ELSE {t, <<t[1], t[2], targetMax>>}

tuneInnerTCPBuffers(rmem, wmem) ==
    raiseSysctlTriple(rmem, innerTCPBufTarget)
        \X raiseSysctlTriple(wmem, innerTCPBufTarget)

\* The host's congestion control; conf is TCP_CC in lower case, "" when
\* unset, available the algorithms the kernel offers once the module is loaded.
enforceBBR(conf, available, cur) ==
    LET cc == IF conf = "" THEN "bbr" ELSE conf
    IN  IF conf \notin {"off", "none"} /\ cc \in available THEN {cur, cc} ELSE {cur}
=============================================================================
