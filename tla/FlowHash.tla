------------------------------ MODULE FlowHash ------------------------------
(***************************************************************************)
(* flowHashSym (main.go): the hash that pins a flow to a tunnel.  It is    *)
(* FNV-1a over the packet's addresses, ports and protocol in an order that *)
(* does not depend on the direction.                                       *)
(***************************************************************************)
EXTENDS Integers

CONSTANT Fnv(_)  \* FNV-1a over the bytes of a tuple

\* kind: an IPv4 header, or something else or shorter; transport: long enough
\* for the ports, or cut short.  Addresses are compared like the numbers they
\* encode.
Packets == [kind : {"ipv4", "other"}, proto : Nat, transport : {"ports", "short"},
            srcIP : Nat, dstIP : Nat, srcPort : Nat, dstPort : Nat]

Reversed(p) == [p EXCEPT !.srcIP = p.dstIP, !.dstIP = p.srcIP,
                         !.srcPort = p.dstPort, !.dstPort = p.srcPort]

\* The ports as the hash sees them: of TCP and UDP only.
HasPorts(p) == p.proto \in {6, 17} /\ p.transport = "ports"
SrcEnd(p) == <<p.srcIP, IF HasPorts(p) THEN p.srcPort ELSE 0>>
DstEnd(p) == <<p.dstIP, IF HasPorts(p) THEN p.dstPort ELSE 0>>

Above(a, b) == a[1] > b[1] \/ (a[1] = b[1] /\ a[2] > b[2])

\* What is hashed: the lower end, the higher end, the protocol.
Canonical(p) ==
    IF Above(SrcEnd(p), DstEnd(p)) THEN <<DstEnd(p), SrcEnd(p), p.proto>>
    ELSE <<SrcEnd(p), DstEnd(p), p.proto>>

flowHashSym(p) == IF p.kind = "ipv4" THEN Fnv(Canonical(p)) ELSE 0

\* The tunnel, among n, that the upload pump sends packet p to.
tunnelOf(p, n) == flowHashSym(p) % n
=============================================================================
