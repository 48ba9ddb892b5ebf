-------------------------------- MODULE Reseq --------------------------------
(***************************************************************************)
(* The download path with FORWARD_RESEQ on: the reader goroutine of        *)
(* tunnel() (main.go) reads a packet, pushes it through a ForwardReseq     *)
(* (utility/reseq.go), flushes the flows that have been idle for maxAge,   *)
(* and writes what came out to the TUN device.                             *)
(*                                                                         *)
(* A segment is the stretch of a TCP stream it carries, [pos, len], with   *)
(* pos counted from the start of the stream; the code sees pos modulo 2^32 *)
(* only (Seq).  Every iteration of drain, skipGap and FlushExpired is a    *)
(* step; no other goroutine touches the state, so the steps of one packet  *)
(* run in sequence.                                                        *)
(*                                                                         *)
(* The environment is a TCP sender whose receive window is far below 2^31: *)
(* any of Segs from Late before to SendWindow after the first byte not yet *)
(* delivered may arrive at any time, in any order, any number of times.    *)
(***************************************************************************)
EXTENDS Integers, FiniteSets

CONSTANTS
    Flows,       \* flow keys
    SeqSpace,    \* 2^32
    Window,      \* 128
    Segs,        \* segments the sender may cut its stream into
    SendWindow,  \* how far the sender may be ahead of the receiver
    Late,        \* how old a delayed duplicate may be
    MaxPos       \* bound: the length of a stream

Segments == [pos : Nat, len : Nat \ {0}]

\* First position after segment s.
End(s) == s.pos + s.len

ASSUME ReseqAssumption ==
    /\ SeqSpace \in Nat \ {0} /\ SeqSpace % 2 = 0
    /\ Window \in Nat \ {0}
    /\ SendWindow \in Nat \ {0} /\ Late \in Nat /\ MaxPos \in Nat
    /\ Segs \subseteq Segments /\ \A s \in Segs : End(s) <= MaxPos + 1

\* All that is under way is within half of the sequence numbers.
ASSUME WindowAssumption == 2 * SendWindow + Late <= SeqSpace \div 2

\* The sender cuts its stream in one way: what it repeats, it repeats whole.
NoOverlap == \A s, t \in Segs : s = t \/ End(s) <= t.pos \/ End(t) <= s.pos

VARIABLES
    flows,  \* keys present in r.flows
    high,   \* flow -> the position whose sequence number is nextSeq
    buf,    \* flow -> segments held
    idle,   \* flow -> lastSeen is at least maxAge ago
    pc,     \* "read", "drain", "skip", "flush" or "reap"
    cur,    \* the flow of the packet, or of the entry FlushExpired is at
    out,    \* what the last step wrote to the TUN: {} or one [flow, seg]
    got     \* flow -> positions the kernel has received

vars == <<flows, high, buf, idle, pc, cur, out, got>>

NoFlow == "none"

Positions == 0..MaxPos

TypeOK ==
    /\ flows \subseteq Flows
    /\ high \in [Flows -> Nat]
    /\ buf \in [Flows -> SUBSET Segments]
    /\ idle \in [Flows -> BOOLEAN]
    /\ pc \in {"read", "drain", "skip", "flush", "reap"}
    /\ cur \in Flows \cup {NoFlow}
    /\ pc \in {"drain", "skip", "reap"} => cur \in flows
    /\ out \in SUBSET [flow : Flows, seg : Segments]
    /\ got \in [Flows -> SUBSET Nat]

----------------------------------------------------------------------------
(* Sequence numbers: uint32, compared by the sign of int32(a - b).         *)

Seq(pos) == pos % SeqSpace
nextSeq(f) == Seq(high[f])

\* Faulty variant: sequence numbers compared as plain unsigned integers.
UnsignedDist(a, b) == a - b

Dist(a, b) ==
    LET d == (a - b) % SeqSpace
    IN  IF d < SeqSpace \div 2 THEN d ELSE d - SeqSpace

----------------------------------------------------------------------------
(* The kernel's end of the stream. *)

\* First position not received yet.
Ack(f) == CHOOSE p \in 0..(MaxPos + 1) :
              /\ p \notin got[f]
              /\ \A q \in 0..(p - 1) : q \in got[f]

Write(f, s) ==
    /\ out' = {[flow |-> f, seg |-> s]}
    /\ got' = [got EXCEPT ![f] = @ \cup s.pos..(End(s) - 1)]

WriteNothing == out' = {} /\ UNCHANGED got

----------------------------------------------------------------------------
Init ==
    /\ flows = {}
    /\ high = [f \in Flows |-> 0]
    /\ buf = [f \in Flows |-> {}]
    /\ idle = [f \in Flows |-> FALSE]
    /\ pc = "read" /\ cur = NoFlow
    /\ out = {}
    /\ got = [f \in Flows |-> {}]

\* Where drain and skipGap return to: FlushExpired works on idle flows only,
\* Push on a flow it has just seen.
Return(f) == pc' = IF idle[f] THEN "reap" ELSE "flush"

(* Push, for a segment that parseTCP accepts. *)

PushExpected(f, s) ==
    /\ Write(f, s)
    /\ high' = [high EXCEPT ![f] = End(s)]
    /\ pc' = "drain"
    /\ UNCHANGED buf

PushPast(f, s) ==
    /\ Write(f, s)
    /\ pc' = "flush"
    /\ UNCHANGED <<buf, high>>

Held(f, s) == \E e \in buf[f] : Seq(e.pos) = Seq(s.pos)

\* Faulty variant: the window test lets one segment more in.
PushFutureOneMore(f, s) ==
    /\ buf' = [buf EXCEPT ![f] = IF Held(f, s) THEN @ ELSE @ \cup {s}]
    /\ pc' = IF Cardinality(buf'[f]) > Window + 1 THEN "skip" ELSE "flush"
    /\ WriteNothing
    /\ UNCHANGED high

PushFuture(f, s) ==
    /\ buf' = [buf EXCEPT ![f] = IF Held(f, s) THEN @ ELSE @ \cup {s}]
    /\ pc' = IF Cardinality(buf'[f]) > Window THEN "skip" ELSE "flush"
    /\ WriteNothing
    /\ UNCHANGED high

\* The flow is created and primed by its first segment.
Push(f, s) ==
    /\ pc = "read"
    /\ flows' = flows \cup {f}
    /\ idle' = [idle EXCEPT ![f] = FALSE]
    /\ cur' = f
    /\ IF f \notin flows THEN PushExpected(f, s)
       ELSE LET d == Dist(Seq(s.pos), nextSeq(f))
            IN  \/ d = 0 /\ PushExpected(f, s)
                \/ d < 0 /\ PushPast(f, s)
                \/ d > 0 /\ PushFuture(f, s)

\* Push, for anything else (UDP, ICMP, a pure ACK): written through.
PassThrough ==
    /\ pc = "read"
    /\ pc' = "flush" /\ cur' = NoFlow
    /\ WriteNothing
    /\ UNCHANGED <<flows, high, buf, idle>>

----------------------------------------------------------------------------
(* drain and skipGap *)

\* Faulty variant: drain emits one segment and stops.
DrainOne(f) ==
    \E e \in buf[f] :
        /\ Seq(e.pos) = nextSeq(f)
        /\ Write(f, e)
        /\ buf' = [buf EXCEPT ![f] = @ \ {e}]
        /\ high' = [high EXCEPT ![f] = End(e)]
        /\ Return(f)

DrainStep(f) ==
    \E e \in buf[f] :
        /\ Seq(e.pos) = nextSeq(f)
        /\ Write(f, e)
        /\ buf' = [buf EXCEPT ![f] = @ \ {e}]
        /\ high' = [high EXCEPT ![f] = End(e)]
        /\ UNCHANGED pc

drain ==
    /\ pc = "drain"
    /\ \/ DrainStep(cur)
       \/ /\ \A e \in buf[cur] : Seq(e.pos) # nextSeq(cur)
          /\ Return(cur)
          /\ WriteNothing
          /\ UNCHANGED <<buf, high>>
    /\ UNCHANGED <<flows, idle, cur>>

Future(f) == {e \in buf[f] : Dist(Seq(e.pos), nextSeq(f)) > 0}

\* e is the oldest future segment; entries at or before nextSeq are swept.
SkipTo(f, e) ==
    /\ e \in Future(f)
    /\ \A x \in Future(f) :
           Dist(Seq(e.pos), nextSeq(f)) <= Dist(Seq(x.pos), nextSeq(f))
    /\ buf' = [buf EXCEPT ![f] = Future(f) \ {e}]

skipGap ==
    /\ pc = "skip"
    /\ \/ \E e \in buf[cur] :
              /\ SkipTo(cur, e)
              /\ Write(cur, e)
              /\ high' = [high EXCEPT ![cur] = End(e)]
              /\ pc' = "drain"
       \/ /\ Future(cur) = {}
          /\ buf' = [buf EXCEPT ![cur] = {}]
          /\ Return(cur)
          /\ WriteNothing
          /\ UNCHANGED high
    /\ UNCHANGED <<flows, idle, cur>>

----------------------------------------------------------------------------
(* FlushExpired: range over the flows, in the order of a Go map.           *)

FlushNext ==
    /\ pc = "flush"
    /\ \/ \E f \in flows :
              /\ idle[f]
              /\ cur' = f /\ pc' = "reap"
       \/ /\ \A f \in flows : ~idle[f]
          /\ cur' = NoFlow /\ pc' = "read"
    /\ WriteNothing
    /\ UNCHANGED <<flows, high, buf, idle>>

\* Faulty variant: an idle flow is deleted with what it holds.
ReapWithoutFlush ==
    /\ pc = "reap"
    /\ flows' = flows \ {cur}
    /\ buf' = [buf EXCEPT ![cur] = {}]
    /\ idle' = [idle EXCEPT ![cur] = FALSE]
    /\ high' = [high EXCEPT ![cur] = 0]
    /\ pc' = "flush"
    /\ WriteNothing
    /\ UNCHANGED cur

\* Faulty variant: the flow is deleted before what it holds is flushed.
ReapBeforeFlush ==
    /\ pc = "reap"
    /\ flows' = flows \ {cur}
    /\ pc' = IF buf[cur] # {} THEN "skip" ELSE "flush"
    /\ WriteNothing
    /\ UNCHANGED <<buf, cur, high, idle>>

\* Faulty variant: a flow that still holds something is passed over.
ReapEmptyOnly ==
    /\ pc = "reap"
    /\ \/ /\ buf[cur] # {}
          /\ pc' = "read"
          /\ UNCHANGED <<flows, high, idle>>
       \/ /\ buf[cur] = {}
          /\ flows' = flows \ {cur}
          /\ idle' = [idle EXCEPT ![cur] = FALSE]
          /\ high' = [high EXCEPT ![cur] = 0]
          /\ pc' = "flush"
    /\ WriteNothing
    /\ UNCHANGED <<buf, cur>>

FlushExpired ==
    /\ pc = "reap"
    /\ \/ /\ buf[cur] # {}
          /\ pc' = "skip"
          /\ UNCHANGED <<flows, high, idle>>
       \/ /\ buf[cur] = {}
          /\ flows' = flows \ {cur}
          /\ idle' = [idle EXCEPT ![cur] = FALSE]
          /\ high' = [high EXCEPT ![cur] = 0]
          /\ pc' = "flush"
    /\ WriteNothing
    /\ UNCHANGED <<buf, cur>>

----------------------------------------------------------------------------
(* Time and the network *)

\* maxAge passes without a segment of flow f.
GoIdle(f) ==
    /\ pc = "read" /\ f \in flows /\ ~idle[f]
    /\ idle' = [idle EXCEPT ![f] = TRUE]
    /\ WriteNothing
    /\ UNCHANGED <<flows, high, buf, pc, cur>>

Arrive(f, s) ==
    /\ pc = "read"
    /\ s.pos >= Ack(f) - Late
    /\ End(s) <= Ack(f) + SendWindow
    /\ Push(f, s)

\* The sender repeats the first segment that was not acknowledged.
Retransmit(f) == \E s \in Segs : s.pos = Ack(f) /\ Arrive(f, s)

Reader == drain \/ skipGap \/ FlushNext \/ FlushExpired

Next ==
    \/ \E f \in Flows, s \in Segs : Arrive(f, s)
    \/ PassThrough
    \/ Reader
    \/ \E f \in Flows : GoIdle(f)

Spec == Init /\ [][Next]_vars

\* The reader runs; a TCP sender repeats what was not acknowledged, after
\* pauses (its timeout) much longer than maxAge.
FairSpec ==
    /\ Spec
    /\ WF_vars(Reader)
    /\ \A f \in Flows : SF_vars(GoIdle(f)) /\ SF_vars(Retransmit(f))

\* Moreover other packets keep arriving during the pauses of a flow.
BusySpec ==
    /\ FairSpec
    /\ \A f \in Flows : SF_vars(idle[f] /\ PassThrough)

----------------------------------------------------------------------------
(* Why the safety properties hold: the parts of the inductive invariant.   *)

\* Only the flow whose gap is about to be skipped exceeds the window.
BoundInv ==
    \A f \in Flows :
        /\ IsFiniteSet(buf[f])
        /\ Cardinality(buf[f]) <= Window + 1
        /\ ~(pc = "skip" /\ cur = f) => Cardinality(buf[f]) <= Window

\* Only the flow that is being drained holds the segment it waits for.
ReadyInv ==
    \A f \in Flows :
        /\ f \notin flows => buf[f] = {}
        /\ \/ pc = "drain" /\ cur = f
           \/ \A e \in buf[f] : Seq(e.pos) # nextSeq(f)

Inv == TypeOK /\ BoundInv /\ ReadyInv

----------------------------------------------------------------------------
(* Safety *)

\* Between packets a flow holds at most Window segments, whatever arrives:
\* Push skips a gap as soon as the window overflows (reseq.go:146).
BufferBounded == pc = "read" => \A f \in Flows : Cardinality(buf[f]) <= Window

\* Between packets nothing is held that could be delivered: no held segment
\* is the one nextSeq asks for (drain, reseq.go:176).
NothingReadyHeld ==
    pc = "read" => \A f \in flows : \A e \in buf[f] : Seq(e.pos) # nextSeq(f)

\* As long as a flow is known its watermark never moves back, across the
\* wrap of the sequence numbers, late duplicates and skipped gaps, when
\* segments do not overlap (reseq.go:131, 207).
WatermarkAdvances ==
    [][\A f \in flows \cap flows' : high'[f] >= high[f]]_vars

\* A segment leaves the buffer only by being written to the TUN: neither
\* skipGap's sweep nor the reaping of an idle flow loses one, when segments
\* do not overlap (reseq.go:156, 188).
HeldReachesTun ==
    [][\A f \in Flows : \A e \in buf[f] \ buf'[f] :
           [flow |-> f, seg |-> e] \in out']_vars

(* Liveness *)

\* Every position of every stream is eventually delivered to the kernel.
StreamAdvances ==
    \A f \in Flows, n \in Positions : (Ack(f) = n) ~> (Ack(f) > n)

(* What the repository says and the code does not do *)

\* "A genuinely missing segment is gap-skipped once the per-flow window fills
\* or the flow goes idle past maxAge, so a real loss never stalls delivery"
\* (reseq.go:69).
LossNeverStalls == StreamAdvances

\* "This stage reorders by the inner TCP sequence number per flow, so the
\* kernel sees the stream in order" (reseq.go:62): what is released from the
\* buffer is never behind the watermark.  True when segments do not overlap.
ReleasedInOrder ==
    [][\A f \in Flows : \A e \in buf[f] \ buf'[f] :
           [flow |-> f, seg |-> e] \in out' => e.pos >= high[f]]_vars

==============================================================================
