---------------------------- MODULE ReseqProofs ----------------------------
(***************************************************************************)
(* Proofs about Reseq, for any flows, window, width of the sequence        *)
(* numbers and lengths of segments, overlapping ones included.             *)
(***************************************************************************)
EXTENDS Reseq, NumberLemmas, FiniteSetTheorems, TLAPS

\* A sequence number is at distance 0 of itself.
LEMMA DistSelf == ASSUME NEW a \in Int PROVE Dist(a, a) = 0
<1>1. 0 % SeqSpace = 0
  BY ReseqAssumption, SMT DEF ReseqAssumption
<1>2. 0 < SeqSpace \div 2
  BY ReseqAssumption, SMT DEF ReseqAssumption
<1>3. a - a = 0
  OBVIOUS
<1> QED
  BY <1>1, <1>2, <1>3 DEF Dist

LEMMA InitInv == Init => Inv
  BY FS_EmptySet, ReseqAssumption
  DEF Init, Inv, TypeOK, BoundInv, ReadyInv, ReseqAssumption

\* Adding a segment, or removing some, changes the number held as expected.
LEMMA AddOne ==
    ASSUME NEW S, IsFiniteSet(S), NEW x
    PROVE  /\ IsFiniteSet(S \cup {x})
           /\ Cardinality(S \cup {x}) <= Cardinality(S) + 1
           /\ Cardinality(S \cup {x}) \in Nat
<1>1. Cardinality(S) \in Nat
  BY FS_CardinalityType
<1>2. CASE x \in S
  <2>1. S \cup {x} = S
    BY <1>2
  <2>2. IsFiniteSet(S \cup {x}) /\ Cardinality(S \cup {x}) = Cardinality(S)
    BY <2>1, Zenon
  <2> QED
    BY <1>1, <2>2
<1>3. CASE x \notin S
  BY <1>1, <1>3, FS_AddElement
<1> QED
  BY <1>2, <1>3

LEMMA Shrink ==
    ASSUME NEW S, IsFiniteSet(S), NEW T \in SUBSET S
    PROVE  /\ IsFiniteSet(T)
           /\ Cardinality(T) \in Nat /\ Cardinality(S) \in Nat
           /\ Cardinality(T) <= Cardinality(S)
           /\ T # S => Cardinality(T) < Cardinality(S)
  BY FS_Subset, FS_CardinalityType

----------------------------------------------------------------------------
(* One lemma for each way a step can change the state. *)

\* A segment that arrives is well typed.
LEMMA ArrivingSegment ==
    ASSUME NEW s \in Segs
    PROVE  s \in Segments
  BY ReseqAssumption DEF ReseqAssumption

\* Writing a segment to the TUN keeps the types of out and got.
LEMMA WriteType ==
    ASSUME TypeOK, NEW f \in Flows, NEW s \in Segments, Write(f, s)
    PROVE  /\ out' \in SUBSET [flow : Flows, seg : Segments]
           /\ got' \in [Flows -> SUBSET Nat]
           /\ End(s) \in Nat
<1>1. End(s) \in Nat /\ s.pos..(End(s) - 1) \subseteq Nat
  BY DEF Segments, End
<1> QED
  BY <1>1 DEF TypeOK, Write

LEMMA PushInv ==
    ASSUME Inv, NEW f \in Flows, NEW s \in Segments, Push(f, s)
    PROVE  Inv'
<1> USE DEF Inv
<1>0. /\ pc = "read" /\ flows' = flows \cup {f} /\ cur' = f
      /\ idle' = [idle EXCEPT ![f] = FALSE]
  BY DEF Push
<1>1. CASE PushExpected(f, s)
  <2>1. TypeOK'
    BY <1>0, <1>1, WriteType DEF PushExpected, TypeOK
  <2>2. BoundInv'
    BY <1>0, <1>1 DEF PushExpected, BoundInv
  <2>3. ReadyInv'
    BY <1>0, <1>1 DEF PushExpected, ReadyInv, nextSeq, TypeOK
  <2> QED
    BY <2>1, <2>2, <2>3
<1>2. CASE PushPast(f, s) /\ f \in flows
  <2>1. TypeOK'
    BY <1>0, <1>2, WriteType DEF PushPast, TypeOK
  <2>2. BoundInv'
    BY <1>0, <1>2 DEF PushPast, BoundInv
  <2>3. ReadyInv'
    BY <1>0, <1>2 DEF PushPast, ReadyInv, nextSeq, TypeOK
  <2> QED
    BY <2>1, <2>2, <2>3
<1>3. CASE /\ PushFuture(f, s) /\ f \in flows
           /\ Dist(Seq(s.pos), nextSeq(f)) > 0
  <2>0. buf'[f] = buf[f] \/ buf'[f] = buf[f] \cup {s}
    BY <1>3 DEF PushFuture, TypeOK
  <2>1. TypeOK'
    BY <1>0, <1>3 DEF PushFuture, TypeOK, WriteNothing
  <2>2. BoundInv'
    <3>1. /\ IsFiniteSet(buf'[f]) /\ Cardinality(buf'[f]) <= Window + 1
          /\ Cardinality(buf'[f]) \in Nat
      <4>1. /\ IsFiniteSet(buf[f]) /\ Cardinality(buf[f]) <= Window
            /\ Cardinality(buf[f]) \in Nat
        BY <1>0, FS_CardinalityType DEF BoundInv
      <4>2. CASE buf'[f] = buf[f]
        BY <4>1, <4>2, ReseqAssumption DEF ReseqAssumption
      <4>3. CASE buf'[f] = buf[f] \cup {s}
        <5>1. /\ IsFiniteSet(buf[f] \cup {s})
              /\ Cardinality(buf[f] \cup {s}) <= Cardinality(buf[f]) + 1
              /\ Cardinality(buf[f] \cup {s}) \in Nat
          BY <4>1, AddOne
        <5> QED
          BY <4>1, <4>3, <5>1, ReseqAssumption DEF ReseqAssumption
      <4> QED
        BY <2>0, <4>2, <4>3
    <3>2. ~(pc' = "skip" /\ cur' = f) => Cardinality(buf'[f]) <= Window
      BY <1>0, <1>3, <3>1, ReseqAssumption DEF PushFuture, ReseqAssumption
    <3>3. \A g \in Flows \ {f} : buf'[g] = buf[g]
      BY <1>3 DEF PushFuture, TypeOK
    <3> QED
      BY <1>0, <3>1, <3>2, <3>3 DEF BoundInv
  <2>3. ReadyInv'
    <3>1. Seq(s.pos) # nextSeq(f)
      <4>1. nextSeq(f) \in Int
        BY ReseqAssumption DEF TypeOK, nextSeq, Seq, ReseqAssumption
      <4> QED
        BY <1>3, <4>1, DistSelf
    <3>2. \A g \in Flows : nextSeq(g)' = nextSeq(g)
      BY <1>3 DEF PushFuture, nextSeq
    <3>3. \A g \in Flows \ {f} : buf'[g] = buf[g]
      BY <1>3 DEF PushFuture, TypeOK
    <3> QED
      BY <1>0, <2>0, <3>1, <3>2, <3>3 DEF ReadyInv
  <2> QED
    BY <2>1, <2>2, <2>3
<1> QED
  BY <1>1, <1>2, <1>3 DEF Push

LEMMA DrainInv == ASSUME Inv, drain PROVE Inv'
<1> USE DEF Inv
<1>0. /\ pc = "drain" /\ cur \in flows /\ cur \in Flows
      /\ UNCHANGED <<flows, idle, cur>>
  BY DEF drain, TypeOK
<1>1. CASE DrainStep(cur)
  <2> PICK e \in buf[cur] :
         /\ Write(cur, e)
         /\ buf' = [buf EXCEPT ![cur] = @ \ {e}]
         /\ high' = [high EXCEPT ![cur] = End(e)]
         /\ UNCHANGED pc
    BY <1>1 DEF DrainStep
  <2>0. e \in Segments
    BY <1>0 DEF TypeOK
  <2>1. TypeOK'
    BY <1>0, <2>0, WriteType DEF TypeOK
  <2>2. BoundInv'
    <3>1. buf'[cur] = buf[cur] \ {e} /\ \A g \in Flows \ {cur} : buf'[g] = buf[g]
      BY <1>0 DEF TypeOK
    <3>2. /\ IsFiniteSet(buf'[cur]) /\ Cardinality(buf'[cur]) <= Window
          /\ Cardinality(buf'[cur]) \in Nat
      BY <1>0, <3>1, Shrink, ReseqAssumption DEF BoundInv, ReseqAssumption
    <3> SUFFICES ASSUME NEW g \in Flows
                 PROVE  /\ IsFiniteSet(buf'[g]) /\ Cardinality(buf'[g]) <= Window + 1
                        /\ Cardinality(buf'[g]) <= Window
      BY DEF BoundInv
    <3>3. CASE g = cur
      BY <3>2, <3>3, ReseqAssumption DEF ReseqAssumption
    <3>4. CASE g # cur
      BY <1>0, <3>1, <3>4 DEF BoundInv
    <3> QED
      BY <3>3, <3>4
  <2>3. ReadyInv'
    BY <1>0 DEF ReadyInv, nextSeq, TypeOK
  <2> QED
    BY <2>1, <2>2, <2>3
<1>2. CASE /\ \A e \in buf[cur] : Seq(e.pos) # nextSeq(cur)
           /\ Return(cur) /\ WriteNothing /\ UNCHANGED <<buf, high>>
  <2>1. TypeOK'
    BY <1>0, <1>2 DEF TypeOK, Return, WriteNothing
  <2>2. BoundInv'
    BY <1>0, <1>2 DEF BoundInv, Return
  <2>3. ReadyInv'
    BY <1>0, <1>2 DEF ReadyInv, nextSeq
  <2> QED
    BY <2>1, <2>2, <2>3
<1> QED
  BY <1>1, <1>2 DEF drain

LEMMA SkipInv == ASSUME Inv, skipGap PROVE Inv'
<1> USE DEF Inv
<1>0. /\ pc = "skip" /\ cur \in flows /\ cur \in Flows
      /\ UNCHANGED <<flows, idle, cur>>
  BY DEF skipGap, TypeOK
<1>1. ASSUME NEW e \in buf[cur], SkipTo(cur, e), Write(cur, e),
             high' = [high EXCEPT ![cur] = End(e)], pc' = "drain"
      PROVE  Inv'
  <2>0. e \in Segments
    BY <1>0 DEF TypeOK
  <2>1. /\ buf'[cur] = Future(cur) \ {e} /\ buf'[cur] \subseteq buf[cur]
        /\ buf'[cur] # buf[cur]
        /\ \A g \in Flows \ {cur} : buf'[g] = buf[g]
    BY <1>0, <1>1 DEF SkipTo, Future, TypeOK
  <2>2. TypeOK'
    BY <1>0, <1>1, <2>0, WriteType DEF TypeOK, SkipTo, Future
  <2>3. BoundInv'
    <3>1. /\ IsFiniteSet(buf'[cur]) /\ Cardinality(buf'[cur]) <= Window
          /\ Cardinality(buf'[cur]) \in Nat
      BY <1>0, <2>1, Shrink, ReseqAssumption DEF BoundInv, ReseqAssumption
    <3> SUFFICES ASSUME NEW g \in Flows
                 PROVE  /\ IsFiniteSet(buf'[g]) /\ Cardinality(buf'[g]) <= Window + 1
                        /\ Cardinality(buf'[g]) <= Window
      BY DEF BoundInv
    <3>3. CASE g = cur
      BY <3>1, <3>3, ReseqAssumption DEF ReseqAssumption
    <3>4. CASE g # cur
      BY <1>0, <2>1, <3>4 DEF BoundInv
    <3> QED
      BY <3>3, <3>4
  <2>4. ReadyInv'
    BY <1>0, <1>1, <2>1 DEF ReadyInv, nextSeq, TypeOK
  <2> QED
    BY <2>2, <2>3, <2>4
<1>2. CASE /\ Future(cur) = {} /\ buf' = [buf EXCEPT ![cur] = {}]
           /\ Return(cur) /\ WriteNothing /\ UNCHANGED high
  <2>1. TypeOK'
    BY <1>0, <1>2 DEF TypeOK, Return, WriteNothing
  <2>2. BoundInv'
    BY <1>0, <1>2, FS_EmptySet, ReseqAssumption
    DEF BoundInv, Return, TypeOK, ReseqAssumption
  <2>3. ReadyInv'
    BY <1>0, <1>2 DEF ReadyInv, nextSeq, TypeOK
  <2> QED
    BY <2>1, <2>2, <2>3
<1> QED
  BY <1>1, <1>2 DEF skipGap

LEMMA FlushInv == ASSUME Inv, FlushNext \/ FlushExpired PROVE Inv'
<1> USE DEF Inv
<1>1. CASE FlushNext
  <2>1. TypeOK'
    BY <1>1 DEF FlushNext, TypeOK, WriteNothing
  <2>2. BoundInv'
    BY <1>1 DEF FlushNext, BoundInv
  <2>3. ReadyInv'
    BY <1>1 DEF FlushNext, ReadyInv, nextSeq
  <2> QED
    BY <2>1, <2>2, <2>3
<1>2. CASE FlushExpired
  <2>0. cur \in flows /\ cur \in Flows
    BY <1>2 DEF FlushExpired, TypeOK
  <2>1. TypeOK'
    <3>1. CASE buf[cur] # {}
      BY <1>2, <2>0, <3>1 DEF FlushExpired, TypeOK, WriteNothing
    <3>2. CASE buf[cur] = {}
      <4>1. high' \in [Flows -> Nat] /\ idle' \in [Flows -> BOOLEAN]
        <5>1. /\ high' = [high EXCEPT ![cur] = 0]
              /\ idle' = [idle EXCEPT ![cur] = FALSE]
          BY <1>2, <3>2 DEF FlushExpired
        <5>2. high' \in [Flows -> Nat]
          BY <5>1 DEF TypeOK
        <5>3. idle' \in [Flows -> BOOLEAN]
          BY <5>1 DEF TypeOK
        <5> QED
          BY <5>2, <5>3
      <4>2. /\ flows' \subseteq Flows /\ pc' = "flush"
            /\ UNCHANGED <<buf, cur, got>> /\ out' = {}
        BY <1>2, <3>2 DEF FlushExpired, TypeOK, WriteNothing
      <4> QED
        BY <4>1, <4>2 DEF TypeOK
    <3> QED
      BY <3>1, <3>2
  <2>2. BoundInv'
    BY <1>2, ReseqAssumption DEF FlushExpired, BoundInv, ReseqAssumption
  <2>3. ReadyInv'
    BY <1>2 DEF FlushExpired, ReadyInv, nextSeq, TypeOK
  <2> QED
    BY <2>1, <2>2, <2>3
<1> QED
  BY <1>1, <1>2

LEMMA NextInv == Inv /\ [Next]_vars => Inv'
<1> SUFFICES ASSUME Inv, [Next]_vars PROVE Inv'
  OBVIOUS
<1>1. ASSUME NEW f \in Flows, NEW s \in Segs, Arrive(f, s)
      PROVE  Inv'
  BY <1>1, ArrivingSegment, PushInv DEF Arrive
<1>2. CASE PassThrough
  BY <1>2 DEF PassThrough, Inv, TypeOK, BoundInv, ReadyInv, nextSeq, WriteNothing
<1>3. CASE Reader
  BY <1>3, DrainInv, SkipInv, FlushInv DEF Reader
<1>4. ASSUME NEW f \in Flows, GoIdle(f) PROVE Inv'
  BY <1>4 DEF GoIdle, Inv, TypeOK, BoundInv, ReadyInv, nextSeq, WriteNothing
<1>5. CASE UNCHANGED vars
  BY <1>5 DEF vars, Inv, TypeOK, BoundInv, ReadyInv, nextSeq
<1> QED
  BY <1>1, <1>2, <1>3, <1>4, <1>5 DEF Next

\* The inductive invariant of the resequencer holds in every reachable state.
THEOREM Invariance == Spec => []Inv
  BY InitInv, NextInv, PTL DEF Spec

\* Every variable of the resequencer keeps its type: what a flow holds are
\* segments of its own, and its watermark is a number it sent.
THEOREM TypeCorrect == Spec => []TypeOK
<1>1. Inv => TypeOK
  BY DEF Inv
<1> QED
  BY <1>1, Invariance, PTL

\* A flow never holds more than Window segments between packets, whatever the
\* network delivers (Push, reseq.go:146).
THEOREM BuffersAreBounded == Spec => []BufferBounded
<1>1. Inv => BufferBounded
  BY DEF Inv, BoundInv, BufferBounded
<1> QED
  BY <1>1, Invariance, PTL

\* Nothing deliverable is held between packets, whatever the network delivers
\* (drain, reseq.go:176).
THEOREM ReadyIsDelivered == Spec => []NothingReadyHeld
<1>1. Inv => NothingReadyHeld
  BY DEF Inv, ReadyInv, TypeOK, NothingReadyHeld
<1> QED
  BY <1>1, Invariance, PTL

----------------------------------------------------------------------------
(* Order, for a sender that cuts its stream in one way.  The code compares *)
(* numbers modulo 2^32; the proof keeps everything a flow has under way    *)
(* within half of them, so that they compare as the positions do.          *)

Half == SeqSpace \div 2

Missing(f) == 0..(MaxPos + 1) \ got[f]

\* Nothing the kernel has, or the flow holds, is a sender's window after a
\* position the kernel lacks.
SpanInv ==
    \A f \in Flows :
        /\ got[f] \subseteq Positions /\ buf[f] \subseteq Segs
        /\ \A p \in Missing(f) :
               /\ \A g \in got[f] : g < p + SendWindow
               /\ \A e \in buf[f] : End(e) <= p + SendWindow

\* The kernel has the position before the watermark and nothing far after it,
\* and no flow holds a segment it has passed.
HighInv ==
    \A f \in flows :
        /\ high[f] - 1 \in got[f]
        /\ \A g \in got[f] : g < high[f] + Late + SendWindow
        /\ \A e \in buf[f] : e.pos >= high[f]

OrderInv == NoOverlap /\ Inv /\ SpanInv /\ HighInv

LEMMA Sizes ==
    /\ SeqSpace = 2 * Half /\ Half \in Nat \ {0}
    /\ SendWindow \in Nat \ {0} /\ Late \in Nat /\ MaxPos \in Nat
    /\ 2 * SendWindow + Late <= Half
<1>1. /\ SeqSpace \in Nat \ {0} /\ SeqSpace % 2 = 0
      /\ SendWindow \in Nat \ {0} /\ Late \in Nat /\ MaxPos \in Nat
      /\ 2 * SendWindow + Late <= Half
  BY ReseqAssumption, WindowAssumption DEF ReseqAssumption, WindowAssumption, Half
<1>2. SeqSpace = 2 * Half /\ Half \in Int
  BY <1>1 DEF Half
<1> QED
  BY <1>1, <1>2

\* Sequence numbers compare as positions do.
LEMMA DistIs ==
    ASSUME NEW a \in Int, NEW b \in Int, -Half <= a - b, a - b < Half
    PROVE  Dist(Seq(a), Seq(b)) = a - b
<1>1. ((a % SeqSpace) - (b % SeqSpace)) % SeqSpace =
         IF a - b >= 0 THEN a - b ELSE a - b + SeqSpace
  BY Sizes, SerialDifference
<1> HIDE DEF Half
<1> QED
  BY <1>1, Sizes DEF Dist, Seq, Half

\* There is a first position the kernel lacks.
LEMMA AckIs ==
    ASSUME SpanInv, NEW f \in Flows
    PROVE  /\ Ack(f) \in Nat /\ Ack(f) \in Missing(f)
           /\ \A q \in 0..(Ack(f) - 1) : q \in got[f]
<1>1. Missing(f) \in SUBSET Nat /\ Missing(f) # {}
  <2>1. MaxPos + 1 \in 0..(MaxPos + 1) /\ MaxPos + 1 \notin Positions
    BY Sizes DEF Positions
  <2> QED
    BY <2>1, Sizes DEF SpanInv, Missing
<1>2. PICK x \in Missing(f) : \A y \in Missing(f) : x <= y
  BY <1>1, LeastNat
<1>3. \A q \in 0..(x - 1) : q \in got[f]
  <2> SUFFICES ASSUME NEW q \in 0..(x - 1), q \notin got[f] PROVE FALSE
    OBVIOUS
  <2>1. x \in Nat /\ x <= MaxPos + 1
    BY Sizes DEF Missing
  <2>2. q \in Missing(f) /\ q < x
    BY <2>1, Sizes DEF Missing
  <2> QED
    BY <1>2, <2>1, <2>2
<1>4. \E p \in 0..(MaxPos + 1) : p \notin got[f] /\ \A q \in 0..(p - 1) : q \in got[f]
  BY <1>3 DEF Missing
<1>5. /\ Ack(f) \in 0..(MaxPos + 1) /\ Ack(f) \notin got[f]
      /\ \A q \in 0..(Ack(f) - 1) : q \in got[f]
  BY <1>4 DEF Ack
<1> QED
  BY <1>5, Sizes DEF Missing

\* Every position the kernel lacks is at or after the first one.
LEMMA AckFirst ==
    ASSUME SpanInv, NEW f \in Flows, NEW p \in Missing(f)
    PROVE  p \in Nat /\ Ack(f) <= p
<1>1. p \in Nat /\ p \notin got[f]
  BY Sizes DEF Missing
<1> QED
  BY <1>1, AckIs

\* The watermark is close to the first position the kernel lacks.
LEMMA AckNear ==
    ASSUME OrderInv, NEW f \in flows
    PROVE  /\ f \in Flows /\ high[f] \in Nat /\ Ack(f) \in Nat /\ Ack(f) \in Missing(f)
           /\ high[f] <= Ack(f) + SendWindow
           /\ Ack(f) <= high[f] + Late + SendWindow
<1>1. f \in Flows /\ high[f] \in Nat
  BY DEF OrderInv, Inv, TypeOK
<1>2. Ack(f) \in Nat /\ Ack(f) \in Missing(f) /\ \A q \in 0..(Ack(f) - 1) : q \in got[f]
  BY <1>1, AckIs DEF OrderInv
<1>3. high[f] - 1 < Ack(f) + SendWindow
  BY <1>1, <1>2 DEF OrderInv, SpanInv, HighInv
<1>4. Ack(f) <= high[f] + Late + SendWindow
  <2>1. CASE Ack(f) = 0
    BY <1>1, <2>1, Sizes
  <2>2. CASE Ack(f) # 0
    <3>1. Ack(f) - 1 \in got[f]
      BY <1>2, <2>2
    <3>2. Ack(f) - 1 < high[f] + Late + SendWindow
      BY <3>1 DEF OrderInv, HighInv
    <3> QED
      BY <1>1, <1>2, <3>2, Sizes
  <2> QED
    BY <2>1, <2>2
<1> QED
  BY <1>1, <1>2, <1>3, <1>4, Sizes

\* A segment the sender may send now is close to the watermark.
LEMMA SentNear ==
    ASSUME OrderInv, NEW f \in flows, NEW s \in Segments,
           s.pos >= Ack(f) - Late, End(s) <= Ack(f) + SendWindow
    PROVE  /\ Dist(Seq(s.pos), nextSeq(f)) = s.pos - high[f]
           /\ End(s) <= s.pos + Late + SendWindow
<1>1. s.pos \in Nat /\ End(s) \in Nat /\ s.pos < End(s)
  BY DEF Segments, End
<1>2. /\ high[f] \in Nat /\ Ack(f) \in Nat
      /\ high[f] <= Ack(f) + SendWindow /\ Ack(f) <= high[f] + Late + SendWindow
  BY AckNear
<1>3. -Half <= s.pos - high[f] /\ s.pos - high[f] < Half
  BY <1>1, <1>2, Sizes
<1>4. Dist(Seq(s.pos), nextSeq(f)) = s.pos - high[f]
  BY <1>1, <1>2, <1>3, DistIs DEF nextSeq
<1> QED
  BY <1>1, <1>2, <1>4, Sizes

\* So is a segment a flow holds; it is the one the flow waits for exactly when
\* their numbers are the same.
LEMMA HeldNear ==
    ASSUME OrderInv, NEW f \in flows, NEW e \in buf[f]
    PROVE  /\ e \in Segs /\ e \in Segments
           /\ e.pos \in Nat /\ high[f] \in Nat /\ e.pos >= high[f]
           /\ Dist(Seq(e.pos), nextSeq(f)) = e.pos - high[f]
           /\ Seq(e.pos) = nextSeq(f) => e.pos = high[f]
<1>1. /\ f \in Flows /\ high[f] \in Nat /\ Ack(f) \in Nat /\ Ack(f) \in Missing(f)
      /\ Ack(f) <= high[f] + Late + SendWindow
  BY AckNear
<1>2. e \in Segs /\ e \in Segments /\ e.pos >= high[f] /\ End(e) <= Ack(f) + SendWindow
  BY <1>1, ArrivingSegment DEF OrderInv, SpanInv, HighInv
<1>3. e.pos \in Nat /\ End(e) \in Nat /\ e.pos < End(e)
  BY <1>2 DEF Segments, End
<1>4. -Half <= e.pos - high[f] /\ e.pos - high[f] < Half
  BY <1>1, <1>2, <1>3, Sizes
<1>5. Dist(Seq(e.pos), nextSeq(f)) = e.pos - high[f]
  BY <1>1, <1>3, <1>4, DistIs DEF nextSeq
<1>6. Seq(e.pos) = nextSeq(f) => Dist(Seq(e.pos), nextSeq(f)) = 0
  BY <1>1, <1>3, DistSelf, ReseqAssumption DEF Seq, nextSeq, ReseqAssumption
<1> QED
  BY <1>1, <1>2, <1>3, <1>5, <1>6

----------------------------------------------------------------------------
(* What a step does to the two invariants. *)

\* Writing a segment that was within the window keeps SpanInv.
LEMMA WriteSpan ==
    ASSUME OrderInv, NEW f \in Flows, NEW s \in Segs, Write(f, s),
           \A p \in Missing(f) : End(s) <= p + SendWindow,
           \A g \in Flows : buf'[g] \subseteq buf[g]
    PROVE  SpanInv'
<1>1. s.pos \in Nat /\ End(s) \in Nat /\ s.pos < End(s) /\ End(s) <= MaxPos + 1
  BY ReseqAssumption DEF ReseqAssumption, Segments, End
<1>2. got \in [Flows -> SUBSET Nat]
  BY DEF OrderInv, Inv, TypeOK
<1>3. /\ got'[f] = got[f] \cup s.pos..(End(s) - 1)
      /\ \A g \in Flows : g # f => got'[g] = got[g]
  BY <1>2 DEF Write
<1>4. got'[f] \subseteq Positions
  BY <1>1, <1>3, Sizes DEF OrderInv, SpanInv, Positions
<1>5. ASSUME NEW p \in Missing(f)'
      PROVE  /\ \A g \in got'[f] : g < p + SendWindow
             /\ \A e \in buf'[f] : End(e) <= p + SendWindow
  <2>1. p \in Missing(f) /\ p \in Nat
    BY <1>3, Sizes DEF Missing
  <2>2. \A g \in s.pos..(End(s) - 1) : g < p + SendWindow
    <3>1. End(s) <= p + SendWindow
      BY <2>1
    <3> QED
      BY <1>1, <2>1, <3>1, Sizes
  <2> QED
    BY <1>3, <2>1, <2>2 DEF OrderInv, SpanInv
<1>6. ASSUME NEW g \in Flows, g # f
      PROVE  got'[g] = got[g] /\ Missing(g)' = Missing(g)
  BY <1>3, <1>6 DEF Missing
<1> QED
  BY <1>3, <1>4, <1>5, <1>6 DEF OrderInv, SpanInv

\* So does a step that writes nothing and holds nothing more.
LEMMA QuietSpan ==
    ASSUME OrderInv, UNCHANGED got, \A g \in Flows : buf'[g] \subseteq buf[g]
    PROVE  SpanInv'
<1>1. \A f \in Flows : Missing(f)' = Missing(f)
  BY DEF Missing
<1> QED
  BY <1>1 DEF OrderInv, SpanInv

\* The watermark moves to the end of a segment at or after it, which is
\* written, and only segments after that one stay.
LEMMA AdvanceHigh ==
    ASSUME OrderInv, NEW f \in flows, NEW s \in Segments, Write(f, s),
           s.pos >= high[f], high' = [high EXCEPT ![f] = End(s)], flows' = flows,
           \A e \in buf'[f] : e \in buf[f] /\ e.pos >= End(s),
           \A g \in Flows \ {f} : buf'[g] = buf[g]
    PROVE  HighInv' /\ high'[f] = End(s) /\ End(s) > high[f]
<1>1. /\ f \in Flows /\ high \in [Flows -> Nat] /\ got \in [Flows -> SUBSET Nat]
      /\ flows \subseteq Flows
  BY DEF OrderInv, Inv, TypeOK
<1>2. s.pos \in Nat /\ End(s) \in Nat /\ s.pos < End(s) /\ high[f] \in Nat
  BY <1>1 DEF Segments, End
<1>3. /\ got'[f] = got[f] \cup s.pos..(End(s) - 1) /\ high'[f] = End(s)
      /\ \A g \in Flows : g # f => got'[g] = got[g] /\ high'[g] = high[g]
  BY <1>1 DEF Write
<1>4. high'[f] - 1 \in got'[f]
  BY <1>2, <1>3
<1>5. \A g \in got'[f] : g < high'[f] + Late + SendWindow
  <2>1. \A g \in got[f] : g \in Nat /\ g < high[f] + Late + SendWindow
    BY <1>1 DEF OrderInv, HighInv
  <2> QED
    BY <1>2, <1>3, <2>1, Sizes
<1>6. ASSUME NEW g \in flows, g # f
      PROVE  /\ high'[g] - 1 \in got'[g]
             /\ \A p \in got'[g] : p < high'[g] + Late + SendWindow
             /\ \A e \in buf'[g] : e.pos >= high'[g]
  BY <1>1, <1>3, <1>6 DEF OrderInv, HighInv
<1>7. End(s) > high[f]
  BY <1>2
<1> QED
  BY <1>3, <1>4, <1>5, <1>6, <1>7 DEF HighInv

\* Of two segments, the one that does not start earlier starts after the other.
LEMMA Apart ==
    ASSUME NoOverlap, NEW s \in Segs, NEW t \in Segs, s # t, t.pos >= s.pos
    PROVE  t.pos >= End(s)
<1>1. s \in Segments /\ t \in Segments
  BY ArrivingSegment
<1>2. End(s) <= t.pos \/ End(t) <= s.pos
  BY DEF NoOverlap
<1> QED
  BY <1>1, <1>2 DEF Segments, End

LEMMA ArriveOrder ==
    ASSUME OrderInv, NEW f \in Flows, NEW s \in Segs, Arrive(f, s)
    PROVE  /\ SpanInv' /\ HighInv'
           /\ f \in flows => high'[f] >= high[f]
           /\ \A g \in Flows : buf[g] \subseteq buf'[g]
           /\ \A g \in flows \ {f} : high'[g] = high[g]
<1>1. /\ s \in Segments /\ pc = "read" /\ flows' = flows \cup {f} /\ flows \subseteq Flows
      /\ s.pos >= Ack(f) - Late /\ End(s) <= Ack(f) + SendWindow /\ Push(f, s)
  BY ArrivingSegment DEF Arrive, Push, OrderInv, Inv, TypeOK
<1>2. /\ high \in [Flows -> Nat] /\ buf \in [Flows -> SUBSET Segments]
      /\ got \in [Flows -> SUBSET Nat]
  BY DEF OrderInv, Inv, TypeOK
<1>3. s.pos \in Nat /\ End(s) \in Nat /\ s.pos < End(s) /\ high[f] \in Nat
  BY <1>1, <1>2 DEF Segments, End
<1>4. \A p \in Missing(f) : End(s) <= p + SendWindow
  <2> SUFFICES ASSUME NEW p \in Missing(f) PROVE End(s) <= p + SendWindow
    OBVIOUS
  <2>1. p \in Nat /\ Ack(f) <= p /\ Ack(f) \in Nat
    BY AckFirst, AckIs DEF OrderInv
  <2> QED
    BY <1>1, <1>3, <2>1, Sizes
<1>5. f \in flows => Dist(Seq(s.pos), nextSeq(f)) = s.pos - high[f]
  BY <1>1, SentNear
<1>6. CASE f \notin flows
  <2>1. Write(f, s) /\ high' = [high EXCEPT ![f] = End(s)] /\ UNCHANGED buf
    BY <1>1, <1>6 DEF Push, PushExpected
  <2>2. SpanInv'
    BY <1>4, <2>1, WriteSpan
  <2>3. /\ got'[f] = got[f] \cup s.pos..(End(s) - 1) /\ high'[f] = End(s)
        /\ \A g \in flows : g # f /\ got'[g] = got[g] /\ high'[g] = high[g]
    BY <1>1, <1>2, <1>6, <2>1 DEF Write
  <2>4. \A g \in got'[f] : g < high'[f] + Late + SendWindow
    <3>1. Ack(f) \in Nat /\ \A g \in got[f] : g \in Nat /\ g < Ack(f) + SendWindow
      BY <1>2, AckIs DEF OrderInv, SpanInv
    <3> QED
      BY <1>1, <1>3, <2>3, <3>1, Sizes
  <2>5. buf'[f] = {} /\ high'[f] - 1 \in got'[f]
    BY <1>3, <1>6, <2>1, <2>3 DEF OrderInv, Inv, ReadyInv
  <2>6. HighInv'
    BY <1>1, <2>1, <2>3, <2>4, <2>5 DEF OrderInv, HighInv
  <2> QED
    BY <1>6, <2>1, <2>2, <2>3, <2>6
<1>7. CASE f \in flows /\ s.pos = high[f]
  <2>1. Write(f, s) /\ high' = [high EXCEPT ![f] = End(s)] /\ UNCHANGED buf
    BY <1>1, <1>3, <1>5, <1>7 DEF Push, PushExpected
  <2>2. SpanInv'
    BY <1>4, <2>1, WriteSpan
  <2>3. ASSUME NEW e \in buf[f] PROVE e.pos >= End(s)
    <3>1. e \in Segs /\ e.pos >= s.pos
      BY <1>7, HeldNear
    <3>2. e # s
      BY <1>1, <1>7 DEF OrderInv, Inv, ReadyInv, nextSeq
    <3> QED
      BY <3>1, <3>2, Apart DEF OrderInv
  <2>4. flows' = flows
    BY <1>1, <1>7
  <2>5. HighInv' /\ high'[f] = End(s) /\ End(s) > high[f]
    <3>1. /\ s.pos >= high[f]
          /\ \A e \in buf'[f] : e \in buf[f] /\ e.pos >= End(s)
          /\ \A g \in Flows \ {f} : buf'[g] = buf[g]
      BY <1>3, <1>7, <2>1, <2>3
    <3> QED
      BY <1>1, <1>7, <2>1, <2>4, <3>1, AdvanceHigh
  <2>6. \A g \in flows \ {f} : high'[g] = high[g]
    BY <1>1, <1>2, <2>1
  <2> QED
    BY <1>3, <2>1, <2>2, <2>5, <2>6
<1>8. CASE f \in flows /\ s.pos < high[f]
  <2>1. Write(f, s) /\ UNCHANGED <<buf, high>> /\ flows' = flows
    BY <1>1, <1>3, <1>5, <1>8 DEF Push, PushPast
  <2>2. SpanInv'
    BY <1>4, <2>1, WriteSpan
  <2>3. /\ got'[f] = got[f] \cup s.pos..(End(s) - 1)
        /\ \A g \in Flows : g # f => got'[g] = got[g]
    BY <1>2, <2>1 DEF Write
  <2>4. End(s) <= s.pos + Late + SendWindow
    BY <1>1, <1>8, SentNear
  <2>5. \A g \in got'[f] : g < high[f] + Late + SendWindow
    <3>1. \A g \in got[f] : g \in Nat /\ g < high[f] + Late + SendWindow
      BY <1>2, <1>8 DEF OrderInv, HighInv
    <3> QED
      BY <1>3, <1>8, <2>3, <2>4, <3>1, Sizes
  <2>6. HighInv'
    BY <1>1, <1>8, <2>1, <2>3, <2>5 DEF OrderInv, HighInv
  <2> QED
    BY <1>2, <1>3, <2>1, <2>2, <2>6
<1>9. CASE f \in flows /\ s.pos > high[f]
  <2>1. PushFuture(f, s) /\ flows' = flows
    BY <1>1, <1>3, <1>5, <1>9 DEF Push
  <2>2. /\ UNCHANGED <<got, high>>
        /\ buf[f] \subseteq buf'[f] /\ buf'[f] \subseteq buf[f] \cup {s}
        /\ \A g \in Flows : g # f => buf'[g] = buf[g]
    BY <1>2, <2>1 DEF PushFuture, WriteNothing
  <2>3. \A g \in Flows : Missing(g)' = Missing(g)
    BY <2>2 DEF Missing
  <2>4. SpanInv'
    BY <1>4, <2>2, <2>3 DEF OrderInv, SpanInv
  <2>5. HighInv'
    BY <1>1, <1>3, <1>9, <2>1, <2>2 DEF OrderInv, HighInv
  <2> QED
    BY <1>3, <2>2, <2>4, <2>5
<1> QED
  BY <1>3, <1>6, <1>7, <1>8, <1>9

LEMMA DrainOrder ==
    ASSUME OrderInv, drain
    PROVE  /\ SpanInv' /\ HighInv'
           /\ \A f \in flows : high'[f] >= high[f]
           /\ \A f \in Flows : \A e \in buf[f] \ buf'[f] :
                 [flow |-> f, seg |-> e] \in out' /\ e.pos >= high[f]
<1>1. /\ pc = "drain" /\ cur \in flows /\ cur \in Flows /\ flows' = flows
      /\ flows \subseteq Flows /\ high \in [Flows -> Nat]
      /\ buf \in [Flows -> SUBSET Segments]
  BY DEF drain, OrderInv, Inv, TypeOK
<1>2. CASE DrainStep(cur)
  <2>1. PICK e \in buf[cur] :
           /\ Seq(e.pos) = nextSeq(cur) /\ Write(cur, e)
           /\ buf' = [buf EXCEPT ![cur] = @ \ {e}]
           /\ high' = [high EXCEPT ![cur] = End(e)]
    BY <1>2 DEF DrainStep
  <2>2. e \in Segs /\ e \in Segments /\ e.pos = high[cur] /\ high[cur] \in Nat
    BY <1>1, <2>1, HeldNear
  <2>3. /\ buf'[cur] = buf[cur] \ {e}
        /\ \A g \in Flows : g # cur => buf'[g] = buf[g]
    BY <1>1, <2>1
  <2>4. \A p \in Missing(cur) : End(e) <= p + SendWindow
    BY <1>1 DEF OrderInv, SpanInv
  <2>5. SpanInv'
    BY <1>1, <2>1, <2>2, <2>3, <2>4, WriteSpan
  <2>6. \A x \in buf'[cur] : x \in buf[cur] /\ x.pos >= End(e)
    <3> SUFFICES ASSUME NEW x \in buf[cur], x # e PROVE x.pos >= End(e)
      BY <2>3
    <3>1. x \in Segs /\ x.pos >= e.pos
      BY <1>1, <2>2, HeldNear
    <3> QED
      BY <2>2, <3>1, Apart DEF OrderInv
  <2>7. HighInv' /\ high'[cur] = End(e) /\ End(e) > high[cur]
    <3>1. e.pos >= high[cur] /\ \A g \in Flows \ {cur} : buf'[g] = buf[g]
      BY <2>2, <2>3
    <3> QED
      BY <1>1, <2>1, <2>2, <2>6, <3>1, AdvanceHigh
  <2>8. \A f \in flows : high'[f] >= high[f]
    <3>1. End(e) \in Nat
      BY <2>2 DEF Segments, End
    <3> QED
      BY <1>1, <2>1, <2>2, <2>7, <3>1
  <2>9. [flow |-> cur, seg |-> e] \in out'
    BY <2>1 DEF Write
  <2> QED
    BY <2>2, <2>3, <2>5, <2>7, <2>8, <2>9
<1>3. CASE WriteNothing /\ UNCHANGED <<buf, high>>
  <2>1. SpanInv'
    BY <1>3, QuietSpan DEF WriteNothing
  <2>2. HighInv'
    BY <1>1, <1>3 DEF OrderInv, HighInv, WriteNothing
  <2> QED
    BY <1>1, <1>3, <2>1, <2>2
<1> QED
  BY <1>2, <1>3 DEF drain

\* skipGap sweeps nothing: every segment held is a future one.
LEMMA AllFuture ==
    ASSUME OrderInv, pc = "skip", NEW f \in flows
    PROVE  Future(f) = buf[f]
<1> SUFFICES ASSUME NEW e \in buf[f] PROVE Dist(Seq(e.pos), nextSeq(f)) > 0
  BY DEF Future
<1>1. /\ e.pos \in Nat /\ high[f] \in Nat /\ e.pos >= high[f]
      /\ Dist(Seq(e.pos), nextSeq(f)) = e.pos - high[f]
  BY HeldNear
<1>2. Seq(e.pos) # nextSeq(f)
  BY DEF OrderInv, Inv, TypeOK, ReadyInv
<1>3. e.pos # high[f]
  BY <1>2 DEF nextSeq
<1> QED
  BY <1>1, <1>3

LEMMA SkipOrder ==
    ASSUME OrderInv, skipGap
    PROVE  /\ SpanInv' /\ HighInv'
           /\ \A f \in flows : high'[f] >= high[f]
           /\ \A f \in Flows : \A e \in buf[f] \ buf'[f] :
                 [flow |-> f, seg |-> e] \in out' /\ e.pos >= high[f]
<1>1. /\ pc = "skip" /\ cur \in flows /\ cur \in Flows /\ flows' = flows
      /\ flows \subseteq Flows /\ high \in [Flows -> Nat]
      /\ buf \in [Flows -> SUBSET Segments]
  BY DEF skipGap, OrderInv, Inv, TypeOK
<1>2. Future(cur) = buf[cur]
  BY <1>1, AllFuture
<1>3. ASSUME NEW e \in buf[cur], SkipTo(cur, e), Write(cur, e),
             high' = [high EXCEPT ![cur] = End(e)]
      PROVE  /\ SpanInv' /\ HighInv'
             /\ \A f \in flows : high'[f] >= high[f]
             /\ \A f \in Flows : \A x \in buf[f] \ buf'[f] :
                   [flow |-> f, seg |-> x] \in out' /\ x.pos >= high[f]
  <2>1. /\ e \in Segs /\ e \in Segments /\ e.pos \in Nat /\ e.pos >= high[cur]
        /\ high[cur] \in Nat /\ Dist(Seq(e.pos), nextSeq(cur)) = e.pos - high[cur]
    BY <1>1, <1>3, HeldNear
  <2>2. /\ buf'[cur] = buf[cur] \ {e}
        /\ \A g \in Flows : g # cur => buf'[g] = buf[g]
    BY <1>1, <1>2, <1>3 DEF SkipTo
  <2>3. \A p \in Missing(cur) : End(e) <= p + SendWindow
    BY <1>1, <1>3 DEF OrderInv, SpanInv
  <2>4. SpanInv'
    BY <1>1, <1>3, <2>1, <2>2, <2>3, WriteSpan
  <2>5. \A x \in buf'[cur] : x \in buf[cur] /\ x.pos >= End(e)
    <3> SUFFICES ASSUME NEW x \in buf[cur], x # e PROVE x.pos >= End(e)
      BY <2>2
    <3>1. /\ x \in Segs /\ x.pos \in Nat
          /\ Dist(Seq(x.pos), nextSeq(cur)) = x.pos - high[cur]
      BY <1>1, HeldNear
    <3>2. Dist(Seq(e.pos), nextSeq(cur)) <= Dist(Seq(x.pos), nextSeq(cur))
      BY <1>2, <1>3 DEF SkipTo
    <3>3. x.pos >= e.pos
      BY <2>1, <3>1, <3>2
    <3> QED
      BY <2>1, <3>1, <3>3, Apart DEF OrderInv
  <2>6. HighInv' /\ high'[cur] = End(e) /\ End(e) > high[cur]
    <3>1. \A g \in Flows \ {cur} : buf'[g] = buf[g]
      BY <2>2
    <3> QED
      BY <1>1, <1>3, <2>1, <2>5, <3>1, AdvanceHigh
  <2>7. \A f \in flows : high'[f] >= high[f]
    <3>1. End(e) \in Nat
      BY <2>1 DEF Segments, End
    <3> QED
      BY <1>1, <1>3, <2>1, <2>6, <3>1
  <2>8. [flow |-> cur, seg |-> e] \in out'
    BY <1>3 DEF Write
  <2> QED
    BY <2>1, <2>2, <2>4, <2>6, <2>7, <2>8
<1>4. CASE /\ Future(cur) = {} /\ buf' = [buf EXCEPT ![cur] = {}]
           /\ WriteNothing /\ UNCHANGED high
  <2>1. buf' = buf
    BY <1>1, <1>2, <1>4
  <2>2. SpanInv'
    BY <1>4, <2>1, QuietSpan DEF WriteNothing
  <2>3. HighInv'
    BY <1>1, <1>4, <2>1 DEF OrderInv, HighInv, WriteNothing
  <2> QED
    BY <1>1, <1>4, <2>1, <2>2, <2>3
<1> QED
  BY <1>3, <1>4 DEF skipGap

\* The other steps hold, write and pass nothing; only a reaped flow forgets
\* its watermark.
LEMMA OtherOrder ==
    ASSUME OrderInv,
           \/ PassThrough \/ FlushNext \/ FlushExpired \/ (\E f \in Flows : GoIdle(f))
           \/ UNCHANGED vars
    PROVE  /\ SpanInv' /\ HighInv' /\ UNCHANGED <<buf, got>>
           /\ \A f \in flows \cap flows' : high'[f] = high[f]
<1>1. /\ UNCHANGED <<buf, got>> /\ flows' \subseteq flows
      /\ \A f \in flows' : high'[f] = high[f]
  <2>1. high \in [Flows -> Nat] /\ flows \subseteq Flows
    BY DEF OrderInv, Inv, TypeOK
  <2> QED
    BY <2>1 DEF PassThrough, FlushNext, FlushExpired, GoIdle, WriteNothing, vars
<1>2. SpanInv'
  BY <1>1, QuietSpan
<1>3. HighInv'
  BY <1>1 DEF OrderInv, HighInv
<1> QED
  BY <1>1, <1>2, <1>3

\* All that a step may do to the order of a flow.
LEMMA StepOrder ==
    ASSUME OrderInv, [Next]_vars
    PROVE  /\ OrderInv'
           /\ \A f \in flows \cap flows' : high'[f] >= high[f]
           /\ \A f \in Flows : \A e \in buf[f] \ buf'[f] :
                 [flow |-> f, seg |-> e] \in out' /\ e.pos >= high[f]
<1>1. Inv' /\ NoOverlap'
  BY NextInv DEF OrderInv, NoOverlap
<1>2. high \in [Flows -> Nat] /\ flows \subseteq Flows
  BY DEF OrderInv, Inv, TypeOK
<1>3. ASSUME NEW f \in Flows, NEW s \in Segs, Arrive(f, s)
      PROVE  /\ SpanInv' /\ HighInv'
             /\ \A g \in flows \cap flows' : high'[g] >= high[g]
             /\ \A g \in Flows : buf[g] \ buf'[g] = {}
  <2>1. /\ SpanInv' /\ HighInv'
        /\ f \in flows => high'[f] >= high[f]
        /\ \A g \in Flows : buf[g] \subseteq buf'[g]
        /\ \A g \in flows \ {f} : high'[g] = high[g]
    BY <1>3, ArriveOrder
  <2> QED
    BY <1>2, <2>1
<1>4. CASE drain
  BY <1>1, <1>4, DrainOrder DEF OrderInv
<1>5. CASE skipGap
  BY <1>1, <1>5, SkipOrder DEF OrderInv
<1>6. CASE \/ PassThrough \/ FlushNext \/ FlushExpired \/ (\E f \in Flows : GoIdle(f))
           \/ UNCHANGED vars
  BY <1>1, <1>2, <1>6, OtherOrder DEF OrderInv
<1> QED
  BY <1>1, <1>3, <1>4, <1>5, <1>6 DEF Next, Reader, OrderInv

LEMMA InitOrder == NoOverlap /\ Init => OrderInv
<1> SUFFICES ASSUME NoOverlap, Init PROVE OrderInv
  OBVIOUS
<1>1. SpanInv /\ HighInv
  BY DEF Init, SpanInv, HighInv
<1> QED
  BY <1>1, InitInv DEF OrderInv

\* When segments do not overlap, OrderInv is an inductive invariant.
THEOREM OrderInvariance == NoOverlap /\ Spec => []OrderInv
<1>1. OrderInv /\ [Next]_vars => OrderInv'
  BY StepOrder
<1> QED
  BY <1>1, InitOrder, PTL DEF Spec

\* The watermark of a flow never moves back, for every width of the sequence
\* numbers, however often they wrap (drain and skipGap, reseq.go:176, 192).
THEOREM WatermarkNeverBack == NoOverlap /\ Spec => WatermarkAdvances
<1>1. OrderInv /\ [Next]_vars =>
         [\A f \in flows \cap flows' : high'[f] >= high[f]]_vars
  BY StepOrder
<1> QED
  BY <1>1, OrderInvariance, PTL DEF Spec, WatermarkAdvances

\* Neither skipGap's sweep nor the reaping of a flow loses a segment it holds
\* (reseq.go:156, 198).
THEOREM HeldIsWritten == NoOverlap /\ Spec => HeldReachesTun
<1>1. OrderInv /\ [Next]_vars =>
         [\A f \in Flows : \A e \in buf[f] \ buf'[f] :
             [flow |-> f, seg |-> e] \in out']_vars
  BY StepOrder
<1> QED
  BY <1>1, OrderInvariance, PTL DEF Spec, HeldReachesTun

\* What the buffer releases is at or after the watermark: the comment at
\* reseq.go:62 is true of a sender whose segments do not overlap.
THEOREM InOrder == NoOverlap /\ Spec => ReleasedInOrder
<1>1. OrderInv /\ [Next]_vars =>
         [\A f \in Flows : \A e \in buf[f] \ buf'[f] :
             [flow |-> f, seg |-> e] \in out' => e.pos >= high[f]]_vars
  BY StepOrder
<1> QED
  BY <1>1, OrderInvariance, PTL DEF Spec, ReleasedInOrder
============================================================================
