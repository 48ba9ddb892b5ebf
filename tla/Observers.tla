----------------------------- MODULE Observers ------------------------------
(***************************************************************************)
(* The two observers of a download pump (utility/reseq.go), which see the  *)
(* TCP segments of the flows before they are resequenced, while statistics *)
(* are on: PreReseqObserver counts segments below the highest one seen,    *)
(* PreSendGenuineObserver tells retransmissions from genuine reorder by a  *)
(* ring of the numbers seen last.                                          *)
(*                                                                         *)
(* A flow's segments are sent in order, one number each, and arrive late   *)
(* by up to MaxLate, again, or never.  Sequence numbers are mod SeqSpace   *)
(* (2^32 in the code), so the flow may go round any number of times.       *)
(* Packets parseTCP rejects (pure ACKs, not TCP) are not observed at all.  *)
(***************************************************************************)
EXTENDS Integers, FiniteSets

CONSTANTS
    Flows,
    SeqSpace,        \* number of sequence numbers, even
    preSendRingSize,
    FlowLimit,       \* flows PreReseqObserver keeps (1 << 16)
    GenFlowLimit,    \* flows PreSendGenuineObserver keeps (256)
    MaxLate          \* bound: how far behind the newest a segment arrives

Half == SeqSpace \div 2

ASSUME ObserversAssumption ==
    /\ SeqSpace \in Nat \ {0} /\ SeqSpace = 2 * Half
    /\ preSendRingSize \in Nat /\ preSendRingSize > 1
    /\ FlowLimit \in Nat \ {0} /\ GenFlowLimit \in Nat \ {0}
    /\ MaxLate \in Nat /\ MaxLate < Half

VARIABLES
    shouldLog,  \* stats.ShouldLog()
    top,        \* flow -> the newest number sent
    maxSeq,     \* PreReseqObserver: flow -> number, for the flows it keeps
    flows,      \* PreSendGenuineObserver: flow -> its preSendFlow
    counted,    \* the counters the last packet incremented
    lag,        \* history: flow -> segments sent after the newest one that
                \* PreReseqObserver saw, at most Half
    genLag      \* history: the same for PreSendGenuineObserver

vars == <<shouldLog, top, maxSeq, flows, counted, lag, genLag>>

SeqNos == 0..(SeqSpace - 1)
Slots == 0..(preSendRingSize - 1)
Counters == {"PreReseqTotal", "PreReseqOOO",
             "PreSendTotal", "PreSendGenuine", "PreSendRetr"}

preSendFlow == [maxSeq : SeqNos, ring : [Slots -> SeqNos], in : SUBSET SeqNos,
                head : Slots, count : 0..preSendRingSize]

TypeOK ==
    /\ shouldLog \in BOOLEAN
    /\ top \in [Flows -> SeqNos]
    /\ DOMAIN maxSeq \subseteq Flows /\ \A f \in DOMAIN maxSeq : maxSeq[f] \in SeqNos
    /\ DOMAIN flows \subseteq Flows /\ \A f \in DOMAIN flows : flows[f] \in preSendFlow
    /\ counted \in SUBSET Counters
    /\ lag \in [Flows -> 0..Half] /\ genLag \in [Flows -> 0..Half]

Init ==
    /\ shouldLog \in BOOLEAN
    /\ top = [f \in Flows |-> 0]
    /\ maxSeq = [f \in {} |-> 0]
    /\ flows = [f \in {} |-> 0]
    /\ counted = {}
    /\ lag = [f \in Flows |-> 0] /\ genLag = [f \in Flows |-> 0]

----------------------------------------------------------------------------
(* Serial numbers *)

\* Faulty variant: compared as they are.
BelowUnsigned(a, b) == a < b

\* int32(a - b) < 0
Below(a, b) == (a - b) % SeqSpace >= Half

----------------------------------------------------------------------------
(* Observe *)

\* Faulty variant: flows are never forgotten.
MakeRoomNever(map, limit) == DOMAIN map

\* The flows that stay when a new one is entered: all, or none at the limit.
MakeRoom(map, limit) == IF Cardinality(DOMAIN map) >= limit THEN {} ELSE DOMAIN map

Enter(map, limit, f, value) ==
    [g \in MakeRoom(map, limit) \cup {f} |-> IF g = f THEN value ELSE map[g]]

\* PreReseqObserver.Observe: the new maxSeq.
ObserveHighest(f, seq) ==
    IF f \notin DOMAIN maxSeq THEN Enter(maxSeq, FlowLimit, f, seq)
    ELSE IF Below(seq, maxSeq[f]) THEN maxSeq
    ELSE [maxSeq EXCEPT ![f] = seq]

\* Number seq goes to the head of the ring, which moves to next; a full ring
\* forgets the number in slot old.
Put(p, seq, old, next) ==
    LET full == p.count = preSendRingSize
    IN  [maxSeq |-> p.maxSeq,
         ring   |-> [p.ring EXCEPT ![p.head] = seq],
         in     |-> (IF full THEN p.in \ {p.ring[old]} ELSE p.in) \cup {seq},
         head   |-> next,
         count  |-> IF full THEN p.count ELSE p.count + 1]

NextSlot(i) == (i + 1) % preSendRingSize

\* Faulty variant: the slot after the oldest is forgotten.
RememberWrongSlot(p, seq) == Put(p, seq, NextSlot(p.head), NextSlot(p.head))

\* Faulty variant: head runs past the end of the ring.
RememberNoWrap(p, seq) == Put(p, seq, p.head, p.head + 1)

\* Faulty variant: a full ring forgets the newest number, not the oldest.
RememberNewest(p, seq) ==
    Put(p, seq, p.head, IF p.count = preSendRingSize THEN p.head ELSE NextSlot(p.head))

Remember(p, seq) == Put(p, seq, p.head, NextSlot(p.head))

NewFlow == [maxSeq |-> 0, ring |-> [i \in Slots |-> 0], in |-> {}, head |-> 0, count |-> 0]

\* Faulty variant: the high-water mark starts at zero, not at the first number.
RaisesFromZero(p, seq) == ~Below(seq, p.maxSeq)

\* p is the flow with seq in its ring.
Raises(p, seq) == p.count = 1 \/ ~Below(seq, p.maxSeq)

Repeated(f, seq) == f \in DOMAIN flows /\ seq \in flows[f].in

Remembered(f, seq) ==
    Remember(IF f \in DOMAIN flows THEN flows[f] ELSE NewFlow, seq)

\* PreSendGenuineObserver.Observe: the new flows.
ObserveGenuine(f, seq) ==
    LET p == Remembered(f, seq)
        q == IF Raises(p, seq) THEN [p EXCEPT !.maxSeq = seq] ELSE p
    IN  IF Repeated(f, seq) THEN flows
        ELSE IF f \in DOMAIN flows THEN [flows EXCEPT ![f] = q]
        ELSE Enter(flows, GenFlowLimit, f, q)

\* The counters that a segment of flow f increments.
Count(f, seq) ==
    {"PreReseqTotal", "PreSendTotal"}
    \cup {c \in {"PreReseqOOO"} : f \in DOMAIN maxSeq /\ Below(seq, maxSeq[f])}
    \cup {c \in {"PreSendRetr"} : Repeated(f, seq)}
    \cup {c \in {"PreSendGenuine"} :
             ~Repeated(f, seq) /\ ~Raises(Remembered(f, seq), seq)}

----------------------------------------------------------------------------
(* The flows; before, after and known are the flows an observer keeps. *)

\* Segments between the newest seen and the newest sent, after one that is d
\* behind was seen.  A lag of Half stays: the mark no longer means anything.
LagAfter(before, after, old, f, d) ==
    [g \in Flows |-> IF g \notin after THEN 0
                     ELSE IF g # f \/ (f \in before /\ old[f] \in {Half} \cup 0..d)
                     THEN old[g]
                     ELSE d]

Older(known, old, f) ==
    [old EXCEPT ![f] = IF f \notin known THEN 0 ELSE IF @ < Half THEN @ + 1 ELSE @]

\* Bound: a flow does not come round to a number that is still in its ring,
\* unless it is half the numbers ahead of the mark anyway.
NotRound(f) == Repeated(f, (top[f] + 1) % SeqSpace) => genLag[f] = Half

\* The next segment of flow f is sent.
Send(f) ==
    /\ NotRound(f)
    /\ top' = [top EXCEPT ![f] = (@ + 1) % SeqSpace]
    /\ lag' = Older(DOMAIN maxSeq, lag, f)
    /\ genLag' = Older(DOMAIN flows, genLag, f)
    /\ UNCHANGED <<shouldLog, maxSeq, flows, counted>>

\* A segment that is d behind the newest arrives, for the first time or again.
\* While statistics are off it passes unseen.
Arrive(f, d) ==
    LET seq == (top[f] - d) % SeqSpace
    IN  /\ shouldLog
        /\ maxSeq' = ObserveHighest(f, seq)
        /\ flows' = ObserveGenuine(f, seq)
        /\ counted' = Count(f, seq)
        /\ lag' = LagAfter(DOMAIN maxSeq, DOMAIN maxSeq', lag, f, d)
        /\ genLag' = LagAfter(DOMAIN flows, DOMAIN flows', genLag, f, d)
        /\ UNCHANGED <<shouldLog, top>>

\* A new connection with the addresses and ports of flow f starts anywhere.
Reconnect(f, isn) ==
    /\ top' = [top EXCEPT ![f] = isn]
    /\ lag' = [lag EXCEPT ![f] = IF f \in DOMAIN maxSeq THEN Half ELSE 0]
    /\ genLag' = [genLag EXCEPT ![f] = IF f \in DOMAIN flows THEN Half ELSE 0]
    /\ UNCHANGED <<shouldLog, maxSeq, flows, counted>>

\* The configuration is reloaded (ConfigWatch).
Enable(on) ==
    /\ shouldLog' = on
    /\ UNCHANGED <<top, maxSeq, flows, counted, lag, genLag>>

Next ==
    \/ \E f \in Flows : \/ Send(f)
                        \/ \E d \in 0..MaxLate : Arrive(f, d)
                        \/ \E isn \in SeqNos : Reconnect(f, isn)
    \/ \E on \in BOOLEAN : Enable(on)

Spec == Init /\ [][Next]_vars

----------------------------------------------------------------------------
(* Safety *)

\* However many flows come and go, neither observer keeps more than its limit
\* (reseq.go:47, 285).
BoundedMemory ==
    /\ Cardinality(DOMAIN maxSeq) <= FlowLimit
    /\ Cardinality(DOMAIN flows) <= GenFlowLimit

\* The numbers in a flow's ring, and nothing else, are in its set, which is
\* as large as the ring is full: eviction, wrap and duplicates keep the two
\* together (reseq.go:295-302).
RingMirrorsSet ==
    \A f \in DOMAIN flows :
        LET p == flows[f]
            filled == IF p.count = preSendRingSize THEN Slots ELSE 0..(p.count - 1)
        IN  /\ p.in = {p.ring[i] : i \in filled}
            /\ Cardinality(p.in) = p.count
            /\ p.count < preSendRingSize => p.head = p.count

\* The high-water marks are the newest segments seen, also when the sequence
\* numbers have wrapped; unless half of the numbers passed unseen, or the
\* connection is a new one (reseq.go:51, 303).
HighWaterExact ==
    /\ \A f \in DOMAIN maxSeq :
           lag[f] < Half => maxSeq[f] = (top[f] - lag[f]) % SeqSpace
    /\ \A f \in DOMAIN flows :
           genLag[f] < Half => flows[f].maxSeq = (top[f] - genLag[f]) % SeqSpace

\* "a later-sent segment already arrived first" (reseq.go:24): while the marks
\* are good, a segment is counted as out of order, or as genuine reorder,
\* only after a later one of its flow was seen, and every such segment is
\* counted as out of order.
CountsReorder ==
    [][\A f \in Flows, d \in 0..MaxLate : Arrive(f, d) =>
         /\ lag[f] < Half =>
              ("PreReseqOOO" \in counted' <=> f \in DOMAIN maxSeq /\ d > lag[f])
         /\ genLag[f] < Half /\ "PreSendGenuine" \in counted' =>
              f \in DOMAIN flows /\ d > genLag[f]]_vars

(* Refinement *)

\* The ring of a flow from its oldest number on.
Window(p) ==
    [i \in 1..p.count |-> p.ring[(p.head - p.count + i - 1) % preSendRingSize]]

W == INSTANCE SeenWindow WITH
        Keys <- Flows, Seqs <- SeqNos, Size <- preSendRingSize,
        windows <- [f \in DOMAIN flows |-> Window(flows[f])],
        again <- "PreSendRetr" \in counted

\* Ring, head, count and set together remember the latest preSendRingSize
\* numbers of a flow, first in, first out, and a segment counts as a
\* retransmission exactly when its number is one of them.
ImplementsSeenWindow == W!SeenSpec
=============================================================================
