--------------------------- MODULE ObserversProofs --------------------------
(***************************************************************************)
(* Proofs about Observers, for any flows, width of the sequence numbers,   *)
(* size of the ring and limits.                                            *)
(***************************************************************************)
EXTENDS Observers, NumberLemmas, FiniteSetTheorems, TLAPS

----------------------------------------------------------------------------
(* The ring's slots *)

\* The slot after i.
LEMMA NextSlotIs ==
    ASSUME NEW i \in Slots
    PROVE  /\ NextSlot(i) \in Slots
           /\ i < preSendRingSize - 1 => NextSlot(i) = i + 1
           /\ i = preSendRingSize - 1 => NextSlot(i) = 0
<1>1. preSendRingSize \in Nat \ {0} /\ i \in Nat /\ i <= preSendRingSize - 1
  BY ObserversAssumption DEF ObserversAssumption, Slots
<1>2. CASE i < preSendRingSize - 1
  <2>1. i + 1 \in 0..(preSendRingSize - 1)
    BY <1>1, <1>2
  <2> QED
    BY <1>1, <1>2, <2>1, ModSmall DEF NextSlot, Slots
<1>3. CASE i = preSendRingSize - 1
  <2>1. i + 1 = preSendRingSize * 1 + 0 /\ 0 \in 0..(preSendRingSize - 1)
    BY <1>1, <1>3
  <2>2. (i + 1) % preSendRingSize = 0
    BY <1>1, <2>1, ModUnique
  <2> QED
    BY <1>1, <1>3, <2>1, <2>2 DEF NextSlot, Slots
<1> QED
  BY <1>1, <1>2, <1>3

----------------------------------------------------------------------------
(* Serial numbers: within half the space of each other, two segments of a  *)
(* flow compare as they were sent.                                         *)

LEMMA SpaceFacts ==
    /\ SeqSpace \in Nat \ {0} /\ Half \in Nat \ {0} /\ SeqSpace = 2 * Half
    /\ MaxLate \in Nat /\ MaxLate < Half
<1>1. SeqSpace \in Nat \ {0} /\ SeqSpace = 2 * Half /\ MaxLate \in Nat /\ MaxLate < Half
  BY ObserversAssumption DEF ObserversAssumption
<1>2. Half \in Int
  BY <1>1 DEF Half
<1> QED
  BY <1>1, <1>2

LEMMA SeqType ==
    ASSUME NEW t \in Int, NEW d \in Int
    PROVE  (t - d) % SeqSpace \in SeqNos
<1>1. t - d \in Int
  OBVIOUS
<1> QED
  BY <1>1, SpaceFacts, ModRange DEF SeqNos

LEMMA Compare ==
    ASSUME NEW t \in Int, NEW d \in 0..(Half - 1), NEW l \in 0..(Half - 1)
    PROVE  Below((t - d) % SeqSpace, (t - l) % SeqSpace) <=> d > l
<1> DEFINE a == t - d
           b == t - l
<1>1. a \in Int /\ b \in Int /\ a - b = l - d /\ l - d \in Int
      /\ l - d > -Half /\ l - d < Half
  BY SpaceFacts
<1>2. ((a % SeqSpace) - (b % SeqSpace)) % SeqSpace = (l - d) % SeqSpace
  <2>1. ((a % SeqSpace) - (b % SeqSpace)) % SeqSpace = (a - b) % SeqSpace
    BY <1>1, SpaceFacts, ModMinus, Zenon
  <2> QED
    BY <1>1, <2>1, Zenon
<1>3. CASE l >= d
  <2>1. l - d \in 0..(SeqSpace - 1)
    BY <1>1, <1>3, SpaceFacts
  <2>2. (l - d) % SeqSpace = l - d
    BY <2>1, SpaceFacts, ModSmall
  <2> QED
    BY <1>1, <1>2, <1>3, <2>2, SpaceFacts DEF Below
<1>4. CASE l < d
  <2>1. (l - d) % SeqSpace = l - d + SeqSpace
    BY <1>1, <1>4, SpaceFacts, ModNegative
  <2> QED
    BY <1>1, <1>2, <1>4, <2>1, SpaceFacts DEF Below
<1> QED
  BY <1>3, <1>4

\* Segments less than the whole space apart have different numbers.
LEMMA Different ==
    ASSUME NEW t \in Int, NEW d \in 0..Half, NEW e \in 0..Half, e < d
    PROVE  (t - e) % SeqSpace # (t - d) % SeqSpace
<1> DEFINE a == t - e
           b == t - d
<1>1. a \in Int /\ b \in Int /\ a - b = d - e /\ d - e \in 1..(SeqSpace - 1)
  BY SpaceFacts
<1>2. ((a % SeqSpace) - (b % SeqSpace)) % SeqSpace = (d - e) % SeqSpace
  <2>1. ((a % SeqSpace) - (b % SeqSpace)) % SeqSpace = (a - b) % SeqSpace
    BY <1>1, SpaceFacts, ModMinus, Zenon
  <2> QED
    BY <1>1, <2>1, Zenon
<1>3. (d - e) % SeqSpace = d - e
  BY <1>1, SpaceFacts, ModSmall
<1>4. 0 % SeqSpace = 0
  BY SpaceFacts, ModSmall
<1>5. a % SeqSpace \in Int /\ b % SeqSpace \in Int
  BY <1>1, SpaceFacts, ModRange
<1>6. SUFFICES ASSUME a % SeqSpace = b % SeqSpace PROVE FALSE
  OBVIOUS
<1>7. (a % SeqSpace) - (b % SeqSpace) = 0
  BY <1>5, <1>6
<1> QED
  BY <1>1, <1>2, <1>3, <1>4, <1>7

----------------------------------------------------------------------------
(* The ring *)

Filled(p) == IF p.count = preSendRingSize THEN Slots ELSE 0..(p.count - 1)

\* RingMirrorsSet for one flow, with the reason for it: no number is in the
\* ring twice.
RingOK(p) ==
    /\ p.in = {p.ring[i] : i \in Filled(p)}
    /\ \A i, j \in Filled(p) : p.ring[i] = p.ring[j] => i = j
    /\ Cardinality(p.in) = p.count
    /\ p.count < preSendRingSize => p.head = p.count

\* What Remember does, field by field.
LEMMA RememberIs ==
    ASSUME NEW p \in preSendFlow, NEW seq \in SeqNos
    PROVE  /\ p.count = preSendRingSize =>
                /\ Remember(p, seq).in = (p.in \ {p.ring[p.head]}) \cup {seq}
                /\ Remember(p, seq).count = p.count
           /\ p.count # preSendRingSize =>
                /\ Remember(p, seq).in = p.in \cup {seq}
                /\ Remember(p, seq).count = p.count + 1
           /\ Remember(p, seq).ring = [p.ring EXCEPT ![p.head] = seq]
           /\ Remember(p, seq).head = NextSlot(p.head)
           /\ Remember(p, seq).maxSeq = p.maxSeq
  BY DEF Remember, Put

LEMMA NewFlowOK == NewFlow \in preSendFlow /\ RingOK(NewFlow) /\ NewFlow.count = 0
<1>1. 0 \in SeqNos /\ 0 \in Slots /\ 0 \in 0..preSendRingSize
  BY SpaceFacts, ObserversAssumption DEF ObserversAssumption, SeqNos, Slots
<1>2. NewFlow \in preSendFlow
  BY <1>1 DEF NewFlow, preSendFlow
<1>3. Filled(NewFlow) = {}
  BY ObserversAssumption DEF ObserversAssumption, Filled, NewFlow
<1> QED
  BY <1>2, <1>3, FS_EmptySet DEF RingOK, NewFlow

LEMMA RememberOK ==
    ASSUME NEW p \in preSendFlow, RingOK(p), NEW seq \in SeqNos, seq \notin p.in
    PROVE  LET r == Remember(p, seq)
           IN  /\ r \in preSendFlow /\ RingOK(r)
               /\ r.count >= 1 /\ (p.count >= 1 => r.count >= 2)
               /\ r.maxSeq = p.maxSeq /\ seq \in r.in /\ r.in \subseteq p.in \cup {seq}
<1> DEFINE r == Remember(p, seq)
<1>1. preSendRingSize \in Nat /\ preSendRingSize > 1
  BY ObserversAssumption DEF ObserversAssumption
<1>2. /\ p.head \in Slots /\ p.count \in 0..preSendRingSize /\ p.in \subseteq SeqNos
      /\ p.ring \in [Slots -> SeqNos] /\ p.maxSeq \in SeqNos
  BY DEF preSendFlow
<1>r. /\ p.count = preSendRingSize =>
           r.in = (p.in \ {p.ring[p.head]}) \cup {seq} /\ r.count = p.count
      /\ p.count # preSendRingSize =>
           r.in = p.in \cup {seq} /\ r.count = p.count + 1
      /\ r.ring = [p.ring EXCEPT ![p.head] = seq]
      /\ r.head = NextSlot(p.head) /\ r.maxSeq = p.maxSeq
  BY RememberIs, Zenon
<1>3. r \in preSendFlow
  <2>1. r.head \in Slots
    BY <1>2, <1>r, NextSlotIs
  <2>2. r.count \in 0..preSendRingSize
    BY <1>1, <1>2, <1>r
  <2>3. r.in \subseteq SeqNos /\ r.ring \in [Slots -> SeqNos] /\ r.maxSeq \in SeqNos
    BY <1>2, <1>r
  <2> QED
    BY <2>1, <2>2, <2>3 DEF preSendFlow, Remember, Put
<1>4. IsFiniteSet(p.in)
  <2>1. IsFiniteSet(SeqNos)
    BY SpaceFacts, FS_Interval DEF SeqNos
  <2> QED
    BY <1>2, <2>1, FS_Subset
<1>5. CASE p.count = preSendRingSize
  <2>1. Filled(p) = Slots /\ Filled(r) = Slots /\ r.count = p.count
    BY <1>5, <1>r DEF Filled
  <2>2. p.ring[p.head] \in p.in
    BY <1>2, <2>1 DEF RingOK
  <2>3. /\ r.in = (p.in \ {p.ring[p.head]}) \cup {seq}
        /\ r.ring = [p.ring EXCEPT ![p.head] = seq]
    BY <1>5, <1>r
  <2>4. r.in = {r.ring[i] : i \in Slots}
    BY <1>2, <2>1, <2>3 DEF RingOK
  <2>5. \A i, j \in Slots : r.ring[i] = r.ring[j] => i = j
    BY <1>2, <2>1, <2>3 DEF RingOK
  <2>6. Cardinality(r.in) = r.count
    <3> DEFINE rest == p.in \ {p.ring[p.head]}
    <3>1. IsFiniteSet(rest) /\ Cardinality(rest) = Cardinality(p.in) - 1
      BY <1>4, <2>2, FS_RemoveElement
    <3>2. Cardinality(rest \cup {seq}) = Cardinality(rest) + 1
      BY <3>1, FS_AddElement
    <3>3. Cardinality(p.in) = p.count
      BY DEF RingOK
    <3> QED
      BY <1>2, <2>1, <2>3, <3>1, <3>2, <3>3
  <2>7. RingOK(r)
    BY <1>1, <1>5, <2>1, <2>4, <2>5, <2>6 DEF RingOK
  <2> QED
    BY <1>1, <1>3, <1>5, <2>1, <2>3, <2>7, <1>r
<1>6. CASE p.count < preSendRingSize
  <2>1. p.head = p.count /\ r.count = p.count + 1
    BY <1>2, <1>6, <1>r DEF RingOK
  <2>2. Filled(p) = 0..(p.count - 1) /\ Filled(r) = 0..p.count
    BY <1>1, <1>2, <1>6, <2>1 DEF Filled, Slots
  <2>3. r.in = p.in \cup {seq} /\ r.ring = [p.ring EXCEPT ![p.head] = seq]
    BY <1>1, <1>2, <1>6, <1>r
  <2>4. 0..p.count = 0..(p.count - 1) \cup {p.count} /\ 0..p.count \subseteq Slots
    BY <1>1, <1>2, <1>6 DEF Slots
  <2>5. r.in = {r.ring[i] : i \in 0..p.count}
    BY <1>2, <2>1, <2>2, <2>3, <2>4 DEF RingOK
  <2>6. \A i, j \in 0..p.count : r.ring[i] = r.ring[j] => i = j
    BY <1>2, <2>1, <2>2, <2>3, <2>4 DEF RingOK
  <2>7. Cardinality(r.in) = r.count
    BY <1>4, <2>1, <2>3, FS_AddElement DEF RingOK
  <2>8. r.count < preSendRingSize => r.head = r.count
    BY <1>1, <1>2, <2>1, NextSlotIs, <1>r
  <2>9. RingOK(r)
    BY <2>2, <2>5, <2>6, <2>7, <2>8 DEF RingOK
  <2> QED
    BY <1>2, <1>3, <2>1, <2>3, <2>9, <1>r
<1> QED
  BY <1>1, <1>2, <1>5, <1>6

----------------------------------------------------------------------------
(* The inductive invariant *)

PreType ==
    /\ DOMAIN maxSeq \subseteq Flows /\ \A f \in DOMAIN maxSeq : maxSeq[f] \in SeqNos
    /\ lag \in [Flows -> 0..Half]
    /\ IsFiniteSet(DOMAIN maxSeq) /\ Cardinality(DOMAIN maxSeq) <= FlowLimit

GenType ==
    /\ DOMAIN flows \subseteq Flows
    /\ \A f \in DOMAIN flows : /\ flows[f] \in preSendFlow /\ RingOK(flows[f])
                               /\ flows[f].count >= 1
    /\ genLag \in [Flows -> 0..Half]
    /\ IsFiniteSet(DOMAIN flows) /\ Cardinality(DOMAIN flows) <= GenFlowLimit

PreMark ==
    \A f \in DOMAIN maxSeq :
        lag[f] < Half => maxSeq[f] = (top[f] - lag[f]) % SeqSpace

GenMark ==
    \A f \in DOMAIN flows :
        genLag[f] < Half => flows[f].maxSeq = (top[f] - genLag[f]) % SeqSpace

\* What was sent after the newest segment seen is not in the ring.
Unseen ==
    \A f \in DOMAIN flows : genLag[f] < Half =>
        \A e \in 0..(genLag[f] - 1) : (top[f] - e) % SeqSpace \notin flows[f].in

Inv ==
    /\ shouldLog \in BOOLEAN /\ top \in [Flows -> SeqNos] /\ counted \in SUBSET Counters
    /\ PreType /\ GenType /\ PreMark /\ GenMark /\ Unseen

LEMMA InvImplies ==
    Inv => TypeOK /\ BoundedMemory /\ RingMirrorsSet /\ HighWaterExact
<1> SUFFICES ASSUME Inv PROVE TypeOK /\ BoundedMemory /\ RingMirrorsSet /\ HighWaterExact
  OBVIOUS
<1>1. TypeOK
  BY DEF Inv, TypeOK, PreType, GenType
<1>2. BoundedMemory
  BY DEF Inv, PreType, GenType, BoundedMemory
<1>3. RingMirrorsSet
  BY DEF Inv, GenType, RingOK, Filled, RingMirrorsSet
<1>4. HighWaterExact
  BY DEF Inv, PreMark, GenMark, HighWaterExact
<1> QED
  BY <1>1, <1>2, <1>3, <1>4

LEMMA InitInv == Init => Inv
<1> SUFFICES ASSUME Init PROVE Inv
  OBVIOUS
<1>1. 0 \in SeqNos /\ 0 \in 0..Half /\ FlowLimit \in Nat /\ GenFlowLimit \in Nat
  BY SpaceFacts, ObserversAssumption DEF SeqNos, ObserversAssumption
<1>2. DOMAIN maxSeq = {} /\ DOMAIN flows = {}
  BY DEF Init
<1>3. PreType
  BY <1>1, <1>2, FS_EmptySet DEF Init, PreType
<1>4. GenType
  BY <1>1, <1>2, FS_EmptySet DEF Init, GenType
<1> QED
  BY <1>1, <1>2, <1>3, <1>4 DEF Init, Inv, PreMark, GenMark, Unseen

----------------------------------------------------------------------------
(* Entering a flow *)

LEMMA Entered ==
    ASSUME NEW map, IsFiniteSet(DOMAIN map), NEW limit \in Nat \ {0},
           Cardinality(DOMAIN map) <= limit, NEW f, NEW v, f \notin DOMAIN map
    PROVE  /\ DOMAIN Enter(map, limit, f, v) \subseteq DOMAIN map \cup {f}
           /\ f \in DOMAIN Enter(map, limit, f, v)
           /\ Enter(map, limit, f, v)[f] = v
           /\ \A g \in DOMAIN Enter(map, limit, f, v) \ {f} :
                 g \in DOMAIN map /\ Enter(map, limit, f, v)[g] = map[g]
           /\ IsFiniteSet(DOMAIN Enter(map, limit, f, v))
           /\ Cardinality(DOMAIN Enter(map, limit, f, v)) <= limit
<1> DEFINE kept == MakeRoom(map, limit)
           new == Enter(map, limit, f, v)
<1>1. kept = {} \/ (kept = DOMAIN map /\ Cardinality(DOMAIN map) < limit)
  <2>1. Cardinality(DOMAIN map) \in Nat
    BY FS_CardinalityType
  <2> QED
    BY <2>1 DEF MakeRoom
<1>2. DOMAIN new = kept \cup {f}
  BY DEF Enter
<1>3. new[f] = v /\ \A g \in kept : g # f => new[g] = map[g]
  BY DEF Enter
<1>4. IsFiniteSet(kept \cup {f}) /\ Cardinality(kept \cup {f}) <= limit
  <2>1. CASE kept = {}
    <3>1. IsFiniteSet({f}) /\ Cardinality({f}) = 1
      BY FS_Singleton
    <3>2. kept \cup {f} = {f}
      BY <2>1
    <3>3. IsFiniteSet(kept \cup {f}) /\ Cardinality(kept \cup {f}) = 1
      BY <3>1, <3>2, Zenon
    <3> QED
      BY <3>3
  <2>2. CASE kept = DOMAIN map /\ Cardinality(DOMAIN map) < limit
    <3>1. /\ IsFiniteSet(DOMAIN map \cup {f})
          /\ Cardinality(DOMAIN map \cup {f}) = Cardinality(DOMAIN map) + 1
          /\ Cardinality(DOMAIN map) \in Nat
      BY FS_AddElement, FS_CardinalityType
    <3> QED
      BY <2>2, <3>1
  <2> QED
    BY <1>1, <2>1, <2>2
<1> QED
  BY <1>1, <1>2, <1>3, <1>4

\* The history of the flows is kept for those that stay.
LEMMA LagIs ==
    ASSUME NEW before, NEW after, NEW old \in [Flows -> 0..Half], NEW f \in Flows,
           NEW d \in 0..MaxLate, f \in after
    PROVE  /\ LagAfter(before, after, old, f, d) \in [Flows -> 0..Half]
           /\ \A g \in Flows \cap after :
                 g # f => LagAfter(before, after, old, f, d)[g] = old[g]
           /\ f \notin before => LagAfter(before, after, old, f, d)[f] = d
           /\ f \in before => LagAfter(before, after, old, f, d)[f] =
                 IF old[f] = Half THEN Half ELSE IF old[f] > d THEN d ELSE old[f]
<1>1. Half \in Nat \ {0} /\ MaxLate \in Nat /\ MaxLate < Half /\ 0 \in 0..Half /\ d \in 0..Half
      /\ old[f] \in 0..Half
  BY SpaceFacts
<1>2. old[f] \in {Half} \cup 0..d <=> old[f] = Half \/ old[f] <= d
  BY <1>1
<1> QED
  BY <1>1, <1>2 DEF LagAfter

----------------------------------------------------------------------------
(* A segment of flow f that is d behind arrives. *)

LEMMA ArriveFacts ==
    ASSUME Inv, NEW f \in Flows, NEW d \in 0..MaxLate, Arrive(f, d)
    PROVE  /\ top[f] \in Int /\ d \in 0..(Half - 1)
           /\ (top[f] - d) % SeqSpace \in SeqNos
           /\ maxSeq' = ObserveHighest(f, (top[f] - d) % SeqSpace)
           /\ flows' = ObserveGenuine(f, (top[f] - d) % SeqSpace)
           /\ counted' = Count(f, (top[f] - d) % SeqSpace)
           /\ lag' = LagAfter(DOMAIN maxSeq, DOMAIN maxSeq', lag, f, d)
           /\ genLag' = LagAfter(DOMAIN flows, DOMAIN flows', genLag, f, d)
           /\ top' = top /\ shouldLog' = shouldLog
<1>1. top[f] \in Int /\ d \in Int /\ d \in 0..(Half - 1)
  BY SpaceFacts DEF Inv, SeqNos
<1> QED
  BY <1>1, SeqType DEF Arrive

LEMMA ArrivePre ==
    ASSUME Inv, NEW f \in Flows, NEW d \in 0..MaxLate, Arrive(f, d)
    PROVE  PreType' /\ PreMark'
<1> DEFINE seq == (top[f] - d) % SeqSpace
<1>1. /\ top[f] \in Int /\ d \in 0..(Half - 1) /\ seq \in SeqNos /\ top' = top
      /\ maxSeq' = ObserveHighest(f, seq)
      /\ lag' = LagAfter(DOMAIN maxSeq, DOMAIN maxSeq', lag, f, d)
  BY ArriveFacts
<1>2. lag \in [Flows -> 0..Half] /\ FlowLimit \in Nat \ {0} /\ Half \in Nat
  BY ObserversAssumption, SpaceFacts DEF Inv, PreType, ObserversAssumption
<1> HIDE DEF seq
<1>3. CASE f \notin DOMAIN maxSeq
  <2>1. maxSeq' = Enter(maxSeq, FlowLimit, f, seq)
    BY <1>1, <1>3 DEF ObserveHighest
  <2>2. /\ DOMAIN maxSeq' \subseteq DOMAIN maxSeq \cup {f}
        /\ f \in DOMAIN maxSeq' /\ maxSeq'[f] = seq
        /\ \A g \in DOMAIN maxSeq' \ {f} :
              g \in DOMAIN maxSeq /\ maxSeq'[g] = maxSeq[g]
        /\ IsFiniteSet(DOMAIN maxSeq') /\ Cardinality(DOMAIN maxSeq') <= FlowLimit
    BY <1>2, <1>3, <2>1, Entered DEF Inv, PreType
  <2>3. /\ lag' \in [Flows -> 0..Half] /\ lag'[f] = d
        /\ \A g \in Flows \cap DOMAIN maxSeq' : g # f => lag'[g] = lag[g]
    <3>1. /\ LagAfter(DOMAIN maxSeq, DOMAIN maxSeq', lag, f, d) \in [Flows -> 0..Half]
          /\ LagAfter(DOMAIN maxSeq, DOMAIN maxSeq', lag, f, d)[f] = d
          /\ \A g \in Flows \cap DOMAIN maxSeq' :
                g # f => LagAfter(DOMAIN maxSeq, DOMAIN maxSeq', lag, f, d)[g] = lag[g]
      BY <1>2, <1>3, <2>2, LagIs
    <3> QED
      BY <1>1, <3>1, Zenon
  <2>4. PreType'
    BY <1>1, <2>2, <2>3 DEF Inv, PreType
  <2>5. PreMark'
    BY <1>1, <2>2, <2>3 DEF Inv, PreType, PreMark, seq
  <2> QED
    BY <2>4, <2>5
<1>4. CASE f \in DOMAIN maxSeq
  <2>1. maxSeq' = IF Below(seq, maxSeq[f]) THEN maxSeq ELSE [maxSeq EXCEPT ![f] = seq]
    BY <1>1, <1>4 DEF ObserveHighest
  <2>2. /\ DOMAIN maxSeq' = DOMAIN maxSeq
        /\ \A g \in DOMAIN maxSeq : g # f => maxSeq'[g] = maxSeq[g]
        /\ maxSeq'[f] \in {maxSeq[f], seq}
    BY <1>4, <2>1
  <2>3. /\ lag' \in [Flows -> 0..Half]
        /\ lag'[f] = IF lag[f] = Half THEN Half ELSE IF lag[f] > d THEN d ELSE lag[f]
        /\ \A g \in Flows \cap DOMAIN maxSeq' : g # f => lag'[g] = lag[g]
    <3>1. /\ LagAfter(DOMAIN maxSeq, DOMAIN maxSeq', lag, f, d) \in [Flows -> 0..Half]
          /\ LagAfter(DOMAIN maxSeq, DOMAIN maxSeq', lag, f, d)[f] =
                IF lag[f] = Half THEN Half ELSE IF lag[f] > d THEN d ELSE lag[f]
          /\ \A g \in Flows \cap DOMAIN maxSeq' : g # f =>
                LagAfter(DOMAIN maxSeq, DOMAIN maxSeq', lag, f, d)[g] = lag[g]
      BY <1>2, <1>4, <2>2, LagIs
    <3> QED
      BY <1>1, <3>1, Zenon
  <2>4. PreType'
    BY <1>1, <2>2, <2>3 DEF Inv, PreType
  <2>5. lag[f] < Half => maxSeq'[f] = (top[f] - lag'[f]) % SeqSpace
    <3> SUFFICES ASSUME lag[f] < Half
                 PROVE  maxSeq'[f] = (top[f] - lag'[f]) % SeqSpace
      OBVIOUS
    <3>1. lag[f] \in 0..(Half - 1) /\ maxSeq[f] = (top[f] - lag[f]) % SeqSpace
      BY <1>2, <1>4 DEF Inv, PreMark
    <3>2. Below(seq, maxSeq[f]) <=> d > lag[f]
      BY <1>1, <3>1, Compare DEF seq
    <3>3. CASE d > lag[f]
      BY <1>1, <1>2, <2>1, <2>3, <3>1, <3>2, <3>3
    <3>4. CASE d <= lag[f]
      <4>1. lag'[f] = d
        BY <1>1, <1>2, <2>3, <3>1, <3>4
      <4>2. maxSeq'[f] = seq
        BY <1>1, <1>4, <2>1, <3>1, <3>2, <3>4
      <4> QED
        BY <4>1, <4>2 DEF seq
    <3> QED
      BY <1>1, <3>1, <3>3, <3>4
  <2>6. PreMark'
    BY <1>1, <1>2, <1>4, <2>2, <2>3, <2>5 DEF Inv, PreType, PreMark
  <2> QED
    BY <2>4, <2>6
<1> QED
  BY <1>3, <1>4

\* A number that is not in the ring of its flow is new to it.
LEMMA FlowAfter ==
    ASSUME Inv, NEW f \in Flows, NEW seq \in SeqNos, ~Repeated(f, seq)
    PROVE  LET p == IF f \in DOMAIN flows THEN flows[f] ELSE NewFlow
               r == Remembered(f, seq)
           IN  /\ p \in preSendFlow /\ RingOK(p) /\ seq \notin p.in
               /\ r = Remember(p, seq)
               /\ r \in preSendFlow /\ RingOK(r) /\ r.count >= 1
               /\ f \in DOMAIN flows => r.count >= 2
               /\ r.maxSeq = p.maxSeq /\ r.in \subseteq p.in \cup {seq}
               /\ f \notin DOMAIN flows => r.count = 1
<1> DEFINE p == IF f \in DOMAIN flows THEN flows[f] ELSE NewFlow
           r == Remembered(f, seq)
<1>1. p \in preSendFlow /\ RingOK(p) /\ (f \in DOMAIN flows => p.count >= 1)
  BY NewFlowOK DEF Inv, GenType
<1>2. seq \notin p.in
  BY DEF Repeated, NewFlow
<1>3. r = Remember(p, seq)
  BY DEF Remembered
<1>4. f \notin DOMAIN flows => r.count = 1
  <2>1. f \notin DOMAIN flows => p.count = 0 /\ p.count # preSendRingSize
    BY NewFlowOK, ObserversAssumption DEF ObserversAssumption
  <2> HIDE DEF p, r
  <2>2. p.count # preSendRingSize => r.count = p.count + 1
    BY <1>1, <1>3, RememberIs
  <2> QED
    BY <2>1, <2>2
<1> HIDE DEF p, r
<1>5. /\ r \in preSendFlow /\ RingOK(r) /\ r.count >= 1
      /\ (p.count >= 1 => r.count >= 2)
      /\ r.maxSeq = p.maxSeq /\ r.in \subseteq p.in \cup {seq}
  BY <1>1, <1>2, <1>3, RememberOK
<1> QED
  BY <1>1, <1>2, <1>3, <1>4, <1>5 DEF p, r

\* Raising the mark of a flow leaves its ring alone.
LEMMA RaisedOK ==
    ASSUME NEW p \in preSendFlow, RingOK(p), NEW seq \in SeqNos
    PROVE  LET q == [p EXCEPT !.maxSeq = seq]
           IN  /\ q \in preSendFlow /\ RingOK(q)
               /\ q.count = p.count /\ q.in = p.in /\ q.maxSeq = seq
<1> DEFINE q == [p EXCEPT !.maxSeq = seq]
<1>1. /\ q \in preSendFlow /\ q.count = p.count /\ q.in = p.in /\ q.maxSeq = seq
      /\ q.ring = p.ring /\ q.head = p.head
  BY DEF preSendFlow
<1> HIDE DEF q
<1>2. RingOK(q)
  BY <1>1 DEF RingOK, Filled
<1> QED
  BY <1>1, <1>2 DEF q

\* The entry of flow f after a number that was not in its ring.
Entry(f, seq) ==
    IF Raises(Remembered(f, seq), seq) THEN [Remembered(f, seq) EXCEPT !.maxSeq = seq]
    ELSE Remembered(f, seq)

LEMMA EntryOK ==
    ASSUME Inv, NEW f \in Flows, NEW seq \in SeqNos, ~Repeated(f, seq)
    PROVE  /\ Entry(f, seq) \in preSendFlow /\ RingOK(Entry(f, seq))
           /\ Entry(f, seq).count >= 1
           /\ f \in DOMAIN flows => Entry(f, seq).in \subseteq flows[f].in \cup {seq}
           /\ f \notin DOMAIN flows => Entry(f, seq).in \subseteq {seq}
           /\ f \notin DOMAIN flows => Entry(f, seq).maxSeq = seq
           /\ f \in DOMAIN flows /\ Below(seq, flows[f].maxSeq) =>
                 Entry(f, seq).maxSeq = flows[f].maxSeq
           /\ f \in DOMAIN flows /\ ~Below(seq, flows[f].maxSeq) =>
                 Entry(f, seq).maxSeq = seq
           /\ Raises(Remembered(f, seq), seq) <=>
                 f \notin DOMAIN flows \/ ~Below(seq, flows[f].maxSeq)
<1> DEFINE r == Remembered(f, seq)
<1>1. /\ r \in preSendFlow /\ RingOK(r) /\ r.count >= 1 /\ r.count \in Nat
      /\ f \in DOMAIN flows => r.count >= 2 /\ r.maxSeq = flows[f].maxSeq
                               /\ r.in \subseteq flows[f].in \cup {seq}
      /\ f \notin DOMAIN flows => r.count = 1 /\ r.in \subseteq {seq}
  <2>1. r \in preSendFlow => r.count \in Nat
    BY ObserversAssumption DEF ObserversAssumption, preSendFlow
  <2> QED
    BY <2>1, FlowAfter DEF NewFlow
<1>2. Raises(r, seq) <=> f \notin DOMAIN flows \/ ~Below(seq, flows[f].maxSeq)
  BY <1>1 DEF Raises
<1>3. LET q == [r EXCEPT !.maxSeq = seq]
      IN  /\ q \in preSendFlow /\ RingOK(q)
          /\ q.count = r.count /\ q.in = r.in /\ q.maxSeq = seq
  BY <1>1, RaisedOK
<1> HIDE DEF r
<1> QED
  BY <1>1, <1>2, <1>3 DEF Entry, r

LEMMA ArriveGen ==
    ASSUME Inv, NEW f \in Flows, NEW d \in 0..MaxLate, Arrive(f, d)
    PROVE  GenType' /\ GenMark' /\ Unseen'
<1> DEFINE seq == (top[f] - d) % SeqSpace
<1>1. /\ top[f] \in Int /\ d \in 0..(Half - 1) /\ seq \in SeqNos /\ top' = top
      /\ flows' = ObserveGenuine(f, seq)
      /\ genLag' = LagAfter(DOMAIN flows, DOMAIN flows', genLag, f, d)
  BY ArriveFacts
<1>2. genLag \in [Flows -> 0..Half] /\ GenFlowLimit \in Nat \ {0} /\ Half \in Nat
  BY ObserversAssumption, SpaceFacts DEF Inv, GenType, ObserversAssumption
<1>3. \A e \in 0..(d - 1) : (top[f] - e) % SeqSpace # seq
  <2> SUFFICES ASSUME NEW e \in 0..(d - 1) PROVE (top[f] - e) % SeqSpace # seq
    OBVIOUS
  <2>1. e \in 0..Half /\ d \in 0..Half /\ e < d
    BY <1>1, <1>2
  <2> QED
    BY <1>1, <2>1, Different
<1> HIDE DEF seq
<1>4. CASE f \notin DOMAIN flows
  <2>1. ~Repeated(f, seq) /\ flows' = Enter(flows, GenFlowLimit, f, Entry(f, seq))
    BY <1>1, <1>4 DEF ObserveGenuine, Repeated, Entry
  <2>2. /\ DOMAIN flows' \subseteq DOMAIN flows \cup {f}
        /\ f \in DOMAIN flows' /\ flows'[f] = Entry(f, seq)
        /\ \A g \in DOMAIN flows' \ {f} : g \in DOMAIN flows /\ flows'[g] = flows[g]
        /\ IsFiniteSet(DOMAIN flows') /\ Cardinality(DOMAIN flows') <= GenFlowLimit
    BY <1>2, <1>4, <2>1, Entered DEF Inv, GenType
  <2>3. /\ genLag' \in [Flows -> 0..Half] /\ genLag'[f] = d
        /\ \A g \in Flows \cap DOMAIN flows' : g # f => genLag'[g] = genLag[g]
    <3>1. /\ LagAfter(DOMAIN flows, DOMAIN flows', genLag, f, d) \in [Flows -> 0..Half]
          /\ LagAfter(DOMAIN flows, DOMAIN flows', genLag, f, d)[f] = d
          /\ \A g \in Flows \cap DOMAIN flows' : g # f =>
                LagAfter(DOMAIN flows, DOMAIN flows', genLag, f, d)[g] = genLag[g]
      <4>1. f \in DOMAIN flows'
        BY <2>2
      <4>2. f \notin DOMAIN flows /\ genLag \in [Flows -> 0..Half]
        BY <1>2, <1>4
      <4>3. LagAfter(DOMAIN flows, DOMAIN flows', genLag, f, d) \in [Flows -> 0..Half]
        BY <4>1, <4>2, LagIs
      <4>4. LagAfter(DOMAIN flows, DOMAIN flows', genLag, f, d)[f] = d
        BY <4>1, <4>2 DEF LagAfter
      <4>5. \A g \in Flows \cap DOMAIN flows' : g # f =>
                LagAfter(DOMAIN flows, DOMAIN flows', genLag, f, d)[g] = genLag[g]
        BY <4>1, <4>2 DEF LagAfter
      <4> QED
        BY <4>3, <4>4, <4>5
    <3> QED
      BY <1>1, <3>1, Zenon
  <2>4. /\ Entry(f, seq) \in preSendFlow /\ RingOK(Entry(f, seq))
        /\ Entry(f, seq).count >= 1 /\ Entry(f, seq).in \subseteq {seq}
        /\ Entry(f, seq).maxSeq = seq
    BY <1>1, <1>4, <2>1, EntryOK
  <2>5. GenType'
    BY <2>2, <2>3, <2>4 DEF Inv, GenType
  <2>6. GenMark'
    BY <1>1, <2>2, <2>3, <2>4 DEF Inv, GenType, GenMark, seq
  <2>7. Unseen'
    BY <1>1, <1>3, <2>2, <2>3, <2>4 DEF Inv, GenType, Unseen
  <2> QED
    BY <2>5, <2>6, <2>7
<1>5. CASE f \in DOMAIN flows
  <2>1. /\ Repeated(f, seq) => flows' = flows
        /\ ~Repeated(f, seq) => flows' = [flows EXCEPT ![f] = Entry(f, seq)]
    BY <1>1, <1>5 DEF ObserveGenuine, Entry
  <2>2. /\ DOMAIN flows' = DOMAIN flows
        /\ \A g \in DOMAIN flows : g # f => flows'[g] = flows[g]
        /\ flows'[f] = IF Repeated(f, seq) THEN flows[f] ELSE Entry(f, seq)
    BY <1>5, <2>1
  <2>3. /\ genLag' \in [Flows -> 0..Half]
        /\ genLag'[f] = IF genLag[f] = Half THEN Half
                        ELSE IF genLag[f] > d THEN d ELSE genLag[f]
        /\ \A g \in Flows \cap DOMAIN flows' : g # f => genLag'[g] = genLag[g]
    <3>1. /\ LagAfter(DOMAIN flows, DOMAIN flows', genLag, f, d) \in [Flows -> 0..Half]
          /\ LagAfter(DOMAIN flows, DOMAIN flows', genLag, f, d)[f] =
                IF genLag[f] = Half THEN Half ELSE IF genLag[f] > d THEN d ELSE genLag[f]
          /\ \A g \in Flows \cap DOMAIN flows' : g # f =>
                LagAfter(DOMAIN flows, DOMAIN flows', genLag, f, d)[g] = genLag[g]
      <4>1. f \in DOMAIN flows'
        BY <1>5, <2>2
      <4> QED
        BY <1>2, <1>5, <4>1, LagIs
    <3> QED
      BY <1>1, <3>1, Zenon
  <2>4. ~Repeated(f, seq) =>
          /\ Entry(f, seq) \in preSendFlow /\ RingOK(Entry(f, seq))
          /\ Entry(f, seq).count >= 1
          /\ Entry(f, seq).in \subseteq flows[f].in \cup {seq}
          /\ Below(seq, flows[f].maxSeq) => Entry(f, seq).maxSeq = flows[f].maxSeq
          /\ ~Below(seq, flows[f].maxSeq) => Entry(f, seq).maxSeq = seq
    BY <1>1, <1>5, EntryOK
  <2>5. GenType'
    BY <1>5, <2>2, <2>3, <2>4 DEF Inv, GenType
  <2>6. genLag[f] < Half =>
          /\ flows'[f].maxSeq = (top[f] - genLag'[f]) % SeqSpace
          /\ \A e \in 0..(genLag'[f] - 1) : (top[f] - e) % SeqSpace \notin flows'[f].in
    <3> SUFFICES ASSUME genLag[f] < Half
                 PROVE  /\ flows'[f].maxSeq = (top[f] - genLag'[f]) % SeqSpace
                        /\ \A e \in 0..(genLag'[f] - 1) :
                              (top[f] - e) % SeqSpace \notin flows'[f].in
      OBVIOUS
    <3>1. /\ genLag[f] \in 0..(Half - 1)
          /\ flows[f].maxSeq = (top[f] - genLag[f]) % SeqSpace
          /\ \A e \in 0..(genLag[f] - 1) : (top[f] - e) % SeqSpace \notin flows[f].in
      BY <1>2, <1>5 DEF Inv, GenMark, Unseen
    <3>2. Below(seq, flows[f].maxSeq) <=> d > genLag[f]
      BY <1>1, <3>1, Compare DEF seq
    <3>3. CASE Repeated(f, seq)
      <4>1. d >= genLag[f]
        <5>1. seq \in flows[f].in
          BY <3>3 DEF Repeated
        <5>2. d < genLag[f] => d \in 0..(genLag[f] - 1)
          BY <1>1, <3>1
        <5> QED
          BY <1>1, <3>1, <5>1, <5>2 DEF seq
      <4>2. genLag'[f] = genLag[f]
        BY <1>1, <1>2, <2>3, <3>1, <4>1
      <4> QED
        BY <2>2, <3>1, <3>3, <4>2
    <3>4. CASE ~Repeated(f, seq) /\ d > genLag[f]
      <4>1. genLag'[f] = genLag[f] /\ flows'[f] = Entry(f, seq)
        BY <1>1, <1>2, <2>2, <2>3, <3>1, <3>4
      <4>2. flows'[f].maxSeq = (top[f] - genLag'[f]) % SeqSpace
        BY <2>4, <3>1, <3>2, <3>4, <4>1
      <4>3. 0..(genLag[f] - 1) \subseteq 0..(d - 1)
        BY <1>1, <3>1, <3>4
      <4> QED
        BY <1>3, <2>4, <3>1, <3>4, <4>1, <4>2, <4>3
    <3>5. CASE ~Repeated(f, seq) /\ d <= genLag[f]
      <4>1. genLag'[f] = d /\ flows'[f] = Entry(f, seq)
        BY <1>1, <1>2, <2>2, <2>3, <3>1, <3>5
      <4>2. flows'[f].maxSeq = (top[f] - genLag'[f]) % SeqSpace
        <5>1. ~Below(seq, flows[f].maxSeq)
          BY <1>1, <3>1, <3>2, <3>5
        <5> QED
          BY <2>4, <3>5, <4>1, <5>1 DEF seq
      <4>3. 0..(d - 1) \subseteq 0..(genLag[f] - 1)
        BY <1>1, <3>1, <3>5
      <4> QED
        BY <1>3, <2>4, <3>1, <3>5, <4>1, <4>2, <4>3
    <3> QED
      BY <1>1, <3>1, <3>3, <3>4, <3>5
  <2>7. GenMark'
    BY <1>1, <1>2, <1>5, <2>2, <2>3, <2>6 DEF Inv, GenType, GenMark
  <2>8. Unseen'
    BY <1>1, <1>2, <1>5, <2>2, <2>3, <2>6 DEF Inv, GenType, Unseen
  <2> QED
    BY <2>5, <2>7, <2>8
<1> QED
  BY <1>4, <1>5

LEMMA ArriveInv ==
    ASSUME Inv, NEW f \in Flows, NEW d \in 0..MaxLate, Arrive(f, d)
    PROVE  Inv'
<1>1. counted' \in SUBSET Counters
  BY ArriveFacts DEF Count, Counters
<1> QED
  BY <1>1, ArriveFacts, ArrivePre, ArriveGen DEF Inv

----------------------------------------------------------------------------
(* Segments that are not observed *)

\* After a segment is sent, every earlier one is one further behind.
LEMMA Shift ==
    ASSUME NEW t \in Int, NEW e \in Int
    PROVE  (((t + 1) % SeqSpace) - (e + 1)) % SeqSpace = (t - e) % SeqSpace
<1>1. t + 1 \in Int /\ e + 1 \in Int /\ (t + 1) - (e + 1) = t - e
  OBVIOUS
<1>2. (((t + 1) % SeqSpace) - (e + 1)) % SeqSpace = ((t + 1) - (e + 1)) % SeqSpace
  BY <1>1, SpaceFacts, ModMinusLeft, Zenon
<1> QED
  BY <1>1, <1>2, Zenon

LEMMA OlderIs ==
    ASSUME NEW known, NEW old \in [Flows -> 0..Half], NEW f \in Flows
    PROVE  /\ Older(known, old, f) \in [Flows -> 0..Half]
           /\ \A g \in Flows : g # f => Older(known, old, f)[g] = old[g]
           /\ f \in known /\ Older(known, old, f)[f] < Half =>
                 old[f] < Half /\ Older(known, old, f)[f] = old[f] + 1
<1>1. Half \in Nat
  BY SpaceFacts
<1> QED
  BY <1>1 DEF Older

LEMMA SendInv ==
    ASSUME Inv, NEW f \in Flows, Send(f)
    PROVE  Inv'
<1>1. /\ top' = [top EXCEPT ![f] = (@ + 1) % SeqSpace]
      /\ lag' = Older(DOMAIN maxSeq, lag, f) /\ genLag' = Older(DOMAIN flows, genLag, f)
      /\ UNCHANGED <<shouldLog, maxSeq, flows, counted>>
  BY DEF Send
<1>2. top \in [Flows -> SeqNos] /\ top[f] \in Int /\ Half \in Nat
  BY SpaceFacts DEF Inv, SeqNos
<1>3. (top[f] + 1) % SeqSpace \in SeqNos
  <2>1. top[f] + 1 \in Int
    BY <1>2
  <2> QED
    BY <2>1, SpaceFacts, ModRange DEF SeqNos
<1>4. /\ lag' \in [Flows -> 0..Half] /\ lag \in [Flows -> 0..Half]
      /\ \A g \in Flows : g # f => lag'[g] = lag[g]
      /\ f \in DOMAIN maxSeq /\ lag'[f] < Half => lag[f] < Half /\ lag'[f] = lag[f] + 1
  <2>1. lag \in [Flows -> 0..Half]
    BY DEF Inv, PreType
  <2> QED
    BY <1>1, <2>1, OlderIs
<1>5. /\ genLag' \in [Flows -> 0..Half] /\ genLag \in [Flows -> 0..Half]
      /\ \A g \in Flows : g # f => genLag'[g] = genLag[g]
      /\ f \in DOMAIN flows /\ genLag'[f] < Half =>
            genLag[f] < Half /\ genLag'[f] = genLag[f] + 1
  <2>1. genLag \in [Flows -> 0..Half]
    BY DEF Inv, GenType
  <2> QED
    BY <1>1, <2>1, OlderIs
<1>6. top' \in [Flows -> SeqNos] /\ PreType' /\ GenType'
  BY <1>1, <1>2, <1>3, <1>4, <1>5 DEF Inv, PreType, GenType
<1>7. top'[f] = (top[f] + 1) % SeqSpace /\ \A g \in Flows : g # f => top'[g] = top[g]
  BY <1>1, <1>2
<1>8. PreMark'
  <2>1. f \in DOMAIN maxSeq /\ lag'[f] < Half =>
          maxSeq[f] = (top'[f] - lag'[f]) % SeqSpace
    BY <1>2, <1>4, <1>7, Shift DEF Inv, PreMark
  <2> QED
    BY <1>1, <1>4, <1>7, <2>1 DEF Inv, PreType, PreMark
<1>9. GenMark'
  <2>1. f \in DOMAIN flows /\ genLag'[f] < Half =>
          flows[f].maxSeq = (top'[f] - genLag'[f]) % SeqSpace
    BY <1>2, <1>5, <1>7, Shift DEF Inv, GenMark
  <2> QED
    BY <1>1, <1>5, <1>7, <2>1 DEF Inv, GenType, GenMark
<1>10. Unseen'
  <2>1. ASSUME f \in DOMAIN flows, genLag'[f] < Half, NEW e \in 0..(genLag'[f] - 1)
        PROVE  (top'[f] - e) % SeqSpace \notin flows[f].in
    <3>1. genLag[f] < Half /\ genLag'[f] = genLag[f] + 1 /\ genLag[f] \in Nat
      BY <1>2, <1>5, <2>1
    <3>2. CASE e = 0
      <4>1. (top[f] + 1) % SeqSpace \notin flows[f].in
        BY <1>2, <2>1, <3>1 DEF Send, NotRound, Repeated
      <4>2. (top'[f] - 0) % SeqSpace = top'[f]
        <5>1. top'[f] \in 0..(SeqSpace - 1) /\ top'[f] - 0 = top'[f]
          BY <1>3, <1>7 DEF SeqNos
        <5> QED
          BY <5>1, SpaceFacts, ModSmall
      <4> QED
        BY <1>7, <3>2, <4>1, <4>2
    <3>3. CASE e > 0
      <4>1. e - 1 \in 0..(genLag[f] - 1) /\ e = (e - 1) + 1 /\ e - 1 \in Int
        BY <3>1, <3>3
      <4>2. (top[f] - (e - 1)) % SeqSpace \notin flows[f].in
        BY <2>1, <3>1, <4>1 DEF Inv, Unseen
      <4> QED
        BY <1>2, <1>7, <4>1, <4>2, Shift
    <3> QED
      BY <3>1, <3>2, <3>3
  <2> QED
    BY <1>1, <1>5, <1>7, <2>1 DEF Inv, GenType, Unseen
<1> QED
  BY <1>1, <1>6, <1>8, <1>9, <1>10 DEF Inv

LEMMA ReconnectInv ==
    ASSUME Inv, NEW f \in Flows, NEW isn \in SeqNos, Reconnect(f, isn)
    PROVE  Inv'
<1>1. Half \in Nat /\ Half \in 0..Half /\ 0 \in 0..Half
  BY SpaceFacts
<1>2. top' \in [Flows -> SeqNos] /\ PreType' /\ GenType'
  BY <1>1 DEF Reconnect, Inv, PreType, GenType
<1>3. /\ f \in DOMAIN maxSeq => lag'[f] = Half
      /\ f \in DOMAIN flows => genLag'[f] = Half
      /\ \A g \in Flows : g # f =>
            top'[g] = top[g] /\ lag'[g] = lag[g] /\ genLag'[g] = genLag[g]
  BY DEF Reconnect, Inv, PreType, GenType
<1>4. PreMark'
  BY <1>1, <1>3 DEF Reconnect, Inv, PreType, PreMark
<1>5. GenMark' /\ Unseen'
  BY <1>1, <1>3 DEF Reconnect, Inv, GenType, GenMark, Unseen
<1> QED
  BY <1>2, <1>4, <1>5 DEF Reconnect, Inv

----------------------------------------------------------------------------
\* Inv is an inductive invariant.
THEOREM Invariance == Spec => []Inv
<1>1. Inv /\ [Next]_vars => Inv'
  <2> SUFFICES ASSUME Inv, [Next]_vars PROVE Inv'
    OBVIOUS
  <2>1. CASE UNCHANGED vars
    BY <2>1 DEF vars, Inv, PreType, GenType, PreMark, GenMark, Unseen
  <2>2. ASSUME NEW on \in BOOLEAN, Enable(on) PROVE Inv'
    BY <2>2 DEF Enable, Inv, PreType, GenType, PreMark, GenMark, Unseen
  <2> QED
    BY <2>1, <2>2, SendInv, ArriveInv, ReconnectInv DEF Next
<1> QED
  BY <1>1, InitInv, PTL DEF Spec

\* Every table of the observers keeps its type, for every width of the sequence
\* numbers: a mark is always a sequence number and a counter always one of the five.
THEOREM TypeCorrect == Spec => []TypeOK
  BY Invariance, InvImplies, PTL

\* However many flows come and go, neither table grows past its limit, whatever
\* the limits are (reseq.go:47, 285).
THEOREM MemoryBounded == Spec => []BoundedMemory
  BY Invariance, InvImplies, PTL

\* However segments repeat and the ring wraps, the set of a flow holds what its
\* ring holds: evicting the oldest number evicts the right one (reseq.go:295-302).
THEOREM RingAgrees == Spec => []RingMirrorsSet
  BY Invariance, InvImplies, PTL

\* While a flow's mark is not half the sequence space behind, it is the furthest
\* sequence number observed, across wraps of the counter (reseq.go:51, 303).
THEOREM MarksExact == Spec => []HighWaterExact
  BY Invariance, InvImplies, PTL

LEMMA CountsRight ==
    ASSUME Inv, NEW f \in Flows, NEW d \in 0..MaxLate, Arrive(f, d)
    PROVE  /\ lag[f] < Half =>
                ("PreReseqOOO" \in counted' <=> f \in DOMAIN maxSeq /\ d > lag[f])
           /\ genLag[f] < Half /\ "PreSendGenuine" \in counted' =>
                f \in DOMAIN flows /\ d > genLag[f]
<1> DEFINE seq == (top[f] - d) % SeqSpace
<1>1. top[f] \in Int /\ d \in 0..(Half - 1) /\ seq \in SeqNos
  BY ArriveFacts
<1>2. /\ "PreReseqOOO" \in counted' <=> f \in DOMAIN maxSeq /\ Below(seq, maxSeq[f])
      /\ "PreSendGenuine" \in counted' =>
            ~Repeated(f, seq) /\ ~Raises(Remembered(f, seq), seq)
  BY DEF Arrive, Count
<1>3. Half \in Nat /\ lag[f] \in 0..Half /\ genLag[f] \in 0..Half
  BY SpaceFacts DEF Inv, PreType, GenType
<1>4. ASSUME lag[f] < Half, f \in DOMAIN maxSeq
      PROVE  Below(seq, maxSeq[f]) <=> d > lag[f]
  <2>1. lag[f] \in 0..(Half - 1) /\ maxSeq[f] = (top[f] - lag[f]) % SeqSpace
    BY <1>3, <1>4 DEF Inv, PreMark
  <2> QED
    BY <1>1, <2>1, Compare
<1>5. ASSUME genLag[f] < Half, f \in DOMAIN flows
      PROVE  Below(seq, flows[f].maxSeq) <=> d > genLag[f]
  <2>1. genLag[f] \in 0..(Half - 1) /\ flows[f].maxSeq = (top[f] - genLag[f]) % SeqSpace
    BY <1>3, <1>5 DEF Inv, GenMark
  <2> QED
    BY <1>1, <2>1, Compare
<1>6. ASSUME "PreSendGenuine" \in counted'
      PROVE  f \in DOMAIN flows /\ Below(seq, flows[f].maxSeq)
  <2>1. ~Repeated(f, seq) /\ ~Raises(Remembered(f, seq), seq)
    BY <1>2, <1>6
  <2> HIDE DEF seq
  <2> QED
    BY <1>1, <2>1, EntryOK
<1> HIDE DEF seq
<1>7. lag[f] < Half =>
        ("PreReseqOOO" \in counted' <=> f \in DOMAIN maxSeq /\ d > lag[f])
  BY <1>2, <1>4
<1> QED
  BY <1>5, <1>6, <1>7

\* While a mark is good, a segment is counted as out of order exactly when a
\* later one was seen, and as genuine reorder only then (reseq.go:51, 303).
THEOREM Counting == Spec => CountsReorder
<1>1. Inv /\ [Next]_vars =>
        [\A f \in Flows, d \in 0..MaxLate : Arrive(f, d) =>
           /\ lag[f] < Half =>
                ("PreReseqOOO" \in counted' <=> f \in DOMAIN maxSeq /\ d > lag[f])
           /\ genLag[f] < Half /\ "PreSendGenuine" \in counted' =>
                f \in DOMAIN flows /\ d > genLag[f]]_vars
  BY CountsRight
<1> QED
  BY <1>1, Invariance, PTL DEF Spec, CountsReorder
=============================================================================
