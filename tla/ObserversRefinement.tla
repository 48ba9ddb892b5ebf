------------------------- MODULE ObserversRefinement ------------------------
(***************************************************************************)
(* The ring, head, count and set of PreSendGenuineObserver implement a     *)
(* first-in first-out window of the latest numbers of each flow.           *)
(***************************************************************************)
EXTENDS ObserversProofs, Sequences

LEMMA SeqEqual ==
    ASSUME NEW S, NEW s \in Seq(S), NEW t \in Seq(S), Len(s) = Len(t),
           \A i \in 1..Len(t) : s[i] = t[i]
    PROVE  s = t
  OBVIOUS

----------------------------------------------------------------------------
(* The i-th oldest number of a flow *)

SlotOf(p, i) == (p.head - p.count + i - 1) % preSendRingSize

LEMMA SlotIs ==
    ASSUME NEW p \in preSendFlow, p.count < preSendRingSize => p.head = p.count,
           NEW i \in 1..p.count
    PROVE  /\ SlotOf(p, i) \in Slots
           /\ p.count < preSendRingSize => SlotOf(p, i) = i - 1
           /\ p.count = preSendRingSize =>
                 SlotOf(p, i) = IF p.head + i - 1 < preSendRingSize THEN p.head + i - 1
                                ELSE p.head + i - 1 - preSendRingSize
<1> DEFINE a == p.head - p.count + i - 1
<1>1. /\ preSendRingSize \in Nat \ {0} /\ p.head \in 0..(preSendRingSize - 1)
      /\ p.count \in 0..preSendRingSize /\ i \in Int /\ i >= 1 /\ i <= p.count /\ a \in Int
  BY ObserversAssumption DEF ObserversAssumption, preSendFlow, Slots
<1>2. CASE a >= 0
  <2>1. a \in 0..(preSendRingSize - 1)
    BY <1>1, <1>2
  <2>2. a % preSendRingSize = a
    BY <1>1, <2>1, ModSmall, Zenon
  <2> QED
    BY <1>1, <1>2, <2>2 DEF SlotOf, Slots
<1>3. CASE a < 0
  <2>1. -preSendRingSize <= a
    BY <1>1
  <2>2. a % preSendRingSize = a + preSendRingSize
    BY <1>1, <1>3, <2>1, ModNegative, Zenon
  <2> QED
    BY <1>1, <1>3, <2>2 DEF SlotOf, Slots
<1> QED
  BY <1>1, <1>2, <1>3

LEMMA FullSlotIs ==
    ASSUME NEW p \in preSendFlow, p.count = preSendRingSize, NEW i \in 1..p.count
    PROVE  /\ SlotOf(p, i) \in Slots
           /\ SlotOf(p, i) = IF p.head + i - 1 < preSendRingSize THEN p.head + i - 1
                             ELSE p.head + i - 1 - preSendRingSize
<1>1. p.count < preSendRingSize => p.head = p.count
  BY ObserversAssumption DEF ObserversAssumption
<1> QED
  BY <1>1, SlotIs, Zenon

LEMMA WindowIs ==
    ASSUME NEW p \in preSendFlow, RingOK(p)
    PROVE  /\ Window(p) = [i \in 1..p.count |-> p.ring[SlotOf(p, i)]]
           /\ Window(p) \in Seq(SeqNos) /\ Len(Window(p)) = p.count
           /\ \A i \in 1..p.count : Window(p)[i] = p.ring[SlotOf(p, i)]
<1>1. p.count \in Nat /\ p.ring \in [Slots -> SeqNos]
  BY ObserversAssumption DEF ObserversAssumption, preSendFlow
<1>2. Window(p) = [i \in 1..p.count |-> p.ring[SlotOf(p, i)]]
  BY DEF Window, SlotOf
<1>3. \A i \in 1..p.count : p.ring[SlotOf(p, i)] \in SeqNos
  BY <1>1, SlotIs DEF RingOK
<1> QED
  BY <1>1, <1>2, <1>3

\* The window holds what the set holds.
LEMMA WindowSet ==
    ASSUME NEW p \in preSendFlow, RingOK(p), NEW seq
    PROVE  seq \in p.in <=> \E i \in 1..Len(Window(p)) : Window(p)[i] = seq
<1>1. /\ preSendRingSize \in Nat \ {0} /\ p.head \in 0..(preSendRingSize - 1)
      /\ p.count \in 0..preSendRingSize
  BY ObserversAssumption DEF ObserversAssumption, preSendFlow, Slots
<1>2. \A i \in 1..p.count : SlotOf(p, i) \in Filled(p)
  BY <1>1, SlotIs DEF RingOK, Filled
<1>3. ASSUME NEW s \in Filled(p) PROVE \E i \in 1..p.count : SlotOf(p, i) = s
  <2>1. CASE p.count < preSendRingSize
    <3>1. s + 1 \in 1..p.count /\ (s + 1) - 1 = s
      BY <1>1, <1>3, <2>1 DEF Filled
    <3>2. SlotOf(p, s + 1) = (s + 1) - 1
      BY <2>1, <3>1, SlotIs DEF RingOK
    <3> QED
      BY <3>1, <3>2
  <2>2. CASE p.count = preSendRingSize
    <3>1. s \in Int /\ s >= 0 /\ s < preSendRingSize
      BY <1>1, <1>3, <2>2 DEF Filled, Slots
    <3>2. CASE s >= p.head
      <4>1. s - p.head + 1 \in 1..p.count /\ p.head + (s - p.head + 1) - 1 = s
        BY <1>1, <2>2, <3>1, <3>2
      <4>2. SlotOf(p, s - p.head + 1) = s
        BY <2>2, <3>1, <4>1, SlotIs DEF RingOK
      <4> QED
        BY <4>1, <4>2
    <3>3. CASE s < p.head
      <4> DEFINE k == s - p.head + 1 + preSendRingSize
      <4>1. k \in 1..p.count /\ p.head + k - 1 = s + preSendRingSize
        BY <1>1, <2>2, <3>1, <3>3
      <4>2. ~(p.head + k - 1 < preSendRingSize) /\ p.head + k - 1 - preSendRingSize = s
        BY <1>1, <3>1, <4>1
      <4> HIDE DEF k
      <4>3. SlotOf(p, k) = s
        BY <2>2, <4>1, <4>2, SlotIs DEF RingOK
      <4> QED
        BY <4>1, <4>3
    <3> QED
      BY <1>1, <3>1, <3>2, <3>3
  <2> QED
    BY <1>1, <2>1, <2>2
<1>4. /\ Len(Window(p)) = p.count
      /\ \A i \in 1..p.count : Window(p)[i] = p.ring[SlotOf(p, i)]
  BY WindowIs
<1>5. seq \in p.in <=> \E s \in Filled(p) : p.ring[s] = seq
  BY DEF RingOK
<1>6. (\E s \in Filled(p) : p.ring[s] = seq)
      <=> (\E i \in 1..p.count : p.ring[SlotOf(p, i)] = seq)
  BY <1>2, <1>3, Zenon
<1> QED
  BY <1>4, <1>5, <1>6

\* Remembering a number appends it, and drops the oldest of a full window.
LEMMA WindowAfter ==
    ASSUME NEW p \in preSendFlow, RingOK(p), NEW seq \in SeqNos, seq \notin p.in
    PROVE  Window(Remember(p, seq)) =
             IF Len(Window(p)) = preSendRingSize THEN Append(Tail(Window(p)), seq)
             ELSE Append(Window(p), seq)
<1> DEFINE r == Remember(p, seq)
           w == Window(p)
           v == Window(r)
           n == IF p.count = preSendRingSize THEN Append(Tail(w), seq) ELSE Append(w, seq)
<1>1. /\ preSendRingSize \in Nat /\ preSendRingSize > 1
      /\ p.head \in 0..(preSendRingSize - 1) /\ p.count \in 0..preSendRingSize
      /\ p.head \in Slots /\ p.ring \in [Slots -> SeqNos]
      /\ p.count < preSendRingSize => p.head = p.count
  BY ObserversAssumption DEF ObserversAssumption, preSendFlow, Slots, RingOK
<1>2. r \in preSendFlow /\ RingOK(r)
  BY RememberOK
<1>3. /\ p.count = preSendRingSize => r.count = p.count
      /\ p.count # preSendRingSize => r.count = p.count + 1
      /\ r.ring = [p.ring EXCEPT ![p.head] = seq] /\ r.head = NextSlot(p.head)
  BY RememberIs, Zenon
<1>4. /\ w \in Seq(SeqNos) /\ Len(w) = p.count
      /\ \A i \in 1..p.count : w[i] = p.ring[SlotOf(p, i)]
  BY WindowIs
<1> HIDE DEF r
<1>5. /\ v \in Seq(SeqNos) /\ Len(v) = r.count
      /\ \A i \in 1..r.count : v[i] = r.ring[SlotOf(r, i)]
  BY <1>2, WindowIs
<1> HIDE DEF w, v
<1>6. /\ r.head \in 0..(preSendRingSize - 1)
      /\ p.head < preSendRingSize - 1 => r.head = p.head + 1
      /\ p.head = preSendRingSize - 1 => r.head = 0
  BY <1>1, <1>3, NextSlotIs DEF Slots
<1>7. CASE p.count = preSendRingSize
  <2>1. /\ n \in Seq(SeqNos) /\ Len(n) = p.count /\ n[p.count] = seq
        /\ \A i \in 1..(p.count - 1) : n[i] = w[i + 1]
    BY <1>1, <1>4, <1>7
  <2>2. ASSUME NEW i \in 1..(p.count - 1) PROVE v[i] = w[i + 1]
    <3>1. i \in 1..r.count /\ i + 1 \in 1..p.count
      BY <1>1, <1>3, <1>7
    <3>2. /\ SlotOf(r, i) = IF r.head + i - 1 < preSendRingSize THEN r.head + i - 1
                            ELSE r.head + i - 1 - preSendRingSize
          /\ SlotOf(r, i) \in Slots
      <4>1. r.count = preSendRingSize
        BY <1>3, <1>7
      <4> QED
        BY <1>2, <3>1, <4>1, FullSlotIs, Zenon
    <3>3. SlotOf(p, i + 1) = IF p.head + (i + 1) - 1 < preSendRingSize
                             THEN p.head + (i + 1) - 1
                             ELSE p.head + (i + 1) - 1 - preSendRingSize
      BY <1>7, <3>1, FullSlotIs, Zenon
    <3>4. SlotOf(r, i) = SlotOf(p, i + 1) /\ SlotOf(r, i) # p.head
      BY <1>1, <1>6, <1>7, <3>2, <3>3
    <3>5. r.ring[SlotOf(r, i)] = p.ring[SlotOf(r, i)]
      BY <1>1, <1>3, <3>2, <3>4
    <3> QED
      BY <1>4, <1>5, <3>1, <3>4, <3>5
  <2>3. v[p.count] = seq
    <3>1. p.count \in 1..r.count
      BY <1>1, <1>3, <1>7
    <3>2. SlotOf(r, p.count) = IF r.head + p.count - 1 < preSendRingSize
                               THEN r.head + p.count - 1
                               ELSE r.head + p.count - 1 - preSendRingSize
      BY <1>2, <1>3, <1>7, <3>1, SlotIs
    <3>3. SlotOf(r, p.count) = p.head
      BY <1>1, <1>6, <1>7, <3>2
    <3> QED
      BY <1>1, <1>3, <1>5, <3>1, <3>3
  <2>4. Len(v) = Len(n) /\ \A i \in 1..Len(n) : v[i] = n[i]
    <3>1. Len(v) = p.count /\ Len(n) = p.count
      BY <1>3, <1>5, <1>7, <2>1
    <3>2. \A i \in 1..p.count : i = p.count \/ i \in 1..(p.count - 1)
      BY <1>1
    <3> QED
      BY <2>1, <2>2, <2>3, <3>1, <3>2
  <2> HIDE DEF n
  <2>5. v = n
    BY <1>5, <2>1, <2>4, SeqEqual
  <2> QED
    BY <1>4, <1>7, <2>5 DEF n, v, w, r
<1>8. CASE p.count # preSendRingSize
  <2>1. /\ n \in Seq(SeqNos) /\ Len(n) = p.count + 1 /\ n[p.count + 1] = seq
        /\ \A i \in 1..p.count : n[i] = w[i]
    BY <1>1, <1>4, <1>8
  <2>2. \A i \in 1..r.count : SlotOf(r, i) = i - 1 /\ SlotOf(r, i) \in Slots
    <3>1. CASE r.count < preSendRingSize
      BY <1>2, <3>1, SlotIs DEF RingOK
    <3>2. CASE r.count = preSendRingSize
      <4>1. r.head = 0
        BY <1>1, <1>3, <1>6, <1>8, <3>2
      <4>2. ASSUME NEW i \in 1..r.count PROVE SlotOf(r, i) = i - 1 /\ SlotOf(r, i) \in Slots
        <5>1. 0 + i - 1 = i - 1 /\ i - 1 < preSendRingSize
          BY <1>1, <3>2
        <5>2. /\ SlotOf(r, i) \in Slots
              /\ SlotOf(r, i) = IF r.head + i - 1 < preSendRingSize THEN r.head + i - 1
                                ELSE r.head + i - 1 - preSendRingSize
          BY <1>2, <3>2, <4>2, FullSlotIs, Zenon
        <5> QED
          BY <4>1, <5>1, <5>2
      <4> QED
        BY <4>2
    <3> QED
      BY <1>1, <1>3, <1>8, <3>1, <3>2
  <2>3. ASSUME NEW i \in 1..p.count PROVE v[i] = w[i]
    <3>1. i \in 1..r.count /\ SlotOf(p, i) = i - 1 /\ i - 1 # p.head
      BY <1>1, <1>3, <1>8, SlotIs
    <3> QED
      BY <1>1, <1>3, <1>4, <1>5, <2>2, <3>1
  <2>4. v[p.count + 1] = seq
    <3>1. p.count + 1 \in 1..r.count /\ (p.count + 1) - 1 = p.head
      BY <1>1, <1>3, <1>8
    <3> QED
      BY <1>1, <1>3, <1>5, <2>2, <3>1
  <2>5. Len(v) = Len(n) /\ \A i \in 1..Len(n) : v[i] = n[i]
    <3>1. Len(v) = p.count + 1 /\ Len(n) = p.count + 1
      BY <1>3, <1>5, <1>8, <2>1
    <3>2. \A i \in 1..(p.count + 1) : i = p.count + 1 \/ i \in 1..p.count
      BY <1>1
    <3> QED
      BY <2>1, <2>3, <2>4, <3>1, <3>2
  <2> HIDE DEF n
  <2>6. v = n
    BY <1>5, <2>1, <2>5, SeqEqual
  <2> QED
    BY <1>4, <1>8, <2>6 DEF n, v, w, r
<1> QED
  BY <1>7, <1>8
----------------------------------------------------------------------------
(* Every step of the observers is one of the windows, or changes none. *)

LEMMA EntryWindow ==
    ASSUME Inv, NEW f \in Flows, NEW seq \in SeqNos, ~Repeated(f, seq)
    PROVE  Window(Entry(f, seq)) =
             IF f \in DOMAIN flows THEN W!After(Window(flows[f]), seq) ELSE <<seq>>
<1> DEFINE p == IF f \in DOMAIN flows THEN flows[f] ELSE NewFlow
           r == Remembered(f, seq)
<1>1. /\ p \in preSendFlow /\ RingOK(p) /\ seq \notin p.in /\ r = Remember(p, seq)
      /\ r \in preSendFlow
  BY FlowAfter
<1>2. Window(Entry(f, seq)) = Window(r)
  <2> HIDE DEF r
  <2> DEFINE q == [r EXCEPT !.maxSeq = seq]
  <2>1. q.count = r.count /\ q.ring = r.ring /\ q.head = r.head
    BY <1>1 DEF preSendFlow
  <2> HIDE DEF q
  <2>2. Window(q) = Window(r)
    BY <2>1 DEF Window
  <2> QED
    BY <2>2 DEF Entry, q, r
<1>3. ~ \E i \in 1..Len(Window(p)) : Window(p)[i] = seq
  <2> HIDE DEF p, r
  <2> QED
    BY <1>1, WindowSet
<1>4. Window(r) = IF Len(Window(p)) = preSendRingSize THEN Append(Tail(Window(p)), seq)
                  ELSE Append(Window(p), seq)
  <2> HIDE DEF p, r
  <2> QED
    BY <1>1, WindowAfter
<1>5. CASE f \in DOMAIN flows
  BY <1>2, <1>3, <1>4, <1>5, Zenon DEF W!After
<1>6. CASE f \notin DOMAIN flows
  <2>1. p = NewFlow
    BY <1>6
  <2>2. p.count = 0 /\ preSendRingSize # 0
    BY <2>1, NewFlowOK, ObserversAssumption DEF ObserversAssumption
  <2> HIDE DEF p, r
  <2>3. Window(p) \in Seq(SeqNos) /\ Len(Window(p)) = 0
    BY <1>1, <2>2, WindowIs
  <2>4. Window(p) = <<>>
    BY <2>3
  <2>5. Window(r) = <<seq>>
    BY <1>4, <2>2, <2>3, <2>4
  <2> QED
    BY <1>2, <1>6, <2>5
<1> QED
  BY <1>5, <1>6

LEMMA ArriveSees ==
    ASSUME Inv, NEW f \in Flows, NEW d \in 0..MaxLate, Arrive(f, d)
    PROVE  W!SeenNext
<1> DEFINE seq == (top[f] - d) % SeqSpace
           ws == [g \in DOMAIN flows |-> Window(flows[g])]
<1>1. seq \in SeqNos /\ flows' = ObserveGenuine(f, seq) /\ counted' = Count(f, seq)
  BY ArriveFacts DEF Arrive
<1> HIDE DEF seq
<1>2. Repeated(f, seq) <=>
        f \in DOMAIN flows /\ \E i \in 1..Len(ws[f]) : ws[f][i] = seq
  <2>1. CASE f \in DOMAIN flows
    <3>1. flows[f] \in preSendFlow /\ RingOK(flows[f]) /\ ws[f] = Window(flows[f])
      BY <2>1 DEF Inv, GenType
    <3>2. seq \in flows[f].in <=>
            \E i \in 1..Len(Window(flows[f])) : Window(flows[f])[i] = seq
      BY <3>1, WindowSet
    <3> QED
      BY <2>1, <3>1, <3>2 DEF Repeated
  <2> QED
    BY <2>1 DEF Repeated
<1>3. "PreSendRetr" \in counted' <=> Repeated(f, seq)
  BY <1>1 DEF Count
<1>4. CASE f \in DOMAIN flows
  <2>1. ws' = [ws EXCEPT ![f] = W!After(@, seq)]
    <3>1. CASE Repeated(f, seq)
      <4>1. flows' = flows
        BY <1>1, <3>1 DEF ObserveGenuine
      <4>2. ws' = ws
        BY <4>1
      <4>3. W!After(ws[f], seq) = ws[f]
        BY <1>2, <3>1 DEF W!After
      <4> QED
        BY <4>2, <4>3
    <3>2. CASE ~Repeated(f, seq)
      <4>1. flows' = [flows EXCEPT ![f] = Entry(f, seq)]
        BY <1>1, <1>4, <3>2 DEF ObserveGenuine, Entry
      <4>2. Window(Entry(f, seq)) = W!After(Window(flows[f]), seq)
        BY <1>1, <1>4, <3>2, EntryWindow
      <4>3. /\ DOMAIN flows' = DOMAIN flows /\ flows'[f] = Entry(f, seq)
            /\ \A g \in DOMAIN flows : g # f => flows'[g] = flows[g]
        BY <1>4, <4>1
      <4>4. /\ DOMAIN ws' = DOMAIN ws
            /\ \A g \in DOMAIN ws : ws'[g] = IF g = f THEN W!After(ws[f], seq) ELSE ws[g]
        BY <1>4, <4>2, <4>3, Zenon
      <4> QED
        BY <1>4, <4>4
    <3> QED
      BY <3>1, <3>2
  <2> QED
    BY <1>1, <1>2, <1>3, <1>4, <2>1 DEF W!SeenNext, W!See, W!Known
<1>5. CASE f \notin DOMAIN flows
  <2>1. ~Repeated(f, seq) /\ flows' = Enter(flows, GenFlowLimit, f, Entry(f, seq))
    BY <1>1, <1>5 DEF ObserveGenuine, Repeated, Entry
  <2>2. Window(Entry(f, seq)) = <<seq>>
    BY <1>1, <1>5, <2>1, EntryWindow
  <2>3. PICK kept \in {DOMAIN flows, {}} :
          flows' = [g \in kept \cup {f} |-> IF g = f THEN Entry(f, seq) ELSE flows[g]]
    BY <2>1 DEF Enter, MakeRoom
  <2>4. ws' = [g \in kept \cup {f} |-> IF g = f THEN <<seq>> ELSE ws[g]]
    <3>1. DOMAIN flows' = kept \cup {f}
      BY <2>3
    <3>2. ASSUME NEW g \in kept \cup {f}
          PROVE  Window(flows'[g]) = IF g = f THEN <<seq>> ELSE ws[g]
      <4>1. flows'[g] = IF g = f THEN Entry(f, seq) ELSE flows[g]
        BY <2>3
      <4>2. g # f => g \in DOMAIN flows
        BY <2>3
      <4> QED
        BY <2>2, <4>1, <4>2, Zenon
    <3> QED
      BY <3>1, <3>2, Zenon
  <2> QED
    BY <1>1, <1>2, <1>3, <1>5, <2>4 DEF W!SeenNext, W!See, W!Known
<1> QED
  BY <1>4, <1>5

\* Ring, head, count and set remember the latest preSendRingSize numbers of
\* each flow in order, and exactly those count as retransmissions
\* (reseq.go:291-302), for every size of ring.
THEOREM WindowRefinement == Spec => ImplementsSeenWindow
<1>1. Init => W!SeenInit
  <2> SUFFICES ASSUME Init PROVE W!SeenInit
    OBVIOUS
  <2>1. DOMAIN flows = {} /\ "PreSendRetr" \notin counted
    BY DEF Init
  <2>2. [f \in DOMAIN flows |-> Window(flows[f])] = <<>>
    BY <2>1
  <2> QED
    BY <2>1, <2>2 DEF W!SeenInit
<1>2. Inv /\ [Next]_vars => [W!SeenNext]_(W!seenVars)
  <2> SUFFICES ASSUME Inv, [Next]_vars PROVE [W!SeenNext]_(W!seenVars)
    OBVIOUS
  <2>1. CASE UNCHANGED <<flows, counted>>
    BY <2>1 DEF W!seenVars
  <2> QED
    BY <2>1, ArriveSees DEF Next, Send, Reconnect, Enable, vars
<1> QED
  BY <1>1, <1>2, Invariance, PTL DEF Spec, ImplementsSeenWindow, W!SeenSpec
=============================================================================
