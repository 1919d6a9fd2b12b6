------------------------ MODULE SPSCRingBufferProofs ------------------------
(***************************************************************************)
(* For every capacity and every batch size: the two sides of the ring never *)
(* touch one slot at the same time, and the ring implements BoundedFIFO.    *)
(***************************************************************************)
EXTENDS SPSCRingBuffer, TLAPS, SequenceTheorems

\* How the indices, and each side's last view of the other side's index, are ordered.
\* A stale view is always on the safe side.
Indices ==
    /\ seen_r <= read_pos /\ read_pos <= seen_w /\ seen_w <= write_pos
    /\ write_pos <= seen_r + Capacity
    /\ (ppc = "write" => write_pos + Len(pitems) <= seen_r + Capacity)
    /\ (cpc = "read" => Len(citems) <= cn /\ read_pos + cn <= seen_w)
    /\ (ppc = "new" => write_pos = 0)

\* What is already written of a push, and already copied by a pop.
Transfers ==
    /\ ppc = "write" => \A j \in 1 .. pi : data[Slot(write_pos + j - 1)] = pitems[j]
    /\ cpc = "read" =>
          \A j \in 1 .. Len(citems) : citems[j] = data[Slot(read_pos + j - 1)]

-----------------------------------------------------------------------------
(* The slot of a position, position % Capacity.                             *)

\* A position's slot is a slot of the ring.
LEMMA SlotInRing ==
    ASSUME NEW N \in Nat \ {0}, NEW a \in Nat
    PROVE  a % N \in 0 .. N - 1
OBVIOUS

\* Two positions less than a ring apart that share a slot are the same position.
LEMMA SlotUnique ==
    ASSUME NEW N \in Nat \ {0}, NEW a \in Nat, NEW b \in Nat,
           a % N = b % N, a <= b, b < a + N
    PROVE  a = b
<1> DEFINE qa == a \div N
           qb == b \div N
<1>1. /\ a = N * qa + (a % N) /\ qa \in Int
      /\ b = N * qb + (b % N) /\ qb \in Int
  OBVIOUS
<1>2. b - a = N * (qb - qa)
  BY <1>1
<1>3. ASSUME qb - qa >= 1 PROVE FALSE
  <2>1. N * (qb - qa) >= N
    BY <1>1, <1>3
  <2> QED BY <2>1, <1>2
<1>4. ASSUME qb - qa <= -1 PROVE FALSE
  <2>1. N * (qb - qa) <= -N
    BY <1>1, <1>4
  <2> QED BY <2>1, <1>2
<1>5. qb = qa
  BY <1>1, <1>3, <1>4
<1> QED BY <1>1, <1>5

-----------------------------------------------------------------------------
(* Types and indices.                                                       *)

\* What push_batch takes of a batch is a part of it, no longer than the space.
LEMMA CutType ==
    ASSUME NEW S, NEW s \in Seq(S), NEW n \in Nat
    PROVE  /\ SubSeq(s, 1, Least(Len(s), n)) \in Seq(S)
           /\ Len(SubSeq(s, 1, Least(Len(s), n))) <= n
           /\ Len(SubSeq(s, 1, Least(Len(s), n))) \in Nat
<1> DEFINE m == Least(Len(s), n)
<1>1. m \in Nat /\ m <= Len(s) /\ m <= n
  BY DEF Least
<1>2. SubSeq(s, 1, m) \in Seq(S) /\ Len(SubSeq(s, 1, m)) = m
  <2> HIDE DEF m
  <2> QED BY <1>1
<1> QED BY <1>1, <1>2

\* The slot of a position is a slot.
LEMMA SlotType == ASSUME NEW k \in Nat PROVE Slot(k) \in Slots
BY CapacityAssumption, SlotInRing DEF Slot, Slots

\* A batch is a sequence of values.
LEMMA BatchType == Batches \subseteq Seq(Values)
<1> SUFFICES ASSUME NEW b \in Batches PROVE b \in Seq(Values)
  OBVIOUS
<1>1. PICK n \in 0 .. MaxBatch : b \in [1 .. n -> Values]
  BY DEF Batches
<1>2. n \in Nat
  BY BatchAssumption
<1> QED BY <1>1, <1>2, SeqDef

\* A new ring is empty.
LEMMA IndexInit == Init => TypeOK /\ Indices
BY CapacityAssumption DEF Init, TypeOK, Indices, Contents, Slots

\* push reads the other side's index: its view moves forward, and what it will write fits.
LEMMA BeginPushIndices ==
    ASSUME TypeOK, Indices, NEW items \in Seq(Values), NEW r \in seen_r .. read_pos,
           BeginPush(items, r)
    PROVE  TypeOK' /\ Indices'
<1> DEFINE room == Capacity - (write_pos - r)
<1>1. room \in Nat /\ write_pos + room = r + Capacity
  BY CapacityAssumption DEF TypeOK, Indices
<1>2. pitems' \in Seq(Values) /\ Len(pitems') <= room /\ Len(pitems') \in Nat
  <2> HIDE DEF room
  <2>1. pitems' = SubSeq(items, 1, Least(Len(items), room))
    BY DEF BeginPush, room
  <2> QED BY <1>1, <2>1, CutType, Zenon
<1>3. TypeOK'
  BY <1>2 DEF TypeOK, BeginPush, consumerVars
<1>4. Indices'
  BY <1>1, <1>2, CapacityAssumption DEF TypeOK, Indices, BeginPush, consumerVars
<1> QED BY <1>3, <1>4

\* pop reads the other side's index: its view moves forward, and what it will read is there.
LEMMA BeginPopIndices ==
    ASSUME TypeOK, Indices, NEW k \in Nat, NEW w \in seen_w .. write_pos,
           BeginPop(k, w)
    PROVE  TypeOK' /\ Indices'
<1>1. cn' \in Nat /\ read_pos + cn' <= w /\ w \in Nat
  BY DEF TypeOK, Indices, BeginPop, Least
<1>2. Len(citems') = 0 /\ citems' \in Seq(Contents)
  BY DEF BeginPop
<1>3. TypeOK'
  BY <1>1, <1>2 DEF TypeOK, BeginPop, producerVars
<1>4. Indices'
  BY <1>1, <1>2, CapacityAssumption DEF TypeOK, Indices, BeginPop, producerVars
<1> QED BY <1>3, <1>4

\* Every step of push and pop keeps the indices in order.
LEMMA IndexNext == ASSUME TypeOK, Indices, [Next]_vars PROVE TypeOK' /\ Indices'
<1> USE CapacityAssumption
<1>1. CASE ConstructInit
  <2>1. TypeOK'
    BY <1>1 DEF TypeOK, ConstructInit, consumerVars, Contents, Slots
  <2>2. Indices'
    BY <1>1 DEF TypeOK, Indices, ConstructInit, consumerVars
  <2> QED BY <2>1, <2>2
<1>2. CASE PushWrite
  <2>1. pitems[pi + 1] \in Contents
    BY <1>2 DEF TypeOK, PushWrite, Contents
  <2>2. Slot(write_pos + pi) \in Slots
    BY SlotType DEF TypeOK
  <2>3. data' \in [Slots -> Contents]
    BY <1>2, <2>1, <2>2 DEF TypeOK, PushWrite
  <2>4. TypeOK'
    BY <1>2, <2>3 DEF TypeOK, PushWrite, consumerVars
  <2>5. Indices'
    BY <1>2 DEF TypeOK, Indices, PushWrite, consumerVars
  <2> QED BY <2>4, <2>5
<1>3. CASE PushPublish
  <2>1. TypeOK'
    BY <1>3 DEF TypeOK, PushPublish, consumerVars
  <2>2. Indices'
    BY <1>3 DEF TypeOK, Indices, PushPublish, consumerVars
  <2> QED BY <2>1, <2>2
<1>4. ASSUME NEW r \in seen_r .. read_pos, PushFull(r) PROVE TypeOK' /\ Indices'
  <2>1. TypeOK'
    BY <1>4 DEF TypeOK, PushFull, consumerVars
  <2>2. Indices'
    BY <1>4 DEF TypeOK, Indices, PushFull, consumerVars
  <2> QED BY <2>1, <2>2
<1>5. ASSUME NEW r \in seen_r .. read_pos, NEW v \in Values, try_push(v, r)
      PROVE  TypeOK' /\ Indices'
  <2>1. <<v>> \in Seq(Values)
    OBVIOUS
  <2>2. CASE BeginPush(<<v>>, r)
    BY <2>1, <2>2, <1>5, BeginPushIndices, Zenon
  <2> QED BY <1>4, <1>5, <2>2, Zenon DEF try_push
<1>6. ASSUME NEW r \in seen_r .. read_pos, NEW items \in Batches, try_push_batch(items, r)
      PROVE  TypeOK' /\ Indices'
  <2>1. items \in Seq(Values)
    BY BatchType, Zenon
  <2> QED BY <2>1, <1>6, BeginPushIndices, Zenon DEF try_push_batch
<1>7. CASE Attach
  <2>1. init_failed' \in BOOLEAN
    BY <1>7, Zenon DEF TypeOK, Attach
  <2>2. /\ cpc' = "idle"
        /\ UNCHANGED <<write_pos, read_pos, data, magic, producerVars, cn, citems,
                       seen_w, popped>>
    BY <1>7, Zenon DEF Attach
  <2>3. TypeOK'
    BY <2>1, <2>2 DEF TypeOK, producerVars
  <2>4. Indices'
    BY <2>2 DEF TypeOK, Indices, producerVars
  <2> QED BY <2>3, <2>4
<1>8. CASE PopRead
  <2>1. data[Slot(read_pos + Len(citems))] \in Contents
    BY SlotType DEF TypeOK
  <2>2. citems' \in Seq(Contents) /\ Len(citems') = Len(citems) + 1
    BY <1>8, <2>1 DEF TypeOK, PopRead
  <2>3. TypeOK'
    BY <1>8, <2>2 DEF TypeOK, PopRead, producerVars
  <2>4. Indices'
    BY <1>8, <2>2 DEF TypeOK, Indices, PopRead, producerVars
  <2> QED BY <2>3, <2>4
<1>9. CASE PopRelease
  <2>1. popped' \in Seq(Contents)
    BY <1>9 DEF TypeOK, PopRelease
  <2>2. TypeOK'
    BY <1>9, <2>1 DEF TypeOK, PopRelease, producerVars
  <2>3. Indices'
    BY <1>9 DEF TypeOK, Indices, PopRelease, producerVars
  <2> QED BY <2>2, <2>3
<1>10. ASSUME NEW w \in seen_w .. write_pos, try_pop(w) PROVE TypeOK' /\ Indices'
  <2>1. CASE PopEmpty(w)
    <3>1. TypeOK'
      BY <2>1 DEF TypeOK, PopEmpty, producerVars
    <3>2. Indices'
      BY <2>1 DEF TypeOK, Indices, PopEmpty, producerVars
    <3> QED BY <3>1, <3>2
  <2>2. CASE BeginPop(1, w)
    <3>1. 1 \in Nat
      OBVIOUS
    <3> QED BY <2>2, <3>1, BeginPopIndices, Zenon
  <2> QED BY <1>10, <2>1, <2>2, Zenon DEF try_pop
<1>11. ASSUME NEW w \in seen_w .. write_pos, NEW k \in 0 .. MaxBatch, try_pop_batch(k, w)
       PROVE  TypeOK' /\ Indices'
  <2>1. k \in Nat
    BY BatchAssumption
  <2> QED BY <1>11, <2>1, BeginPopIndices, Zenon DEF try_pop_batch
<1>12. CASE UNCHANGED vars
  <2>1. TypeOK'
    BY <1>12 DEF TypeOK, vars, producerVars, consumerVars
  <2>2. Indices'
    BY <1>12 DEF Indices, vars, producerVars, consumerVars
  <2> QED BY <2>1, <2>2
<1> QED BY <1>1, <1>2, <1>3, <1>5, <1>6, <1>7, <1>8, <1>9, <1>10, <1>11, <1>12, Zenon
        DEF Next, Producer, Consumer

\* No step of either side, in any interleaving, takes the ring's state outside its
\* types; no write leaves the array of ring_buffer.hpp:125, 157.
THEOREM TypeCorrect == Spec => []TypeOK
<1>1. Init => TypeOK /\ Indices
  BY IndexInit
<1>2. TypeOK /\ Indices /\ [Next]_vars => TypeOK' /\ Indices'
  BY IndexNext
<1> QED BY <1>1, <1>2, PTL DEF Spec

\* The producer and the consumer never access one slot at the same time.
LEMMA RaceFree == TypeOK /\ Indices => NoDataRace
<1> SUFFICES ASSUME TypeOK, Indices,
                    ppc = "write", pi < Len(pitems), cpc = "read", Len(citems) < cn,
                    Slot(write_pos + pi) = Slot(read_pos + Len(citems))
             PROVE  FALSE
  BY DEF NoDataRace
<1> DEFINE a == read_pos + Len(citems)
           b == write_pos + pi
<1>1. a \in Nat /\ b \in Nat /\ a < b /\ a <= b /\ b < a + Capacity
  BY CapacityAssumption DEF TypeOK, Indices
<1>2. a % Capacity = b % Capacity
  BY DEF Slot
<1>3. a = b
  <2> HIDE DEF a, b
  <2> QED BY <1>1, <1>2, CapacityAssumption, SlotUnique, Zenon
<1> QED BY <1>1, <1>3

\* The release / acquire pairs keep the plain accesses of the two sides apart, however
\* stale the index that each side loads.
THEOREM DataRaceFreedom == Spec => []NoDataRace
<1>1. Init => TypeOK /\ Indices
  BY IndexInit
<1>2. TypeOK /\ Indices /\ [Next]_vars => TypeOK' /\ Indices'
  BY IndexNext
<1>3. TypeOK /\ Indices => NoDataRace
  BY RaceFree
<1> QED BY <1>1, <1>2, <1>3, PTL DEF Spec

\* No overrun and no underrun, with stale indices and in batch calls.
THEOREM CapacityRespected == Spec => []WithinCapacity
<1>1. Init => TypeOK /\ Indices
  BY IndexInit
<1>2. TypeOK /\ Indices /\ [Next]_vars => TypeOK' /\ Indices'
  BY IndexNext
<1>3. TypeOK /\ Indices => WithinCapacity
  BY CapacityAssumption DEF TypeOK, Indices, WithinCapacity
<1> QED BY <1>1, <1>2, <1>3, PTL DEF Spec

-----------------------------------------------------------------------------
(* Transfers in progress.                                                   *)

\* Positions less than a ring apart have different slots: push writes where pop does not read.
LEMMA OtherSlot ==
    ASSUME NEW a \in Nat, NEW b \in Nat, a < b, b < a + Capacity
    PROVE  Slot(a) # Slot(b)
<1> SUFFICES ASSUME a % Capacity = b % Capacity PROVE FALSE
  BY DEF Slot
<1>1. a <= b
  OBVIOUS
<1>2. a = b
  BY <1>1, CapacityAssumption, SlotUnique, Zenon
<1> QED BY <1>2

\* A write of the producer changes no published element and no element of its own batch
\* that is already written.
LEMMA WriteFrame ==
    ASSUME TypeOK, Indices, PushWrite,
           NEW k \in Nat, read_pos <= k, k < write_pos + pi
    PROVE  data'[Slot(k)] = data[Slot(k)]
<1>1. /\ write_pos + pi \in Nat /\ write_pos + pi < k + Capacity
      /\ data \in [Slots -> Contents]
  BY CapacityAssumption DEF TypeOK, Indices, PushWrite
<1>2. Slot(k) # Slot(write_pos + pi)
  BY <1>1, OtherSlot
<1>3. Slot(k) \in Slots
  BY SlotType
<1>4. data' = [data EXCEPT ![Slot(write_pos + pi)] = pitems[pi + 1]]
  BY DEF PushWrite
<1> QED BY <1>1, <1>2, <1>3, <1>4

\* In a new ring nothing is on its way.
LEMMA TransfersInit == Init => Transfers
BY DEF Init, Transfers

\* Neither side disturbs what the other has copied so far.
LEMMA TransfersNext ==
    ASSUME TypeOK, Indices, Transfers, [Next]_vars
    PROVE  Transfers'
<1>1. CASE ConstructInit
  BY <1>1 DEF TypeOK, Indices, Transfers, ConstructInit, consumerVars
<1>2. CASE PushWrite
  <2>1. /\ pi \in Nat /\ pi' = pi + 1 /\ pi < Len(pitems)
        /\ write_pos \in Nat /\ read_pos \in Nat /\ Len(citems) \in Nat
        /\ ppc = "write" /\ read_pos <= write_pos
        /\ UNCHANGED <<write_pos, read_pos, ppc, pitems, cpc, citems>>
        /\ cpc = "read" => read_pos + Len(citems) <= write_pos
    BY <1>2 DEF TypeOK, Indices, PushWrite, consumerVars
  <2>2. data'[Slot(write_pos + pi)] = pitems[pi + 1]
    <3>1. Slot(write_pos + pi) \in Slots
      BY <2>1, SlotType
    <3> QED BY <1>2, <3>1 DEF TypeOK, PushWrite
  <2>3. ASSUME NEW j \in 1 .. pi + 1 PROVE data'[Slot(write_pos + j - 1)] = pitems[j]
    <3>1. CASE j = pi + 1
      <4>1. write_pos + j - 1 = write_pos + pi
        BY <2>1, <3>1
      <4> QED BY <2>2, <3>1, <4>1
    <3>2. CASE j # pi + 1
      <4>1. j \in 1 .. pi /\ write_pos + j - 1 \in Nat
            /\ read_pos <= write_pos + j - 1 /\ write_pos + j - 1 < write_pos + pi
        BY <2>1, <3>2
      <4>2. data'[Slot(write_pos + j - 1)] = data[Slot(write_pos + j - 1)]
        BY <1>2, <4>1, WriteFrame
      <4>3. data[Slot(write_pos + j - 1)] = pitems[j]
        BY <2>1, <4>1 DEF Transfers
      <4> QED BY <4>2, <4>3
    <3> QED BY <3>1, <3>2
  <2>4. ASSUME cpc = "read", NEW j \in 1 .. Len(citems)
        PROVE  citems[j] = data'[Slot(read_pos + j - 1)]
    <3>1. read_pos + j - 1 \in Nat /\ read_pos <= read_pos + j - 1
          /\ read_pos + j - 1 < write_pos + pi
      BY <2>1, <2>4
    <3>2. data'[Slot(read_pos + j - 1)] = data[Slot(read_pos + j - 1)]
      BY <1>2, <3>1, WriteFrame
    <3> QED BY <2>4, <3>2 DEF Transfers
  <2> QED BY <2>1, <2>3, <2>4 DEF Transfers
<1>3. CASE PushPublish
  BY <1>3 DEF Transfers, PushPublish, consumerVars
<1>4. ASSUME NEW items, NEW r, BeginPush(items, r) PROVE Transfers'
  BY <1>4 DEF Transfers, BeginPush, consumerVars
<1>5. ASSUME NEW r, PushFull(r) PROVE Transfers'
  BY <1>5 DEF Transfers, PushFull, consumerVars
<1>6. CASE Attach
  <2>1. cpc' = "idle" /\ UNCHANGED <<write_pos, data, producerVars>>
    BY <1>6, Zenon DEF Attach
  <2> QED BY <2>1 DEF Transfers, producerVars
<1>7. CASE PopRead
  <2>1. /\ Len(citems) \in Nat /\ Len(citems') = Len(citems) + 1
        /\ \A j \in 1 .. Len(citems) : citems'[j] = citems[j]
        /\ citems'[Len(citems) + 1] = data[Slot(read_pos + Len(citems))]
    <3> DEFINE e == data[Slot(read_pos + Len(citems))]
    <3>1. citems' = Append(citems, e) /\ citems \in Seq(Contents)
      BY <1>7 DEF TypeOK, PopRead
    <3>2. e \in Contents
      BY SlotType DEF TypeOK
    <3> HIDE DEF e
    <3>3. /\ Len(citems) \in Nat /\ Len(citems') = Len(citems) + 1
          /\ \A j \in 1 .. Len(citems) : citems'[j] = citems[j]
          /\ citems'[Len(citems) + 1] = e
      BY <3>1, <3>2
    <3> QED BY <3>3 DEF e
  <2>2. /\ read_pos \in Nat /\ cpc = "read" /\ cpc' = cpc
        /\ UNCHANGED <<write_pos, read_pos, data, ppc, pitems, pi>>
    BY <1>7 DEF TypeOK, PopRead, producerVars
  <2>3. ASSUME NEW j \in 1 .. Len(citems) + 1
        PROVE  citems'[j] = data[Slot(read_pos + j - 1)]
    <3>1. CASE j = Len(citems) + 1
      <4>1. read_pos + j - 1 = read_pos + Len(citems)
        BY <2>1, <2>2, <3>1
      <4> QED BY <2>1, <3>1, <4>1
    <3>2. CASE j \in 1 .. Len(citems)
      BY <2>1, <2>2, <3>2 DEF Transfers
    <3> QED BY <2>1, <3>1, <3>2
  <2> QED BY <2>1, <2>2, <2>3 DEF Transfers
<1>8. CASE PopRelease
  BY <1>8 DEF Transfers, PopRelease, producerVars
<1>9. ASSUME NEW k, NEW w, BeginPop(k, w) PROVE Transfers'
  BY <1>9 DEF Transfers, BeginPop, producerVars
<1>10. ASSUME NEW w, PopEmpty(w) PROVE Transfers'
  BY <1>10 DEF Transfers, PopEmpty, producerVars
<1>11. CASE UNCHANGED vars
  BY <1>11 DEF Transfers, vars, producerVars, consumerVars
<1> QED BY <1>1, <1>2, <1>3, <1>4, <1>5, <1>6, <1>7, <1>8, <1>9, <1>10, <1>11, Zenon
        DEF Next, Producer, Consumer, try_push, try_push_batch, try_pop, try_pop_batch

-----------------------------------------------------------------------------
(* Refinement.                                                              *)

\* A function on 1 .. n is a sequence of length n.
LEMMA FunctionLen ==
    ASSUME NEW S, NEW n \in Nat, NEW f \in [1 .. n -> S]
    PROVE  f \in Seq(S) /\ Len(f) = n
<1>1. f \in Seq(S)
  BY SeqDef
<1> QED BY <1>1

\* What is between two positions is a sequence.
LEMMA WindowType ==
    ASSUME NEW d \in [Slots -> Contents], NEW r \in Nat, NEW w \in Nat, r <= w,
           NEW q, q = [i \in 1 .. w - r |-> d[Slot(r + i - 1)]]
    PROVE  /\ q \in Seq(Contents)
           /\ Len(q) = w - r
           /\ \A i \in 1 .. w - r : q[i] = d[Slot(r + i - 1)]
<1> DEFINE n == w - r
<1>1. n \in Nat
  OBVIOUS
<1>2. ASSUME NEW i \in 1 .. n PROVE d[Slot(r + i - 1)] \in Contents
  <2>1. r + i - 1 \in Nat
    BY <1>1
  <2> QED BY <2>1, SlotType
<1>3. q \in [1 .. n -> Contents]
  BY Zenon, <1>2
<1>4. q \in Seq(Contents) /\ Len(q) = n
  <2> HIDE DEF n
  <2> QED BY <1>1, <1>3, FunctionLen, Zenon
<1> QED BY <1>4

\* The queue that the ring stands for is what is between its two indices.
LEMMA PublishedType ==
    ASSUME TypeOK, Indices
    PROVE  /\ Published \in Seq(Contents)
           /\ Len(Published) = write_pos - read_pos
           /\ \A i \in 1 .. write_pos - read_pos :
                 Published[i] = data[Slot(read_pos + i - 1)]
<1>1. /\ data \in [Slots -> Contents] /\ read_pos \in Nat /\ write_pos \in Nat
      /\ read_pos <= write_pos
  BY DEF TypeOK, Indices
<1> QED BY <1>1, WindowType, Zenon DEF Published

\* The same after a step.
LEMMA PublishedTypeNext ==
    ASSUME TypeOK', Indices'
    PROVE  /\ Published' \in Seq(Contents)
           /\ Len(Published') = write_pos' - read_pos'
           /\ \A i \in 1 .. write_pos' - read_pos' :
                 Published'[i] = data'[Slot(read_pos' + i - 1)]
<1>1. /\ data' \in [Slots -> Contents] /\ read_pos' \in Nat /\ write_pos' \in Nat
      /\ read_pos' <= write_pos'
  BY DEF TypeOK, Indices
<1> QED BY <1>1, WindowType, Zenon DEF Published

\* Steps that touch neither the indices nor the array are invisible.
LEMMA Invisible ==
    ASSUME UNCHANGED <<write_pos, read_pos, data, popped>>
    PROVE  UNCHANGED <<Published, popped>>
BY DEF Published

\* The release store of write_pos is the one step of push that the abstract queue sees.
LEMMA PublishIsPut ==
    ASSUME TypeOK, Indices, Transfers, TypeOK', Indices', PushPublish
    PROVE  \E n \in 0 .. Capacity : \E items \in [1 .. n -> Values] : FIFO!Put(items)
<1> DEFINE n == Len(pitems)
           m == write_pos - read_pos
<1>1. /\ n \in 0 .. Capacity /\ n \in Nat /\ m \in Nat /\ m + n <= Capacity
      /\ pitems \in Seq(Values) /\ pitems \in [1 .. n -> Values] /\ pitems \in Seq(Contents)
      /\ pi = n /\ ppc = "write"
  BY CapacityAssumption DEF TypeOK, Indices, PushPublish, Contents
<1>2. /\ Published \in Seq(Contents) /\ Len(Published) = m
      /\ \A i \in 1 .. m : Published[i] = data[Slot(read_pos + i - 1)]
  BY PublishedType
<1>3. /\ read_pos' = read_pos /\ data' = data /\ popped' = popped
      /\ write_pos' = write_pos + n
      /\ write_pos' - read_pos' = m + n
  BY <1>1 DEF PushPublish, TypeOK
<1>4. /\ Published' \in Seq(Contents) /\ Len(Published') = write_pos' - read_pos'
      /\ \A i \in 1 .. write_pos' - read_pos' :
            Published'[i] = data'[Slot(read_pos' + i - 1)]
  BY PublishedTypeNext
<1>5. Published' = Published \o pitems
  <2>1. /\ Published \o pitems \in Seq(Contents)
        /\ Len(Published \o pitems) = m + n
    <3> HIDE DEF m
    <3> QED BY <1>1, <1>2
  <2>2. ASSUME NEW i \in 1 .. m + n PROVE Published'[i] = (Published \o pitems)[i]
    <3>1. Published'[i] = data[Slot(read_pos + i - 1)]
      BY <1>3, <1>4
    <3>2. CASE i <= m
      <4>1. i \in 1 .. m
        BY <1>1, <3>2
      <4>2. Published[i] = data[Slot(read_pos + i - 1)]
        BY <1>2, <4>1, Zenon
      <4>3. (Published \o pitems)[i] = Published[i]
        <5> HIDE DEF m
        <5> QED BY <1>1, <1>2, <4>1
      <4> QED BY <3>1, <4>2, <4>3
    <3>3. CASE i > m
      <4>1. i - m \in 1 .. n /\ write_pos + (i - m) - 1 = read_pos + i - 1
        BY <1>1, <3>3 DEF TypeOK
      <4>2. data[Slot(write_pos + (i - m) - 1)] = pitems[i - m]
        BY <1>1, <4>1 DEF Transfers
      <4>3. (Published \o pitems)[i] = pitems[i - m]
        <5> HIDE DEF m
        <5> QED BY <1>1, <1>2, <3>3
      <4> QED BY <3>1, <4>1, <4>2, <4>3
    <3>4. i <= m \/ i > m
      BY <1>1
    <3> QED BY <3>2, <3>3, <3>4, Zenon
  <2>3. Len(Published') = m + n
    BY <1>3, <1>4
  <2> HIDE DEF m, n
  <2> QED BY <1>4, <2>1, <2>2, <2>3, SeqEqual
<1>6. FIFO!Put(pitems)
  <2>1. Len(Published) + Len(pitems) <= Capacity
    BY <1>1, <1>2
  <2> QED BY <1>3, <1>5, <2>1 DEF FIFO!Put
<1> QED BY <1>1, <1>6

\* The release store of read_pos is the one step of pop that the abstract queue sees.
LEMMA ReleaseIsGet ==
    ASSUME TypeOK, Indices, Transfers, TypeOK', Indices', PopRelease
    PROVE  \E n \in 0 .. Len(Published) : FIFO!Get(n)
<1> DEFINE m == write_pos - read_pos
<1>1. /\ cn \in Nat /\ m \in Nat /\ cn <= m /\ Len(citems) = cn
      /\ citems \in Seq(Contents) /\ read_pos \in Nat /\ write_pos \in Nat
  BY DEF TypeOK, Indices, PopRelease
<1>2. /\ Published \in Seq(Contents) /\ Len(Published) = m
      /\ \A i \in 1 .. m : Published[i] = data[Slot(read_pos + i - 1)]
  BY PublishedType
<1>3. /\ data' = data /\ popped' = popped \o citems
      /\ read_pos' = read_pos + cn /\ write_pos' = write_pos
      /\ write_pos' - read_pos' = m - cn
  BY <1>1 DEF PopRelease
<1>4. /\ Published' \in Seq(Contents) /\ Len(Published') = write_pos' - read_pos'
      /\ \A i \in 1 .. write_pos' - read_pos' :
            Published'[i] = data'[Slot(read_pos' + i - 1)]
  BY PublishedTypeNext
<1>5. citems = SubSeq(Published, 1, cn)
  <2>1. /\ SubSeq(Published, 1, cn) \in Seq(Contents)
        /\ Len(SubSeq(Published, 1, cn)) = cn
        /\ \A i \in 1 .. cn : SubSeq(Published, 1, cn)[i] = Published[i]
    <3> HIDE DEF m
    <3> QED BY <1>1, <1>2
  <2>2. ASSUME NEW i \in 1 .. cn PROVE citems[i] = Published[i]
    <3>1. i \in 1 .. m
      BY <1>1
    <3>2. citems[i] = data[Slot(read_pos + i - 1)]
      BY <1>1 DEF Transfers, PopRelease
    <3> QED BY <1>2, <3>1, <3>2, Zenon
  <2> QED BY <1>1, <2>1, <2>2, SeqEqual
<1>6. Published' = SubSeq(Published, cn + 1, Len(Published))
  <2>1. /\ SubSeq(Published, cn + 1, m) \in Seq(Contents)
        /\ Len(SubSeq(Published, cn + 1, m)) = m - cn
        /\ \A i \in 1 .. m - cn : SubSeq(Published, cn + 1, m)[i] = Published[cn + i]
    <3> HIDE DEF m
    <3> QED BY <1>1, <1>2
  <2>2. ASSUME NEW i \in 1 .. m - cn PROVE Published'[i] = Published[cn + i]
    <3>1. cn + i \in 1 .. m /\ read_pos + (cn + i) - 1 = read_pos' + i - 1
      BY <1>1, <1>3
    <3>2. Published'[i] = data[Slot(read_pos' + i - 1)]
      BY <1>3, <1>4
    <3>3. Published[cn + i] = data[Slot(read_pos + (cn + i) - 1)]
      BY <1>2, <3>1, Zenon
    <3> QED BY <3>1, <3>2, <3>3
  <2>3. Len(Published') = m - cn
    BY <1>3, <1>4
  <2>4. Published' = SubSeq(Published, cn + 1, m)
    <3> HIDE DEF m
    <3> QED BY <1>4, <2>1, <2>2, <2>3, SeqEqual
  <2> QED BY <1>2, <2>4
<1>7. cn \in 0 .. Len(Published)
  BY <1>1, <1>2
<1>8. FIFO!Get(cn)
  BY <1>3, <1>5, <1>6 DEF FIFO!Get
<1> QED BY <1>7, <1>8

\* Every step of the ring is a step of the abstract queue or none.
LEMMA StepSimulates ==
    ASSUME TypeOK, Indices, Transfers, TypeOK', Indices', [Next]_vars
    PROVE  FIFO!Next \/ UNCHANGED <<Published, popped>>
<1>1. CASE ConstructInit
  <2>1. /\ write_pos - read_pos = 0 /\ write_pos' - read_pos' = 0 /\ popped' = popped
    BY <1>1 DEF TypeOK, Indices, ConstructInit
  <2>2. Published' = Published
    BY <2>1 DEF Published
  <2> QED BY <2>1, <2>2
<1>2. CASE PushWrite
  <2>1. /\ UNCHANGED <<write_pos, read_pos, popped>>
        /\ write_pos \in Nat /\ read_pos \in Nat /\ pi \in Nat
    BY <1>2 DEF TypeOK, PushWrite
  <2>2. ASSUME NEW i \in 1 .. write_pos - read_pos
        PROVE  data'[Slot(read_pos + i - 1)] = data[Slot(read_pos + i - 1)]
    <3>1. /\ read_pos + i - 1 \in Nat /\ read_pos <= read_pos + i - 1
          /\ read_pos + i - 1 < write_pos + pi
      BY <2>1
    <3> QED BY <1>2, <3>1, WriteFrame
  <2>3. Published' = Published
    BY Zenon, <2>1, <2>2 DEF Published
  <2> QED BY <2>1, <2>3
<1>3. CASE PushPublish
  BY <1>3, PublishIsPut, Zenon DEF FIFO!Next
<1>4. CASE PopRelease
  BY <1>4, ReleaseIsGet, Zenon DEF FIFO!Next
<1>5. ASSUME NEW items, NEW r, BeginPush(items, r) PROVE UNCHANGED <<Published, popped>>
  BY <1>5, Invisible DEF BeginPush
<1>6. ASSUME NEW r, PushFull(r) PROVE UNCHANGED <<Published, popped>>
  BY <1>6, Invisible DEF PushFull
<1>7. CASE Attach
  <2>1. UNCHANGED <<write_pos, read_pos, data, popped>>
    BY <1>7, Zenon DEF Attach
  <2> QED BY <2>1, Invisible
<1>8. CASE PopRead
  BY <1>8, Invisible DEF PopRead
<1>9. ASSUME NEW k, NEW w, BeginPop(k, w) PROVE UNCHANGED <<Published, popped>>
  BY <1>9, Invisible DEF BeginPop
<1>10. ASSUME NEW w, PopEmpty(w) PROVE UNCHANGED <<Published, popped>>
  BY <1>10, Invisible DEF PopEmpty
<1>11. CASE UNCHANGED vars
  BY <1>11, Invisible DEF vars
<1> QED BY <1>1, <1>2, <1>3, <1>4, <1>5, <1>6, <1>7, <1>8, <1>9, <1>10, <1>11, Zenon
        DEF Next, Producer, Consumer, try_push, try_push_batch, try_pop, try_pop_batch

\* A new ring is an empty queue.
LEMMA InitSimulates == Init => FIFO!Init
<1> SUFFICES ASSUME Init PROVE Published = <<>> /\ popped = <<>>
  BY DEF FIFO!Init
<1>1. popped = <<>>
  BY DEF Init
<1>2. /\ Published \in Seq(Contents)
      /\ Len(Published) = write_pos - read_pos
  BY IndexInit, PublishedType
<1>3. write_pos - read_pos = 0
  BY DEF Init
<1> QED BY <1>1, <1>2, <1>3

\* The ring of ring_buffer.hpp implements the bounded FIFO for every capacity, batch
\* size, number of elements and interleaving: nothing is lost, duplicated, reordered or
\* read before it is written.
THEOREM Refinement == Spec => ImplementsFIFO
<1>1. Init => TypeOK /\ Indices /\ Transfers /\ FIFO!Init
  BY IndexInit, TransfersInit, InitSimulates
<1>2. TypeOK /\ Indices /\ Transfers /\ [Next]_vars => TypeOK' /\ Indices' /\ Transfers'
  BY IndexNext, TransfersNext
<1>3. TypeOK /\ Indices /\ Transfers /\ TypeOK' /\ Indices' /\ [Next]_vars
        => [FIFO!Next]_(FIFO!fifoVars)
  BY StepSimulates DEF FIFO!fifoVars
<1> QED BY <1>1, <1>2, <1>3, PTL DEF Spec, ImplementsFIFO, FIFO!Spec
=============================================================================
