------------------------ MODULE OrderSequencerProofs ------------------------
(***************************************************************************)
(* Proofs about OrderSequencer, for any number of gateway threads, any ring *)
(* size and any number of calls.                                            *)
(***************************************************************************)
EXTENDS OrderSequencer, TLAPS, FiniteSetTheorems

-----------------------------------------------------------------------------
(* The slot of a number, number % ring size ("& MASK" in the code).          *)

\* A position's slot is a slot of the ring.
LEMMA SlotInRing ==
    ASSUME NEW N \in Nat \ {0}, NEW a \in Nat
    PROVE  a % N \in 0 .. N - 1
OBVIOUS

\* Two positions less than a ring apart that share a slot are the same position.
LEMMA SlotUnique ==
    ASSUME NEW N \in Nat \ {0}, NEW a \in Nat, NEW b \in Nat,
           a % N = b % N, a <= b, b < a + N
    PROVE  a = b
<1> DEFINE qa == a \div N
           qb == b \div N
<1>1. /\ a = N * qa + (a % N) /\ qa \in Int
      /\ b = N * qb + (b % N) /\ qb \in Int
  OBVIOUS
<1>2. b - a = N * (qb - qa)
  BY <1>1
<1>3. ASSUME qb - qa >= 1 PROVE FALSE
  <2>1. N * (qb - qa) >= N
    BY <1>1, <1>3
  <2> QED BY <2>1, <1>2
<1>4. ASSUME qb - qa <= -1 PROVE FALSE
  <2>1. N * (qb - qa) <= -N
    BY <1>1, <1>4
  <2> QED BY <2>1, <1>2
<1>5. qb = qa
  BY <1>1, <1>3, <1>4
<1> QED BY <1>1, <1>5

\* The same for two positions of one window (d, d + N].
LEMMA SlotUniqueInWindow ==
    ASSUME NEW N \in Nat \ {0}, NEW d \in Nat, NEW a \in Nat, NEW b \in Nat,
           d < a, a <= d + N, d < b, b <= d + N, a % N = b % N
    PROVE  a = b
<1>1. a < b + N /\ b < a + N
  OBVIOUS
<1>2. CASE a <= b
  BY <1>1, <1>2, SlotUnique, Zenon
<1>3. CASE b <= a
  BY <1>1, <1>3, SlotUnique, Zenon
<1> QED BY <1>2, <1>3

-----------------------------------------------------------------------------
(* Types.                                                                   *)

\* The slot of any number is a slot of the ring.
LEMMA SlotType == \A n \in Nat : Slot(n) \in Slots
BY RingSizeAssumption, SlotInRing DEF Slot, Slots

\* A record written field by field stays a record, and only its slot changes.
LEMMA WriteType ==
    ASSUME TypeOK, NEW s \in Slots, NEW n \in Nat, NEW b \in Body
    PROVE  /\ [ring EXCEPT ![s].sequence_no = n] \in [Slots -> Record]
           /\ [ring EXCEPT ![s].body = b] \in [Slots -> Record]
BY SMTT(30) DEF TypeOK, Record

\* A slot that was never written holds a record.
LEMMA BlankType == Blank \in Record
BY DEF Blank, Record, Body, Kinds

\* drain looks at a slot of the ring.
LEMMA DrainSlotType == TypeOK => DrainSlot \in Slots
BY SlotType DEF TypeOK, DrainSlot

\* A new sequencer is well typed.
LEMMA TypeInit == Init => TypeOK
<1> SUFFICES ASSUME Init PROVE TypeOK
  OBVIOUS
<1>1. lapped \in BOOLEAN
  BY Zenon DEF Init
<1>2. ring \in [Slots -> Record] /\ out \in Record
  BY BlankType DEF Init
<1> QED
  BY <1>1, <1>2 DEF Init, TypeOK, Kinds, PCs, CPCs, Slots

\* What a call does to everything but the history flag lapped.
TookNumber(p) ==
    /\ pc[p] = "idle"
    /\ seq_counter' = seq_counter + 1
    /\ seq' = [seq EXCEPT ![p] = seq_counter + 1]
    /\ \E k \in Kinds : kind' = [kind EXCEPT ![p] = k]
    /\ pc' = [pc EXCEPT ![p] = "claim"]
    /\ UNCHANGED <<committed, ring, statVars, drainVars>>

\* stamp_order and stamp_cancel begin alike: they take the next number.
LEMMA TakesNumber ==
    ASSUME NEW p \in Producers, stamp_order(p) \/ stamp_cancel(p)
    PROVE  TookNumber(p)
<1>1. PICK k \in Kinds : TakeNumber(p, k)
  BY DEF stamp_order, stamp_cancel, Kinds
<1> QED BY <1>1, Zenon DEF TakeNumber, TookNumber

\* Every step of stamp and drain keeps the types.
LEMMA TypeNext == TypeOK /\ [Next]_vars => TypeOK'
<1> SUFFICES ASSUME TypeOK, [Next]_vars PROVE TypeOK'
  OBVIOUS
<1> USE SlotType
<1>1. ASSUME NEW p \in Producers, stamp_order(p) \/ stamp_cancel(p)
      PROVE  TypeOK'
  <2>1. lapped' \in BOOLEAN
    BY <1>1, Zenon DEF TypeOK, stamp_order, stamp_cancel, TakeNumber
  <2>2. TookNumber(p)
    BY <1>1, TakesNumber
  <2> QED
    BY <2>1, <2>2 DEF TookNumber, TypeOK, PCs, statVars, drainVars
<1>2. ASSUME NEW p \in Producers, StampDrop(p) PROVE TypeOK'
  BY <1>2 DEF TypeOK, StampDrop, PCs, callVars, drainVars
<1>3. ASSUME NEW p \in Producers, StampClaim(p) PROVE TypeOK'
  BY <1>3 DEF TypeOK, StampClaim, PCs, statVars, callVars, drainVars
<1>4. ASSUME NEW p \in Producers, StampWriteHead(p) PROVE TypeOK'
  <2>1. ring' \in [Slots -> Record]
    BY Zenon, <1>4, WriteType DEF TypeOK, StampWriteHead, Record
  <2> QED
    BY <1>4, <2>1 DEF TypeOK, StampWriteHead, PCs, statVars, callVars, drainVars
<1>5. ASSUME NEW p \in Producers, StampWriteBody(p) PROVE TypeOK'
  <2>1. ring' \in [Slots -> Record]
    BY Zenon, <1>5, WriteType DEF TypeOK, StampWriteBody, Record, Body
  <2> QED
    BY <1>5, <2>1 DEF TypeOK, StampWriteBody, PCs, statVars, callVars, drainVars
<1>6. ASSUME NEW p \in Producers, StampCommit(p) PROVE TypeOK'
  BY <1>6 DEF TypeOK, StampCommit, PCs, statVars, callVars, drainVars
<1>7. ASSUME NEW p \in Producers, StampCount(p) PROVE TypeOK'
  BY <1>7 DEF TypeOK, StampCount, PCs, callVars, drainVars
<1>8. CASE DrainReady
  BY <1>8 DEF TypeOK, DrainReady, CPCs, statVars, callVars
<1>9. CASE DrainCopyHead
  <2>1. ring[DrainSlot] \in Record
    BY DrainSlotType DEF TypeOK
  <2>2. out' \in Record
    BY Zenon, <1>9, <2>1 DEF TypeOK, DrainCopyHead, Record
  <2> QED
    BY <1>9, <2>2 DEF TypeOK, DrainCopyHead, CPCs, statVars, callVars
<1>10. CASE DrainCopyBody
  <2>1. ring[DrainSlot] \in Record
    BY DrainSlotType DEF TypeOK
  <2>2. out' \in Record
    BY Zenon, <1>10, <2>1 DEF TypeOK, DrainCopyBody, Record
  <2> QED
    BY <1>10, <2>2 DEF TypeOK, DrainCopyBody, CPCs, statVars, callVars
<1>11. CASE DrainRelease
  BY <1>11 DEF TypeOK, DrainRelease, DrainSlot, CPCs, statVars, callVars
<1>12. CASE DrainAdvance
  BY <1>12 DEF TypeOK, DrainAdvance, CPCs, statVars, callVars
<1>13. CASE UNCHANGED vars
  BY <1>13 DEF TypeOK, vars, statVars, callVars, drainVars
<1> QED
  BY <1>1, <1>2, <1>3, <1>4, <1>5, <1>6, <1>7, <1>8, <1>9, <1>10, <1>11,
     <1>12, <1>13 DEF Next, Stamp, drain

\* Every variable of the sequencer keeps its type.
THEOREM TypeCorrect == Spec => []TypeOK
BY TypeInit, TypeNext, PTL DEF Spec
-----------------------------------------------------------------------------
(* Mutual exclusion on slots.  SlotExclusive is not inductive: a claim must  *)
(* know that a free flag means that nobody writes or reads the slot.         *)

SlotInv ==
    /\ \A p \in Producers : Writing(p) => committed[Slot(seq[p])] = 2
    /\ \A p, q \in Producers :
          Writing(p) /\ Writing(q) /\ Slot(seq[p]) = Slot(seq[q]) => p = q
    /\ Reading => committed[DrainSlot] = 1

\* In a new sequencer no slot is claimed or ready.
LEMMA SlotInvInit == Init => SlotInv
BY SMTT(30) DEF Init, SlotInv, Writing, Reading

\* A slot that a gateway thread claimed is its own until the commit, and one that drain reads
\* stays ready until the release.
LEMMA SlotInvNext == TypeOK /\ SlotInv /\ [Next]_vars => SlotInv'
<1> SUFFICES ASSUME TypeOK, SlotInv, [Next]_vars PROVE SlotInv'
  OBVIOUS
<1> USE SlotType, DrainSlotType DEF TypeOK, SlotInv, Writing, Reading
<1>1. ASSUME NEW p \in Producers, stamp_order(p) \/ stamp_cancel(p)
      PROVE  SlotInv'
  <2>1. TookNumber(p)
    BY <1>1, TakesNumber
  <2> QED
    BY <2>1 DEF TookNumber, drainVars, DrainSlot
<1>2. ASSUME NEW p \in Producers, StampDrop(p) PROVE SlotInv'
  BY <1>2 DEF StampDrop, callVars, drainVars, DrainSlot
<1>3. ASSUME NEW p \in Producers, StampClaim(p) PROVE SlotInv'
  BY <1>3 DEF StampClaim, callVars, drainVars, DrainSlot
<1>4. ASSUME NEW p \in Producers, StampWriteHead(p) PROVE SlotInv'
  BY <1>4 DEF StampWriteHead, callVars, drainVars, DrainSlot
<1>5. ASSUME NEW p \in Producers, StampWriteBody(p) PROVE SlotInv'
  BY SMTT(30), <1>5 DEF StampWriteBody, callVars, drainVars, DrainSlot
<1>6. ASSUME NEW p \in Producers, StampCommit(p) PROVE SlotInv'
  BY <1>6 DEF StampCommit, callVars, drainVars, DrainSlot
<1>7. ASSUME NEW p \in Producers, StampCount(p) PROVE SlotInv'
  BY <1>7 DEF StampCount, callVars, drainVars, DrainSlot
<1>8. CASE DrainReady
  BY <1>8 DEF DrainReady, callVars, DrainSlot
<1>9. CASE DrainCopyHead
  BY <1>9 DEF DrainCopyHead, callVars, DrainSlot
<1>10. CASE DrainCopyBody
  BY <1>10 DEF DrainCopyBody, callVars, DrainSlot
<1>11. CASE DrainRelease
  BY <1>11 DEF DrainRelease, callVars, DrainSlot
<1>12. CASE DrainAdvance
  BY <1>12 DEF DrainAdvance, callVars, DrainSlot
<1>13. CASE UNCHANGED vars
  BY <1>13 DEF vars, callVars, drainVars, DrainSlot
<1> QED
  BY SMTT(60), <1>1, <1>2, <1>3, <1>4, <1>5, <1>6, <1>7, <1>8, <1>9, <1>10, <1>11,
     <1>12, <1>13 DEF Next, Stamp, drain

\* No two threads are ever inside one slot, for any ring size and thread count.
THEOREM SlotExclusion == Spec => []SlotExclusive
<1>1. TypeOK /\ SlotInv => SlotExclusive
  BY SlotType, DrainSlotType DEF TypeOK, SlotInv, SlotExclusive, Writing
<1> QED
  BY <1>1, TypeInit, TypeNext, SlotInvInit, SlotInvNext, PTL DEF Spec

-----------------------------------------------------------------------------
(* No torn record.  Follows the two halves of a record from the writer       *)
(* through the ring into the engine's copy.                                  *)

Whole(r) == r.body.seq = r.sequence_no

TornInv ==
    /\ \A s \in Slots : committed[s] = 1 => Whole(ring[s])
    /\ \A p \in Producers :
          pc[p] \in {"body", "commit"} => ring[Slot(seq[p])].sequence_no = seq[p]
    /\ \A p \in Producers :
          pc[p] = "commit" => ring[Slot(seq[p])].body.seq = seq[p]
    /\ cpc = "body" => out.sequence_no = ring[DrainSlot].sequence_no
    /\ cpc \in {"release", "advance"} => Whole(out)
    /\ \A i \in DOMAIN delivered : Whole(delivered[i])

\* Appending a whole record keeps a history of whole records.
LEMMA AppendWhole ==
    ASSUME NEW h \in Seq(Record), NEW r \in Record, Whole(r),
           \A i \in DOMAIN h : Whole(h[i])
    PROVE  \A i \in DOMAIN Append(h, r) : Whole(Append(h, r)[i])
<1>1. ASSUME NEW i \in 1 .. Len(h) + 1 PROVE Whole(Append(h, r)[i])
  <2>1. CASE i = Len(h) + 1
    BY <2>1
  <2>2. CASE i # Len(h) + 1
    <3>1. i \in DOMAIN h /\ Append(h, r)[i] = h[i]
      BY <1>1, <2>2
    <3> QED BY <3>1
  <2> QED BY <2>1, <2>2
<1> QED BY <1>1

\* In a new sequencer nothing is half written or half copied.
LEMMA TornInvInit == Init => TornInv
BY SMTT(30) DEF Init, TornInv

\* What a thread wrote into its claimed slot, and what drain copied from a ready one, stays.
LEMMA TornInvNext == TypeOK /\ SlotInv /\ TornInv /\ [Next]_vars => TornInv'
<1> SUFFICES ASSUME TypeOK, SlotInv, TornInv, [Next]_vars PROVE TornInv'
  BY SMTT(30)
<1> USE SlotType, DrainSlotType
    DEF TypeOK, SlotInv, TornInv, Writing, Reading, Whole, Record, Body
<1>1. ASSUME NEW p \in Producers, stamp_order(p) \/ stamp_cancel(p)
      PROVE  TornInv'
  <2>1. TookNumber(p)
    BY <1>1, TakesNumber
  <2> QED
    BY Zenon, <2>1 DEF TookNumber, drainVars, DrainSlot
<1>2. ASSUME NEW p \in Producers, StampDrop(p) PROVE TornInv'
  BY Zenon, <1>2 DEF StampDrop, callVars, drainVars, DrainSlot
<1>3. ASSUME NEW p \in Producers, StampClaim(p) PROVE TornInv'
  <2> USE <1>3 DEF StampClaim, callVars, drainVars, DrainSlot
  <2>1. (\A s \in Slots : committed[s] = 1 => Whole(ring[s]))'
    OBVIOUS
  <2>2. \A q \in Producers : pc'[q] \in {"body", "commit"} => pc'[q] = pc[q]
    OBVIOUS
  <2> QED BY Zenon, <2>1, <2>2
<1>4. ASSUME NEW p \in Producers, StampWriteHead(p) PROVE TornInv'
  <2>1. PICK s0 \in Slots : s0 = Slot(seq[p]) /\ committed[s0] = 2
    BY <1>4 DEF StampWriteHead
  <2>2. /\ \A s \in Slots \ {s0} : ring'[s] = ring[s]
        /\ ring'[s0].sequence_no = seq[p]
        /\ UNCHANGED <<committed, seq, cpc, out, delivered, drain_pos>>
        /\ pc' = [pc EXCEPT ![p] = "body"]
    BY <1>4, <2>1 DEF StampWriteHead, statVars, callVars, drainVars
  <2>3. \A q \in Producers : q # p /\ Writing(q) => Slot(seq[q]) # s0
    BY SMTT(60), <1>4, <2>1 DEF StampWriteHead
  <2>4. Reading => DrainSlot # s0
    BY <2>1
  <2>5. UNCHANGED DrainSlot
    BY <2>2 DEF DrainSlot
  <2>6. ASSUME NEW s \in Slots, committed'[s] = 1 PROVE Whole(ring'[s])
    <3>1. committed[s] = 1
      BY <2>2, <2>6
    <3>2. s # s0
      BY SMTT(60), <2>1, <3>1
    <3>3. ring'[s] = ring[s]
      BY <2>2, <3>2
    <3> QED BY <3>1, <3>3
  <2>7. ASSUME NEW q \in Producers
        PROVE  /\ pc'[q] \in {"body", "commit"} => ring'[Slot(seq[q])].sequence_no = seq[q]
               /\ pc'[q] = "commit" => ring'[Slot(seq[q])].body.seq = seq[q]
    <3>1. CASE q = p
      BY <2>1, <2>2, <3>1
    <3>2. CASE q # p
      <4>1. pc'[q] = pc[q]
        BY <2>2, <3>2
      <4>2. Writing(q) => ring'[Slot(seq[q])] = ring[Slot(seq[q])]
        BY Zenon, <2>2, <2>3, <3>2
      <4> QED BY Zenon, <4>1, <4>2
    <3> QED BY SMTT(60), <3>1, <3>2
  <2>8. (cpc = "body" => out.sequence_no = ring[DrainSlot].sequence_no)'
    BY Zenon, <2>2, <2>4, <2>5
  <2> QED BY Zenon, <2>2, <2>6, <2>7, <2>8
<1>5. ASSUME NEW p \in Producers, StampWriteBody(p) PROVE TornInv'
  <2>1. PICK s0 \in Slots : s0 = Slot(seq[p]) /\ committed[s0] = 2
    BY <1>5 DEF StampWriteBody
  <2>2. /\ \A s \in Slots \ {s0} : ring'[s] = ring[s]
        /\ ring'[s0].sequence_no = ring[s0].sequence_no
        /\ ring'[s0].body.seq = seq[p]
        /\ UNCHANGED <<committed, seq, cpc, out, delivered, drain_pos>>
        /\ pc' = [pc EXCEPT ![p] = "commit"] /\ pc[p] = "body"
    BY <1>5, <2>1 DEF StampWriteBody, statVars, callVars, drainVars
  <2>3. \A q \in Producers : q # p /\ Writing(q) => Slot(seq[q]) # s0
    BY <1>5, <2>1 DEF StampWriteBody
  <2>4. Reading => DrainSlot # s0
    BY <2>1
  <2>5. UNCHANGED DrainSlot
    BY <2>2 DEF DrainSlot
  <2>6. ASSUME NEW s \in Slots, committed'[s] = 1 PROVE Whole(ring'[s])
    <3>1. committed[s] = 1
      BY SMTT(60), <2>2, <2>6
    <3>2. s # s0
      BY SMTT(60), <2>1, <3>1
    <3>3. ring'[s] = ring[s]
      BY SMTT(30), <2>2, <3>2
    <3> QED BY <3>1, <3>3
  <2>7. ASSUME NEW q \in Producers
        PROVE  /\ pc'[q] \in {"body", "commit"} => ring'[Slot(seq[q])].sequence_no = seq[q]
               /\ pc'[q] = "commit" => ring'[Slot(seq[q])].body.seq = seq[q]
    <3>1. CASE q = p
      BY Zenon, <2>1, <2>2, <3>1
    <3>2. CASE q # p
      <4>1. pc'[q] = pc[q]
        BY <2>2, <3>2
      <4>2. Writing(q) => ring'[Slot(seq[q])] = ring[Slot(seq[q])]
        BY Zenon, <2>2, <2>3, <3>2
      <4> QED BY Zenon, <4>1, <4>2
    <3> QED BY <3>1, <3>2
  <2>8. (cpc = "body" => out.sequence_no = ring[DrainSlot].sequence_no)'
    BY Zenon, <2>2, <2>4, <2>5
  <2> QED BY Zenon, <2>2, <2>6, <2>7, <2>8
<1>6. ASSUME NEW p \in Producers, StampCommit(p) PROVE TornInv'
  <2> USE <1>6 DEF StampCommit, callVars, drainVars, DrainSlot
  <2>1. (\A s \in Slots : committed[s] = 1 => Whole(ring[s]))'
    OBVIOUS
  <2>2. \A q \in Producers : pc'[q] \in {"body", "commit"} => pc'[q] = pc[q]
    OBVIOUS
  <2> QED BY Zenon, <2>1, <2>2
<1>7. ASSUME NEW p \in Producers, StampCount(p) PROVE TornInv'
  BY Zenon, <1>7 DEF StampCount, callVars, drainVars, DrainSlot
<1>8. CASE DrainReady
  BY <1>8 DEF DrainReady, callVars, DrainSlot
<1>9. CASE DrainCopyHead
  BY <1>9 DEF DrainCopyHead, callVars, DrainSlot
<1>10. CASE DrainCopyBody
  BY Zenon, <1>10 DEF DrainCopyBody, callVars, DrainSlot
<1>11. CASE DrainRelease
  BY <1>11 DEF DrainRelease, callVars, DrainSlot
<1>12. CASE DrainAdvance
  <2>1. Whole(out)
    BY <1>12 DEF DrainAdvance
  <2>2. delivered' = Append(delivered, out)
    BY <1>12 DEF DrainAdvance
  <2>3. (\A i \in DOMAIN delivered : Whole(delivered[i]))'
    BY ZenonT(60), <2>1, <2>2, AppendWhole
  <2> QED BY Zenon, <1>12, <2>3 DEF DrainAdvance, callVars
<1>13. CASE UNCHANGED vars
  BY <1>13 DEF vars, callVars, drainVars, DrainSlot
<1> QED
  BY Zenon, <1>1, <1>2, <1>3, <1>4, <1>5, <1>6, <1>7, <1>8, <1>9, <1>10, <1>11,
     <1>12, <1>13 DEF Next, Stamp, drain

\* Every record drain returns was written by one stamp call.
THEOREM NoTearing == Spec => []NoTornRecord
<1>1. TornInv => NoTornRecord
  BY DEF TornInv, NoTornRecord, Whole
<1> QED
  BY <1>1, TypeInit, TypeNext, SlotInvInit, SlotInvNext, TornInvInit,
     TornInvNext, PTL DEF Spec

-----------------------------------------------------------------------------
(* Delivery in order.  While nobody is lapped, all live numbers lie in the   *)
(* window (drain_pos, drain_pos + RingSize], where a slot determines its     *)
(* number; so the ready record at the drain slot can only be the next one.   *)

Active(p) == pc[p] = "claim" \/ Writing(p)

ReadyInWindow(s) ==
    /\ drain_pos < ring[s].sequence_no /\ ring[s].sequence_no <= seq_counter
    /\ Slot(ring[s].sequence_no) = s
    /\ \A p \in Producers : Active(p) => ring[s].sequence_no # seq[p]

Window ==
    /\ Len(delivered) = drain_pos
    /\ drain_pos <= seq_counter /\ seq_counter <= drain_pos + RingSize
    /\ \A p \in Producers : Active(p) => drain_pos < seq[p] /\ seq[p] <= seq_counter
    /\ \A p, q \in Producers : Active(p) /\ Active(q) /\ p # q => seq[p] # seq[q]
    /\ \A s \in Slots : committed[s] = 1 => ReadyInWindow(s)
    /\ cpc \in {"body", "release", "advance"} => 
          out.sequence_no = drain_pos + 1 /\ drain_pos < seq_counter
    /\ cpc = "advance" =>
          /\ committed[DrainSlot] = 0
          /\ \A p \in Producers : Active(p) => seq[p] # drain_pos + 1
    /\ \A i \in DOMAIN delivered : delivered[i].sequence_no = i

\* A new sequencer has nothing in its window.
LEMMA WindowInit == Init => Window
BY RingSizeAssumption DEF Init, Window, Active, Writing

\* Inside the window the ready record at the drain slot is the next number.
LEMMA NextIsReady ==
    ASSUME TypeOK, Window, committed[DrainSlot] = 1
    PROVE  ring[DrainSlot].sequence_no = drain_pos + 1
<1>1. DrainSlot \in Slots /\ ring[DrainSlot].sequence_no \in Nat
  BY DrainSlotType DEF TypeOK, Record
<1>2. /\ drain_pos < ring[DrainSlot].sequence_no
      /\ ring[DrainSlot].sequence_no <= drain_pos + RingSize
      /\ Slot(ring[DrainSlot].sequence_no) = DrainSlot
  BY <1>1, RingSizeAssumption DEF TypeOK, Window, ReadyInWindow
<1>3. ring[DrainSlot].sequence_no % RingSize = (drain_pos + 1) % RingSize
  BY <1>2 DEF Slot, DrainSlot
<1>4. /\ drain_pos \in Nat /\ drain_pos + 1 \in Nat
      /\ drain_pos < drain_pos + 1 /\ drain_pos + 1 <= drain_pos + RingSize
  BY RingSizeAssumption DEF TypeOK
<1> QED
  BY <1>1, <1>2, <1>3, <1>4, RingSizeAssumption, SlotUniqueInWindow, Zenon

\* The same for a number a thread is about to write.
LEMMA ActiveAtDrainSlot ==
    ASSUME TypeOK, Window, NEW p \in Producers, Active(p), Slot(seq[p]) = DrainSlot
    PROVE  seq[p] = drain_pos + 1
<1>1. /\ drain_pos < seq[p] /\ seq[p] <= drain_pos + RingSize /\ seq[p] \in Nat
      /\ drain_pos \in Nat /\ drain_pos + 1 \in Nat
      /\ drain_pos < drain_pos + 1 /\ drain_pos + 1 <= drain_pos + RingSize
  BY RingSizeAssumption DEF TypeOK, Window
<1>2. seq[p] % RingSize = (drain_pos + 1) % RingSize
  BY DEF Slot, DrainSlot
<1> QED
  BY <1>1, <1>2, RingSizeAssumption, SlotUniqueInWindow, Zenon

\* A call that is not lapped takes a number beyond every number in use.
LEMMA WindowTake ==
    ASSUME TypeOK, Window, NEW p \in Producers, TookNumber(p),
           seq_counter + 1 <= drain_pos + RingSize
    PROVE  Window'
<1>1. /\ seq_counter' = seq_counter + 1 /\ seq' = [seq EXCEPT ![p] = seq_counter + 1]
      /\ UNCHANGED <<committed, ring, drain_pos, cpc, out, delivered, DrainSlot>>
  BY DEF TookNumber, drainVars, DrainSlot
<1>2. \A q \in Producers : Active(q)' => q = p \/ Active(q)
  BY DEF TypeOK, TookNumber, Active, Writing
<1>3. ASSUME NEW q \in Producers, Active(q)'
      PROVE  /\ drain_pos' < seq'[q] /\ seq'[q] <= seq_counter'
             /\ q = p => seq'[q] = seq_counter + 1
             /\ q # p => Active(q) /\ seq'[q] = seq[q] /\ seq[q] <= seq_counter
             /\ seq'[q] \in Nat
  <2>1. q # p => Active(q) /\ seq'[q] = seq[q]
    BY SMTT(30), <1>1, <1>2, <1>3 DEF TypeOK
  <2>2. drain_pos < seq_counter + 1
    BY DEF TypeOK, Window
  <2> QED
    BY <1>1, <2>1, <2>2 DEF TypeOK, Window
<1>4. ASSUME NEW q \in Producers, NEW r \in Producers, Active(q)', Active(r)', q # r
      PROVE  seq'[q] # seq'[r]
  <2>0. /\ \A u \in Producers : Active(u)' /\ u = p => seq'[u] = seq_counter + 1
        /\ \A u \in Producers : Active(u)' /\ u # p =>
             Active(u) /\ seq'[u] = seq[u] /\ seq[u] <= seq_counter
    BY <1>3, Zenon
  <2>1. CASE q # p /\ r # p
    <3>1. seq[q] # seq[r]
      BY <1>4, <2>0, <2>1, Zenon DEF Window
    <3> QED BY <1>4, <2>0, <2>1, <3>1, Zenon
  <2>2. CASE q = p \/ r = p
    <3>1. seq_counter \in Nat /\ seq \in [Producers -> Nat]
      BY SMTT(30) DEF TypeOK
    <3> QED BY <1>4, <2>0, <2>2, <3>1
  <2> QED BY <2>1, <2>2, Zenon
<1>5. ASSUME NEW s \in Slots, committed'[s] = 1
      PROVE  ReadyInWindow(s)'
  <2>1. /\ ring[s].sequence_no \in Nat /\ ring'[s] = ring[s] /\ committed[s] = 1
        /\ drain_pos < ring[s].sequence_no /\ ring[s].sequence_no <= seq_counter
    BY <1>1, <1>5 DEF TypeOK, Record, Window, ReadyInWindow
  <2> QED BY SMTT(30), <1>1, <1>3, <2>1 DEF TypeOK, Window, ReadyInWindow
<1>6. ASSUME cpc' = "advance"
      PROVE  /\ committed'[DrainSlot'] = 0
             /\ \A q \in Producers : Active(q)' => seq'[q] # drain_pos' + 1
  BY SMTT(30), <1>1, <1>3, <1>6 DEF TypeOK, Window
<1>7. /\ (Len(delivered) = drain_pos)'
      /\ drain_pos' <= seq_counter' /\ seq_counter' <= drain_pos' + RingSize
      /\ cpc' \in {"body", "release", "advance"} =>
            out'.sequence_no = drain_pos' + 1 /\ drain_pos' < seq_counter'
      /\ (\A i \in DOMAIN delivered : delivered[i].sequence_no = i)'
  BY <1>1 DEF TypeOK, Window
<1> QED BY <1>3, <1>4, <1>5, <1>6, <1>7 DEF Window

\* What a step of a thread inside stamp has to establish.
LEMMA WindowFrame ==
    ASSUME Window,
           UNCHANGED <<seq_counter, seq, drain_pos, cpc, out, delivered>>,
           \A q \in Producers : Active(q)' => Active(q),
           \A s \in Slots : committed'[s] = 1 => ReadyInWindow(s)',
           cpc = "advance" => committed'[DrainSlot] = 0
    PROVE  Window'
<1>1. UNCHANGED DrainSlot
  BY DEF DrainSlot
<1> QED BY <1>1 DEF Window

\* Every step of a stamp keeps the window.
LEMMA WindowStamp ==
    ASSUME TypeOK, SlotInv, TornInv, Window, NEW p \in Producers, Stamp(p)
    PROVE  Window'
<1>1. PICK s0 \in Slots : s0 = Slot(seq[p])
  BY SlotType DEF TypeOK
<1>2. /\ UNCHANGED <<seq_counter, seq, drain_pos, cpc, out, delivered>>
      /\ \A q \in Producers : Active(q)' => Active(q)
  BY DEF Stamp, StampDrop, StampClaim, StampWriteHead, StampWriteBody, StampCommit,
         StampCount, statVars, callVars, drainVars, TypeOK, Active, Writing
<1>3. ASSUME NEW s \in Slots, committed[s] = 1, ring'[s] = ring[s]
      PROVE  ReadyInWindow(s)'
  BY SMTT(30), <1>2, <1>3 DEF Window, ReadyInWindow
<1>4. CASE StampDrop(p) \/ StampCount(p)
  <2>1. UNCHANGED <<committed, ring>>
    BY <1>4 DEF StampDrop, StampCount
  <2> QED BY <1>2, <1>3, <2>1, WindowFrame DEF Window
<1>5. CASE StampClaim(p)
  <2>1. Active(p) /\ committed' = [committed EXCEPT ![s0] = 2] /\ ring' = ring
    BY SMTT(30), <1>1, <1>5 DEF StampClaim, Active
  <2>2. cpc = "advance" => s0 # DrainSlot
    BY SMTT(30), <1>1, <2>1, ActiveAtDrainSlot DEF Window
  <2>3. cpc = "advance" => committed'[DrainSlot] = 0
    BY <2>1, <2>2, DrainSlotType DEF TypeOK, Window
  <2>4. \A s \in Slots : committed'[s] = 1 => committed[s] = 1
    BY SMTT(30), <2>1 DEF TypeOK
  <2> QED BY <1>2, <1>3, <2>1, <2>3, <2>4, WindowFrame
<1>6. CASE StampWriteHead(p) \/ StampWriteBody(p)
  <2>1. /\ committed' = committed /\ committed[s0] = 2
        /\ \A s \in Slots : s # s0 => ring'[s] = ring[s]
    BY <1>1, <1>6 DEF StampWriteHead, StampWriteBody, SlotInv, Writing, TypeOK
  <2>2. \A s \in Slots : committed'[s] = 1 => committed[s] = 1 /\ s # s0
    BY <2>1
  <2> QED BY <1>2, <1>3, <2>1, <2>2, WindowFrame DEF Window
<1>7. CASE StampCommit(p)
  <2>1. /\ committed' = [committed EXCEPT ![s0] = 1] /\ ring' = ring
        /\ committed[s0] = 2 /\ ring[s0].sequence_no = seq[p] /\ Active(p)
        /\ ~Active(p)'
    BY SMTT(60), <1>1, <1>7 DEF StampCommit, SlotInv, TornInv, Active, Writing, TypeOK
  <2>2. cpc = "advance" => committed'[DrainSlot] = 0
    BY SMTT(30), <2>1, DrainSlotType DEF TypeOK, Window
  <2>3. ReadyInWindow(s0)'
    BY <1>1, <1>2, <2>1 DEF Window, ReadyInWindow
  <2>4. \A s \in Slots : committed'[s] = 1 /\ s # s0 => committed[s] = 1
    BY <2>1 DEF TypeOK
  <2> QED BY SMTT(30), <1>2, <1>3, <2>1, <2>2, <2>3, <2>4, WindowFrame
<1> QED BY <1>4, <1>5, <1>6, <1>7 DEF Stamp

\* drain keeps the window: it moves on by the slot that it has released.
LEMMA WindowDrain ==
    ASSUME TypeOK, SlotInv, Window, drain
    PROVE  Window'
<1>1. /\ UNCHANGED <<seq_counter, seq, pc, ring>>
      /\ \A q \in Producers : Active(q)' <=> Active(q)
  BY SMTT(30) DEF drain, DrainReady, DrainCopyHead, DrainCopyBody, DrainRelease, DrainAdvance,
         statVars, callVars, Active, Writing
<1>2. CASE DrainReady \/ DrainCopyHead \/ DrainCopyBody
  <2>1. UNCHANGED <<committed, drain_pos, delivered, DrainSlot>> /\ cpc' # "advance"
    BY <1>2 DEF DrainReady, DrainCopyHead, DrainCopyBody, DrainSlot
  <2>2. cpc' \in {"body", "release"} => out'.sequence_no = drain_pos + 1
    <3>1. CASE DrainReady
      BY <3>1 DEF DrainReady
    <3>2. CASE DrainCopyHead
      <4>1. ring[DrainSlot].sequence_no = drain_pos + 1
        BY <3>2, NextIsReady DEF DrainCopyHead, SlotInv, Reading
      <4> QED BY <3>2, <4>1 DEF DrainCopyHead, TypeOK, Record
    <3>3. CASE DrainCopyBody
      BY <3>3 DEF DrainCopyBody, Window, TypeOK, Record
    <3> QED BY <1>2, <3>1, <3>2, <3>3
  <2>3. cpc' \in {"body", "release"} => drain_pos < seq_counter
    BY <1>2, DrainSlotType DEF DrainReady, DrainCopyHead, DrainCopyBody, SlotInv, Reading,
       Window, ReadyInWindow, TypeOK, Record
  <2>4. \A s \in Slots : ReadyInWindow(s) => ReadyInWindow(s)'
    BY SMTT(30), <1>1, <2>1 DEF ReadyInWindow
  <2> QED BY <1>1, <2>1, <2>2, <2>3, <2>4 DEF Window
<1>3. CASE DrainRelease
  <2>1. /\ committed' = [committed EXCEPT ![DrainSlot] = 0] /\ cpc' = "advance"
        /\ UNCHANGED <<drain_pos, out, delivered, DrainSlot>>
        /\ cpc = "release" /\ committed[DrainSlot] = 1
    BY <1>3 DEF DrainRelease, DrainSlot, SlotInv, Reading
  <2>2. ring[DrainSlot].sequence_no = drain_pos + 1
    BY <2>1, NextIsReady
  <2>3. \A q \in Producers : Active(q) => seq[q] # drain_pos + 1
    BY SMTT(30), <2>1, <2>2, DrainSlotType DEF Window, ReadyInWindow
  <2>4. \A s \in Slots : committed'[s] = 1 => ReadyInWindow(s)'
    BY <1>1, <2>1 DEF Window, ReadyInWindow, TypeOK
  <2>5. committed'[DrainSlot] = 0
    BY SMTT(30), <2>1, DrainSlotType DEF TypeOK
  <2> QED BY <1>1, <2>1, <2>3, <2>4, <2>5 DEF Window
<1>4. CASE DrainAdvance
  <2>1. /\ drain_pos' = drain_pos + 1 /\ delivered' = Append(delivered, out)
        /\ cpc' = "idle" /\ UNCHANGED committed
        /\ out.sequence_no = drain_pos + 1 /\ drain_pos < seq_counter
        /\ committed[DrainSlot] = 0
    BY SMTT(30), <1>4 DEF DrainAdvance, Window
  <2>2. \A q \in Producers : Active(q) => drain_pos + 1 < seq[q]
    BY <1>4 DEF DrainAdvance, Window, TypeOK
  <2>3. ASSUME NEW s \in Slots, committed'[s] = 1
        PROVE  ReadyInWindow(s)'
    <3>1. ReadyInWindow(s) /\ ring[s].sequence_no \in Nat
      BY <2>1, <2>3 DEF Window, TypeOK, Record
    <3>2. ring[s].sequence_no # drain_pos + 1
      BY <2>1, <2>3, <3>1 DEF ReadyInWindow, DrainSlot
    <3> QED BY SMTT(30), <1>1, <2>1, <3>1, <3>2 DEF ReadyInWindow, TypeOK
  <2>4. /\ Len(delivered') = drain_pos'
        /\ \A i \in DOMAIN delivered' : delivered'[i].sequence_no = i
    <3>1. Len(delivered) = drain_pos /\ \A i \in DOMAIN delivered : delivered[i].sequence_no = i
      BY DEF Window
    <3>2. delivered \in Seq(Record) /\ out \in Record
      BY DEF TypeOK
    <3>3. /\ Len(delivered') = drain_pos + 1
          /\ DOMAIN delivered' = 1 .. drain_pos + 1
          /\ delivered'[drain_pos + 1] = out
          /\ \A i \in 1 .. drain_pos : delivered'[i] = delivered[i]
      BY <2>1, <3>1, <3>2
    <3> QED BY <2>1, <3>1, <3>2, <3>3 DEF TypeOK
  <2> QED
    BY SMTT(30), <1>1, <2>1, <2>2, <2>3, <2>4, RingSizeAssumption DEF Window, TypeOK
<1> QED BY <1>2, <1>3, <1>4 DEF drain

\* The flag lapped stays set, and a call that leaves it clear is not a lap.
LEMMA LappedNext ==
    ASSUME TypeOK, [Next]_vars, ~lapped'
    PROVE  /\ ~lapped
           /\ \A p \in Producers :
                 stamp_order(p) \/ stamp_cancel(p) => seq_counter + 1 <= drain_pos + RingSize
<1>1. ASSUME NEW p \in Producers, stamp_order(p) \/ stamp_cancel(p)
      PROVE  ~lapped /\ seq_counter + 1 <= drain_pos + RingSize
  <2>1. ~lapped /\ ~(seq_counter + 1 > drain_pos + RingSize)
    BY <1>1, Zenon DEF stamp_order, stamp_cancel, TakeNumber
  <2> QED BY <2>1, RingSizeAssumption DEF TypeOK
<1>2. ASSUME NEW p \in Producers, Stamp(p) PROVE ~lapped
  BY <1>2 DEF Stamp, StampDrop, StampClaim, StampWriteHead, StampWriteBody,
              StampCommit, StampCount
<1>3. ASSUME drain PROVE ~lapped
  BY <1>3 DEF drain, DrainReady, DrainCopyHead, DrainCopyBody, DrainRelease, DrainAdvance
<1>4. ASSUME UNCHANGED vars PROVE ~lapped
  BY <1>4 DEF vars
<1> QED BY <1>1, <1>2, <1>3, <1>4 DEF Next

WindowInv == ~lapped => Window

\* Every step keeps the window while no call is lapped.
LEMMA WindowNext ==
    TypeOK /\ SlotInv /\ TornInv /\ WindowInv /\ [Next]_vars => WindowInv'
<1> SUFFICES ASSUME TypeOK, SlotInv, TornInv, WindowInv, [Next]_vars, ~lapped'
             PROVE  Window'
  BY DEF WindowInv
<1>1. Window
  BY LappedNext DEF WindowInv
<1>2. ASSUME NEW p \in Producers, stamp_order(p) \/ stamp_cancel(p) PROVE Window'
  BY <1>1, <1>2, LappedNext, TakesNumber, WindowTake
<1>3. ASSUME NEW p \in Producers, Stamp(p) PROVE Window'
  BY <1>1, <1>3, WindowStamp
<1>4. CASE drain
  BY SMTT(30), <1>1, <1>4, WindowDrain
<1>5. CASE UNCHANGED vars
  BY <1>1, <1>5 DEF vars, statVars, callVars, drainVars, Window, ReadyInWindow, Active,
     Writing, DrainSlot
<1> QED BY <1>2, <1>3, <1>4, <1>5 DEF Next

\* As long as no number is handed out a whole ring ahead of the engine, the engine
\* receives the numbers 1, 2, 3, ... in order and without a gap.
THEOREM InOrder == Spec => []InOrderUnlessLapped
<1>1. WindowInv => InOrderUnlessLapped
  BY DEF WindowInv, Window, InOrderUnlessLapped
<1>2. Init => WindowInv
  BY WindowInit DEF WindowInv
<1> QED
  BY <1>1, <1>2, TypeInit, TypeNext, SlotInvInit, SlotInvNext, TornInvInit,
     TornInvNext, WindowNext, PTL DEF Spec

-----------------------------------------------------------------------------
(* No order is lost unseen.  A number moves from its gateway thread to a     *)
(* ready slot, from there into the engine's copy and then into the history,  *)
(* and is never in two of these places; only a drop takes it out of all of   *)
(* them, and drops_ counts it.                                               *)

Numbers == 1 .. seq_counter
Somewhere(n) == InFlight(n) \/ InRing(n) \/ Copied(n) \/ Delivered(n)
Gone == {n \in Numbers : ~Somewhere(n)}

\* A thread's number is in no other place and no other thread has it.
Flying ==
    /\ \A p \in Producers : Active(p) =>
          /\ seq[p] \in Numbers
          /\ ~InRing(seq[p]) /\ ~Copied(seq[p]) /\ ~Delivered(seq[p])
    /\ \A p, q \in Producers : Active(p) /\ Active(q) /\ seq[p] = seq[q] => p = q
\* Nor is the number of a ready slot, which is the slot of its number.
Ready ==
    \A s \in Slots : committed[s] = 1 =>
      /\ ring[s].sequence_no \in Numbers /\ Slot(ring[s].sequence_no) = s
      /\ ~Copied(ring[s].sequence_no) /\ ~Delivered(ring[s].sequence_no)
\* Nor the number of the copy, which is that of the slot until the release.
CopyOnce ==
    /\ cpc = "release" => out.sequence_no = ring[DrainSlot].sequence_no
    /\ cpc = "advance" => out.sequence_no \in Numbers /\ ~Delivered(out.sequence_no)
\* The history has every number once.
Once ==
    /\ \A i \in DOMAIN delivered : delivered[i].sequence_no \in Numbers
    /\ \A i, j \in DOMAIN delivered :
          delivered[i].sequence_no = delivered[j].sequence_no => i = j
PlaceInv == Flying /\ Ready /\ CopyOnce /\ Once

\* The first place in terms of the threads, as the proofs use it, before and after a step.
LEMMA FlightActive ==
    /\ \A n : InFlight(n) <=> \E p \in Producers : Active(p) /\ seq[p] = n
    /\ \A n : InFlight(n)' <=> \E p \in Producers : Active(p)' /\ seq'[p] = n
BY Zenon DEF InFlight, Active

LossInv == PlaceInv /\ drops = Cardinality(Gone)

\* Numbers that were handed out are finitely many.
LEMMA GoneFinite == ASSUME TypeOK PROVE IsFiniteSet(Gone)
<1>1. IsFiniteSet(Numbers)
  BY FS_Interval DEF TypeOK, Numbers
<1>2. Gone \in SUBSET Numbers
  BY Zenon DEF Gone
<1> QED BY Zenon, <1>1, <1>2, FS_Subset

\* A new sequencer has no number anywhere.
LEMMA LossInit == Init => LossInv
<1> SUFFICES ASSUME Init PROVE LossInv
  OBVIOUS
<1>1. /\ Numbers = {} /\ delivered = <<>> /\ cpc # "release" /\ cpc # "advance"
      /\ \A p \in Producers : ~Active(p)
      /\ \A s \in Slots : committed[s] # 1
  BY DEF Init, Numbers, Active, Writing
<1>2. DOMAIN delivered = {}
  BY <1>1
<1>3. PlaceInv
  BY Zenon, <1>1, <1>2 DEF PlaceInv, Flying, Ready, CopyOnce, Once
<1>4. Gone = {}
  BY Zenon, <1>1 DEF Gone
<1> QED BY <1>3, <1>4, FS_EmptySet DEF Init, LossInv

\* A call takes a number that nobody has.
LEMMA LossTake ==
    ASSUME TypeOK, LossInv, NEW p \in Producers, TookNumber(p)
    PROVE  LossInv'
<1> DEFINE new == seq_counter + 1
<1>0. Flying /\ Ready /\ CopyOnce /\ Once /\ drops = Cardinality(Gone)
  BY Zenon DEF LossInv, PlaceInv
<1>1. /\ seq_counter' = new /\ seq' = [seq EXCEPT ![p] = new] /\ ~Active(p)
      /\ UNCHANGED <<committed, ring, drops, drain_pos, cpc, out, delivered>>
      /\ seq_counter \in Nat /\ seq \in [Producers -> Nat]
  BY DEF TookNumber, drainVars, statVars, TypeOK, Active, Writing
<1>2. \A q \in Producers : Active(q)' <=> (q = p \/ Active(q))
  BY DEF TypeOK, TookNumber, Active, Writing
<1>3. /\ UNCHANGED DrainSlot
      /\ \A n : InRing(n)' <=> InRing(n)
      /\ \A n : Copied(n)' <=> Copied(n)
      /\ \A n : Delivered(n)' <=> Delivered(n)
  BY Zenon, <1>1 DEF InRing, Copied, Delivered, DrainSlot
<1>4. Numbers' = Numbers \cup {new} /\ new \notin Numbers
  BY <1>1 DEF Numbers
<1>5. /\ seq'[p] = new /\ \A q \in Producers : q # p => seq'[q] = seq[q]
  BY <1>1
<1> HIDE DEF new
<1>6. ~InRing(new) /\ ~Copied(new) /\ ~Delivered(new)
  BY Zenon, <1>0, <1>4 DEF Ready, CopyOnce, Once, InRing, Copied, Delivered
<1>7. \A n : InFlight(n)' <=> (n = new \/ InFlight(n))
  BY Zenon, <1>1, <1>2, <1>5, FlightActive
<1>8. Gone' = Gone
  <2> \A n \in Numbers : Somewhere(n)' <=> Somewhere(n)
    BY Zenon, <1>3, <1>4, <1>7 DEF Somewhere
  <2> \A n : n = new => Somewhere(n)'
    BY Zenon, <1>7 DEF Somewhere
  <2> QED BY Zenon, <1>4 DEF Gone
<1>9. Flying'
  BY Zenon, <1>0, <1>2, <1>3, <1>4, <1>5, <1>6 DEF Flying
<1>10. Ready'
  BY Zenon, <1>0, <1>1, <1>3, <1>4 DEF Ready
<1>11. CopyOnce' /\ Once'
  BY Zenon, <1>0, <1>1, <1>3, <1>4 DEF CopyOnce, Once
<1> QED BY Zenon, <1>0, <1>1, <1>8, <1>9, <1>10, <1>11 DEF LossInv, PlaceInv

\* A drop takes the number out of its only place.
LEMMA LossDrop ==
    ASSUME TypeOK, LossInv, NEW p \in Producers, StampDrop(p)
    PROVE  LossInv'
<1>0. Flying /\ Ready /\ CopyOnce /\ Once /\ drops = Cardinality(Gone)
  BY Zenon DEF LossInv, PlaceInv
<1>1. /\ UNCHANGED <<seq_counter, seq, committed, ring, drain_pos, cpc, out, delivered>>
      /\ drops' = drops + 1 /\ Active(p)
  BY DEF StampDrop, callVars, drainVars, Active
<1>2. \A q \in Producers : Active(q)' <=> (q # p /\ Active(q))
  BY DEF TypeOK, StampDrop, Active, Writing
<1>3. /\ UNCHANGED <<DrainSlot, Numbers>>
      /\ \A n : InRing(n)' <=> InRing(n)
      /\ \A n : Copied(n)' <=> Copied(n)
      /\ \A n : Delivered(n)' <=> Delivered(n)
  BY Zenon, <1>1 DEF InRing, Copied, Delivered, DrainSlot, Numbers
<1>4. \A n : InFlight(n)' <=> (n # seq[p] /\ InFlight(n))
  BY Zenon, <1>0, <1>1, <1>2, FlightActive DEF Flying
<1>5. /\ InFlight(seq[p]) /\ seq[p] \in Numbers
      /\ ~InRing(seq[p]) /\ ~Copied(seq[p]) /\ ~Delivered(seq[p])
  BY Zenon, <1>0, <1>1, FlightActive DEF Flying
<1>6. Gone' = Gone \cup {seq[p]} /\ seq[p] \notin Gone
  <2>1. Somewhere(seq[p]) /\ \A n : n = seq[p] => ~Somewhere(n)'
    BY Zenon, <1>3, <1>4, <1>5 DEF Somewhere
  <2>2. \A n : n # seq[p] => (Somewhere(n)' <=> Somewhere(n))
    BY Zenon, <1>3, <1>4 DEF Somewhere
  <2> QED BY Zenon, <1>3, <1>5, <2>1, <2>2 DEF Gone
<1>7. drops' = Cardinality(Gone')
  <2> Cardinality(Gone \cup {seq[p]}) = Cardinality(Gone) + 1
    BY Zenon, <1>6, GoneFinite, FS_AddElement
  <2> QED BY Zenon, <1>0, <1>1, <1>6
<1>8. Flying' /\ Ready' /\ CopyOnce' /\ Once'
  BY Zenon, <1>0, <1>1, <1>2, <1>3 DEF Flying, Ready, CopyOnce, Once
<1> QED BY Zenon, <1>7, <1>8 DEF LossInv, PlaceInv

\* What a step has to establish that moves no number to another place.
LEMMA LossFrame ==
    ASSUME LossInv,
           UNCHANGED <<seq_counter, seq, drops, delivered>>,
           \A q \in Producers : Active(q)' <=> Active(q),
           \A s \in Slots : committed'[s] = 1 <=> committed[s] = 1,
           \A s \in Slots : committed[s] = 1 => ring'[s].sequence_no = ring[s].sequence_no,
           \A n : Copied(n)' <=> Copied(n),
           cpc' = "release" => (out.sequence_no = ring[DrainSlot].sequence_no)'
    PROVE  LossInv'
<1>0. Flying /\ Ready /\ CopyOnce /\ Once /\ drops = Cardinality(Gone)
  BY Zenon DEF LossInv, PlaceInv
<1>1. seq_counter' = seq_counter /\ seq' = seq /\ drops' = drops /\ delivered' = delivered
  OBVIOUS
<1>2. /\ Numbers' = Numbers
      /\ \A n : InFlight(n)' <=> InFlight(n)
      /\ \A n : Delivered(n)' <=> Delivered(n)
      /\ \A n : InRing(n)' <=> InRing(n)
  BY Zenon, <1>1, FlightActive DEF Numbers, Delivered, InRing
<1>3. Gone' = Gone
  BY Zenon, <1>2 DEF Gone, Somewhere
<1>4. CopyOnce'
  BY Zenon, <1>0, <1>2 DEF CopyOnce, Copied
<1>5. Flying' /\ Ready' /\ Once'
  BY Zenon, <1>0, <1>1, <1>2 DEF Flying, Ready, Once
<1> QED BY Zenon, <1>0, <1>1, <1>3, <1>4, <1>5 DEF LossInv, PlaceInv

\* Writing into a claimed slot moves no number.
LEMMA LossWrite ==
    ASSUME TypeOK, SlotInv, LossInv, NEW p \in Producers,
           StampClaim(p) \/ StampWriteHead(p) \/ StampWriteBody(p) \/ StampCount(p)
    PROVE  LossInv'
<1>1. PICK s0 \in Slots : s0 = Slot(seq[p])
  BY SlotType DEF TypeOK
<1>2. /\ UNCHANGED <<seq_counter, seq, drops, drain_pos, cpc, out, delivered>>
      /\ \A q \in Producers : Active(q)' <=> Active(q)
  BY DEF StampClaim, StampWriteHead, StampWriteBody, StampCount, statVars, callVars,
         drainVars, TypeOK, Active, Writing
<1>3. UNCHANGED DrainSlot /\ \A n : Copied(n)' <=> Copied(n)
  BY Zenon, <1>2 DEF DrainSlot, Copied
<1>4. /\ \A s \in Slots : committed'[s] = 1 <=> committed[s] = 1
      /\ \A s \in Slots : committed[s] = 1 => ring'[s] = ring[s]
  BY <1>1 DEF StampClaim, StampWriteHead, StampWriteBody, StampCount, SlotInv, Writing, TypeOK
<1>5. cpc' = "release" => (out.sequence_no = ring[DrainSlot].sequence_no)'
  BY Zenon, <1>2, <1>3, <1>4, DrainSlotType DEF LossInv, PlaceInv, CopyOnce, SlotInv, Reading
<1> QED BY Zenon, <1>2, <1>3, <1>4, <1>5, LossFrame

\* A commit moves the number from the thread to its slot.
LEMMA LossCommit ==
    ASSUME TypeOK, SlotInv, TornInv, LossInv, NEW p \in Producers, StampCommit(p)
    PROVE  LossInv'
<1>0. Flying /\ Ready /\ CopyOnce /\ Once /\ drops = Cardinality(Gone)
  BY Zenon DEF LossInv, PlaceInv
<1>1. PICK s0 \in Slots : s0 = Slot(seq[p])
  BY SlotType DEF TypeOK
<1>2. /\ UNCHANGED <<seq_counter, seq, drops, ring, drain_pos, cpc, out, delivered>>
      /\ Active(p) /\ \A q \in Producers : Active(q)' <=> (q # p /\ Active(q))
  BY SMTT(60) DEF StampCommit, statVars, callVars, drainVars, TypeOK, Active, Writing
<1>3. /\ committed[s0] = 2 /\ ring[s0].sequence_no = seq[p]
      /\ \A s \in Slots : committed'[s] = 1 <=> (s = s0 \/ committed[s] = 1)
  BY <1>1 DEF StampCommit, SlotInv, TornInv, Writing, TypeOK
<1>4. /\ UNCHANGED <<DrainSlot, Numbers>>
      /\ \A n : Copied(n)' <=> Copied(n)
      /\ \A n : Delivered(n)' <=> Delivered(n)
  BY Zenon, <1>2 DEF Copied, Delivered, DrainSlot, Numbers
<1>5. \A n : InFlight(n)' <=> (n # seq[p] /\ InFlight(n))
  BY Zenon, <1>0, <1>2, FlightActive DEF Flying
<1>6. \A n : InRing(n)' <=> (n = seq[p] \/ InRing(n))
  BY Zenon, <1>2, <1>3 DEF InRing
<1>7. InFlight(seq[p]) /\ seq[p] \in Numbers /\ ~Copied(seq[p]) /\ ~Delivered(seq[p])
  BY Zenon, <1>0, <1>2, FlightActive DEF Flying
<1>8. Gone' = Gone
  <2> \A n : Somewhere(n)' <=> Somewhere(n)
    BY Zenon, <1>4, <1>5, <1>6, <1>7 DEF Somewhere
  <2> QED BY Zenon, <1>4 DEF Gone
<1>9. Flying'
  BY Zenon, <1>0, <1>2, <1>4, <1>6 DEF Flying
<1>10. Ready'
  BY Zenon, <1>0, <1>1, <1>2, <1>3, <1>4, <1>7 DEF Ready
<1>11. CopyOnce' /\ Once'
  BY Zenon, <1>0, <1>2, <1>4 DEF CopyOnce, Once
<1> QED BY Zenon, <1>0, <1>2, <1>8, <1>9, <1>10, <1>11 DEF LossInv, PlaceInv

\* The copy of a record: its number is the one in the slot until the release.
LEMMA LossCopy ==
    ASSUME TypeOK, SlotInv, TornInv, LossInv, DrainReady \/ DrainCopyHead \/ DrainCopyBody
    PROVE  LossInv'
<1>1. /\ UNCHANGED <<seq_counter, seq, drops, pc, committed, ring, drain_pos, delivered>>
      /\ cpc # "advance" /\ cpc' # "advance"
  BY DEF DrainReady, DrainCopyHead, DrainCopyBody, statVars, callVars
<1>2. /\ \A q \in Producers : Active(q)' <=> Active(q)
      /\ \A n : Copied(n)' <=> Copied(n)
  BY Zenon, <1>1 DEF Active, Writing, Copied
<1>3. cpc' = "release" => (out.sequence_no = ring[DrainSlot].sequence_no)'
  BY SMTT(60), <1>1 DEF DrainReady, DrainCopyHead, DrainCopyBody, TornInv, TypeOK, Record, DrainSlot
<1> QED BY Zenon, <1>1, <1>2, <1>3, LossFrame

\* The release moves the number from its slot to the copy.
LEMMA LossRelease ==
    ASSUME TypeOK, SlotInv, LossInv, DrainRelease
    PROVE  LossInv'
<1> PICK n0 : n0 = out.sequence_no
  OBVIOUS
<1>0. Flying /\ Ready /\ CopyOnce /\ Once /\ drops = Cardinality(Gone)
  BY Zenon DEF LossInv, PlaceInv
<1>1. /\ UNCHANGED <<seq_counter, seq, drops, pc, ring, drain_pos, out, delivered>>
      /\ cpc = "release" /\ cpc' = "advance" /\ committed' = [committed EXCEPT ![DrainSlot] = 0]
  BY DEF DrainRelease, statVars, callVars, DrainSlot
<1>2. DrainSlot \in Slots /\ committed[DrainSlot] = 1 /\ n0 = ring[DrainSlot].sequence_no
  BY Zenon, <1>0, <1>1, DrainSlotType DEF SlotInv, Reading, CopyOnce
<1>3. /\ UNCHANGED <<DrainSlot, Numbers>>
      /\ \A q \in Producers : Active(q)' <=> Active(q)
      /\ \A n : Delivered(n)' <=> Delivered(n)
      /\ \A n : Copied(n)' <=> n = n0
      /\ \A n : ~Copied(n)
  BY <1>1 DEF Active, Writing, Delivered, Copied, DrainSlot, Numbers
<1>4. \A s \in Slots : committed'[s] = 1 <=> (s # DrainSlot /\ committed[s] = 1)
  BY <1>1, <1>2 DEF TypeOK
<1>5. InRing(n0) /\ n0 \in Numbers /\ ~Delivered(n0) /\ Slot(n0) = DrainSlot
  BY Zenon, <1>0, <1>2 DEF Ready, InRing
<1>6. \A n : InRing(n)' <=> (n # n0 /\ InRing(n))
  <2>1. ring' = ring
    BY <1>1
  <2>2. \A s \in Slots : committed[s] = 1 => (ring[s].sequence_no = n0 <=> s = DrainSlot)
    BY Zenon, <1>0, <1>2, <1>5 DEF Ready
  <2> QED BY Zenon, <1>4, <2>1, <2>2 DEF InRing
<1>7. Gone' = Gone
  <2> \A n : InFlight(n)' <=> InFlight(n)
    BY Zenon, <1>1, <1>3, FlightActive
  <2> \A n : Somewhere(n)' <=> Somewhere(n)
    BY Zenon, <1>3, <1>5, <1>6 DEF Somewhere
  <2> QED BY Zenon, <1>3 DEF Gone
<1>8. Flying'
  BY Zenon, <1>0, <1>1, <1>3, <1>5, <1>6 DEF Flying
<1>9. Ready'
  <2>1. ring' = ring
    BY <1>1
  <2>2. \A s \in Slots : committed'[s] = 1 => committed[s] = 1 /\ ring[s].sequence_no # n0
    BY Zenon, <1>0, <1>4, <1>5 DEF Ready
  <2> QED BY Zenon, <1>0, <1>3, <2>1, <2>2 DEF Ready
<1>10. CopyOnce' /\ Once'
  BY Zenon, <1>0, <1>1, <1>3, <1>5 DEF CopyOnce, Once
<1> QED BY Zenon, <1>0, <1>1, <1>7, <1>8, <1>9, <1>10 DEF LossInv, PlaceInv

\* The end of drain moves it from the copy to the history.
LEMMA LossAdvance ==
    ASSUME TypeOK, LossInv, DrainAdvance
    PROVE  LossInv'
<1> DEFINE n0 == out.sequence_no
<1>0. Flying /\ Ready /\ CopyOnce /\ Once /\ drops = Cardinality(Gone)
  BY Zenon DEF LossInv, PlaceInv
<1>1. /\ UNCHANGED <<seq_counter, seq, drops, pc, ring, committed, out>>
      /\ cpc = "advance" /\ cpc' = "idle" /\ delivered' = Append(delivered, out)
      /\ delivered \in Seq(Record) /\ out \in Record
  BY DEF DrainAdvance, statVars, callVars, TypeOK
<1>2. /\ UNCHANGED Numbers /\ \A q \in Producers : Active(q)' <=> Active(q)
      /\ n0 \in Numbers /\ ~Delivered(n0) /\ \A n : Copied(n) <=> n = n0
      /\ \A n : ~Copied(n)'
      /\ \A n : InRing(n)' <=> InRing(n)
  BY <1>0, <1>1 DEF Numbers, Active, Writing, CopyOnce, Copied, InRing
<1>3. /\ DOMAIN delivered' = DOMAIN delivered \cup {Len(delivered) + 1}
      /\ delivered'[Len(delivered) + 1] = out
      /\ \A i \in DOMAIN delivered : delivered'[i] = delivered[i]
  BY <1>1
<1>4. \A n : InFlight(n)' <=> InFlight(n)
  BY Zenon, <1>1, <1>2, FlightActive
<1>5. \A n : Delivered(n)' <=> (n = n0 \/ Delivered(n))
  BY Zenon, <1>3 DEF Delivered
<1>6. Gone' = Gone
  <2> \A n : Somewhere(n)' <=> Somewhere(n)
    BY Zenon, <1>2, <1>4, <1>5 DEF Somewhere
  <2> QED BY Zenon, <1>2 DEF Gone
<1>7. Flying'
  BY Zenon, <1>0, <1>1, <1>2, <1>5 DEF Flying
<1>8. Ready'
  BY Zenon, <1>0, <1>1, <1>2, <1>5 DEF Ready
<1>9. Once'
  BY Zenon, <1>0, <1>2, <1>3 DEF Once, Delivered
<1>10. CopyOnce'
  BY <1>1 DEF CopyOnce
<1> QED BY Zenon, <1>0, <1>1, <1>6, <1>7, <1>8, <1>9, <1>10 DEF LossInv, PlaceInv

\* No step loses a number unseen.
LEMMA LossNext == TypeOK /\ SlotInv /\ TornInv /\ LossInv /\ [Next]_vars => LossInv'
<1> SUFFICES ASSUME TypeOK, SlotInv, TornInv, LossInv, [Next]_vars PROVE LossInv'
  OBVIOUS
<1>1. ASSUME NEW p \in Producers, stamp_order(p) \/ stamp_cancel(p) PROVE LossInv'
  BY <1>1, TakesNumber, LossTake
<1>2. ASSUME NEW p \in Producers, Stamp(p) PROVE LossInv'
  BY <1>2, LossDrop, LossWrite, LossCommit DEF Stamp
<1>3. CASE drain
  BY SMTT(60), <1>3, LossCopy, LossRelease, LossAdvance DEF drain
<1>4. CASE UNCHANGED vars
  <2>1. \A q \in Producers : Active(q)' <=> Active(q)
    BY <1>4 DEF vars, callVars, Active, Writing
  <2>2. /\ UNCHANGED <<seq_counter, seq, drops, committed, ring, cpc, out, delivered, DrainSlot>>
        /\ \A n : Copied(n)' <=> Copied(n)
    BY <1>4 DEF vars, statVars, callVars, drainVars, DrainSlot, Copied
  <2> QED BY Zenon, <2>1, <2>2, LossFrame DEF LossInv, PlaceInv, CopyOnce
<1> QED BY <1>1, <1>2, <1>3, <1>4 DEF Next

\* Every number handed out is with its thread, in a ready slot or returned once, or was
\* counted in drops_: for any number of threads and any ring size, lapped or not.
THEOREM LossCounted == Spec => []NoSilentLoss
<1>1. TypeOK /\ LossInv => NoSilentLoss
  <2> SUFFICES ASSUME TypeOK, LossInv PROVE NoSilentLoss
    OBVIOUS
  <2>1. Gone = {n \in 1 .. seq_counter :
                   ~InFlight(n) /\ ~InRing(n) /\ ~Copied(n) /\ ~Delivered(n)}
    BY DEF Gone, Somewhere, Numbers
  <2>2. \A n : Delivered(n) => ~InFlight(n) /\ ~InRing(n) /\ ~Copied(n)
    <3> Flying /\ Ready /\ CopyOnce
      BY Zenon DEF LossInv, PlaceInv
    <3>1. \A n : Delivered(n) => ~InFlight(n)
      BY FlightActive DEF Flying
    <3>2. \A n : Delivered(n) => ~InRing(n)
      BY DEF Ready, InRing
    <3>3. \A n : Delivered(n) => ~Copied(n)
      BY DEF CopyOnce, Copied
    <3> QED BY Zenon, <3>1, <3>2, <3>3
  <2> QED BY Zenon, <2>1, <2>2 DEF LossInv, PlaceInv, Once, NoSilentLoss
<1> QED
  BY <1>1, TypeInit, TypeNext, SlotInvInit, SlotInvNext, TornInvInit, TornInvNext,
     LossInit, LossNext, PTL DEF Spec
=============================================================================
