--------------------------- MODULE OrderSequencer ---------------------------
(***************************************************************************)
(* The lock-free MPSC sequencer of exchange/include/exchange/sequencer.hpp. *)
(* Gateway threads call stamp_order / stamp_cancel concurrently; the match  *)
(* engine thread calls drain.  One action per atomic access, and the copy   *)
(* of a SequencedOrder is two accesses (its sequence_no, then its body), so *)
(* that an overlap of a writer and a reader would be seen as a torn record. *)
(*                                                                          *)
(* The body of a record is abstracted to the call that wrote it: its kind   *)
(* and the number the call was given.                                       *)
(***************************************************************************)
EXTENDS Naturals, Sequences, FiniteSets

CONSTANTS Producers,   \* gateway threads
          RingSize,    \* SEQ_RING_SIZE
          MaxSeq       \* bound: calls of stamp in a behaviour

ASSUME RingSizeAssumption == RingSize \in Nat \ {0}
ASSUME MaxSeqAssumption == MaxSeq \in Nat

VARIABLES
    seq_counter,    \* seq_counter_: numbers handed out
    committed,      \* committed_: 0 = empty, 1 = ready, 2 = being written
    ring,           \* ring_: the records
    drops,          \* drops_
    total_stamped,  \* total_stamped_
    drain_pos,      \* drain_pos_, private to the engine thread
    total_drained,  \* total_drained_
    pc, seq, kind,  \* of a gateway thread: its place in stamp, its number, its call
    cpc, out,       \* of the engine thread: its place in drain, the copy
    delivered,      \* history: the records drain returned, in order
    lapped          \* history: a number was handed out a whole ring ahead of drain_pos

callVars  == <<seq, kind>>
drainVars == <<drain_pos, total_drained, cpc, out, delivered>>
statVars  == <<drops, total_stamped>>
vars == <<seq_counter, committed, ring, statVars, pc, callVars, drainVars, lapped>>

Kinds == {"ORDER_ENTRY", "CANCEL_REQUEST"}
Slots == 0 .. RingSize - 1
Body  == [kind : Kinds, seq : Nat]
Record == [sequence_no : Nat, body : Body]

Slot(n) == n % RingSize

\* The memset of init() leaves sequence_no 0, which is never handed out.
Blank == [sequence_no |-> 0, body |-> [kind |-> "ORDER_ENTRY", seq |-> 0]]

Init ==
    /\ seq_counter = 0
    /\ committed = [s \in Slots |-> 0]
    /\ ring = [s \in Slots |-> Blank]
    /\ drops = 0
    /\ total_stamped = 0
    /\ drain_pos = 0
    /\ total_drained = 0
    /\ pc = [p \in Producers |-> "idle"]
    /\ seq = [p \in Producers |-> 0]
    /\ kind = [p \in Producers |-> "ORDER_ENTRY"]
    /\ cpc = "idle"
    /\ out = Blank
    /\ delivered = <<>>
    /\ lapped = FALSE

-----------------------------------------------------------------------------
(* stamp: the two entry points differ only in the record they write.        *)

\* seq_counter_.fetch_add(1) + 1
TakeNumber(p, k) ==
    /\ pc[p] = "idle"
    /\ seq_counter < MaxSeq
    /\ seq_counter' = seq_counter + 1
    /\ seq' = [seq EXCEPT ![p] = seq_counter + 1]
    /\ kind' = [kind EXCEPT ![p] = k]
    /\ pc' = [pc EXCEPT ![p] = "claim"]
    /\ lapped' = (lapped \/ seq_counter + 1 > drain_pos + RingSize)
    /\ UNCHANGED <<committed, ring, statVars, drainVars>>

stamp_order(p)  == TakeNumber(p, "ORDER_ENTRY")
stamp_cancel(p) == TakeNumber(p, "CANCEL_REQUEST")

\* The compare-exchange 0 -> 2 fails: count the drop and return 0.
StampDrop(p) ==
    /\ pc[p] = "claim"
    /\ committed[Slot(seq[p])] # 0
    /\ drops' = drops + 1
    /\ pc' = [pc EXCEPT ![p] = "idle"]
    /\ UNCHANGED <<seq_counter, committed, ring, total_stamped, callVars, drainVars, lapped>>

\* Mutant: the slot is taken with a plain store, without testing the flag.
StampClaimUnchecked(p) ==
    /\ pc[p] = "claim"
    /\ committed' = [committed EXCEPT ![Slot(seq[p])] = 2]
    /\ pc' = [pc EXCEPT ![p] = "head"]
    /\ UNCHANGED <<seq_counter, ring, statVars, callVars, drainVars, lapped>>

\* Mutant: the claim already marks the record ready.
StampClaimReady(p) ==
    /\ pc[p] = "claim"
    /\ committed[Slot(seq[p])] = 0
    /\ committed' = [committed EXCEPT ![Slot(seq[p])] = 1]
    /\ pc' = [pc EXCEPT ![p] = "head"]
    /\ UNCHANGED <<seq_counter, ring, statVars, callVars, drainVars, lapped>>

\* The compare-exchange 0 -> 2 succeeds.
StampClaim(p) ==
    /\ pc[p] = "claim"
    /\ committed[Slot(seq[p])] = 0
    /\ committed' = [committed EXCEPT ![Slot(seq[p])] = 2]
    /\ pc' = [pc EXCEPT ![p] = "head"]
    /\ UNCHANGED <<seq_counter, ring, statVars, callVars, drainVars, lapped>>

StampWriteHead(p) ==
    /\ pc[p] = "head"
    /\ ring' = [ring EXCEPT ![Slot(seq[p])].sequence_no = seq[p]]
    /\ pc' = [pc EXCEPT ![p] = "body"]
    /\ UNCHANGED <<seq_counter, committed, statVars, callVars, drainVars, lapped>>

StampWriteBody(p) ==
    /\ pc[p] = "body"
    /\ ring' = [ring EXCEPT ![Slot(seq[p])].body =
                    [kind |-> kind[p], seq |-> seq[p]]]
    /\ pc' = [pc EXCEPT ![p] = "commit"]
    /\ UNCHANGED <<seq_counter, committed, statVars, callVars, drainVars, lapped>>

\* committed_[slot].store(1, release)
StampCommit(p) ==
    /\ pc[p] = "commit"
    /\ committed' = [committed EXCEPT ![Slot(seq[p])] = 1]
    /\ pc' = [pc EXCEPT ![p] = "count"]
    /\ UNCHANGED <<seq_counter, ring, statVars, callVars, drainVars, lapped>>

\* total_stamped_.fetch_add(1), after the record is already visible.
StampCount(p) ==
    /\ pc[p] = "count"
    /\ total_stamped' = total_stamped + 1
    /\ pc' = [pc EXCEPT ![p] = "idle"]
    /\ UNCHANGED <<seq_counter, committed, ring, drops, callVars, drainVars, lapped>>

-----------------------------------------------------------------------------
(* drain: only the engine thread.  drain_batch is a sequence of these.      *)

\* Mutant: drain starts at slot 0, though the first number is 1.
DrainSlotFromZero == Slot(drain_pos)

DrainSlot == Slot(drain_pos + 1)

\* Returning false when the slot is not ready changes nothing.
DrainReady ==
    /\ cpc = "idle"
    /\ committed[DrainSlot] = 1
    /\ cpc' = "head"
    /\ UNCHANGED <<seq_counter, committed, ring, statVars, pc, callVars,
                   drain_pos, total_drained, out, delivered, lapped>>

DrainCopyHead ==
    /\ cpc = "head"
    /\ out' = [out EXCEPT !.sequence_no = ring[DrainSlot].sequence_no]
    /\ cpc' = "body"
    /\ UNCHANGED <<seq_counter, committed, ring, statVars, pc, callVars,
                   drain_pos, total_drained, delivered, lapped>>

DrainCopyBody ==
    /\ cpc = "body"
    /\ out' = [out EXCEPT !.body = ring[DrainSlot].body]
    /\ cpc' = "release"
    /\ UNCHANGED <<seq_counter, committed, ring, statVars, pc, callVars,
                   drain_pos, total_drained, delivered, lapped>>

\* Mutant: the flag of the drained slot is not reset.
DrainReleaseForgotten ==
    /\ cpc = "release"
    /\ cpc' = "advance"
    /\ UNCHANGED <<seq_counter, committed, ring, statVars, pc, callVars,
                   drain_pos, total_drained, out, delivered, lapped>>

\* committed_[slot].store(0, release); producers may reuse the slot from here.
DrainRelease ==
    /\ cpc = "release"
    /\ committed' = [committed EXCEPT ![DrainSlot] = 0]
    /\ cpc' = "advance"
    /\ UNCHANGED <<seq_counter, ring, statVars, pc, callVars,
                   drain_pos, total_drained, out, delivered, lapped>>

\* Mutant: drain_pos_ is not advanced.
DrainAdvanceStuck ==
    /\ cpc = "advance"
    /\ total_drained' = total_drained + 1
    /\ delivered' = Append(delivered, out)
    /\ cpc' = "idle"
    /\ UNCHANGED <<seq_counter, committed, ring, statVars, pc, callVars,
                   drain_pos, out, lapped>>

DrainAdvance ==
    /\ cpc = "advance"
    /\ drain_pos' = drain_pos + 1
    /\ total_drained' = total_drained + 1
    /\ delivered' = Append(delivered, out)
    /\ cpc' = "idle"
    /\ UNCHANGED <<seq_counter, committed, ring, statVars, pc, callVars, out, lapped>>

-----------------------------------------------------------------------------
Stamp(p) == \/ StampDrop(p) \/ StampClaim(p) \/ StampWriteHead(p)
            \/ StampWriteBody(p) \/ StampCommit(p) \/ StampCount(p)

drain == \/ DrainReady \/ DrainCopyHead \/ DrainCopyBody
         \/ DrainRelease \/ DrainAdvance

Next == \/ \E p \in Producers : stamp_order(p) \/ stamp_cancel(p) \/ Stamp(p)
        \/ drain

Spec == Init /\ [][Next]_vars

\* A gateway thread inside stamp keeps running, and the engine keeps polling.
FairSpec == /\ Spec
            /\ \A p \in Producers : WF_vars(Stamp(p))
            /\ WF_vars(drain)
-----------------------------------------------------------------------------
(* Properties.                                                              *)

PCs  == {"idle", "claim", "head", "body", "commit", "count"}
CPCs == {"idle", "head", "body", "release", "advance"}

\* The variables keep the types of their declarations (sequencer.hpp:185-195).
TypeOK ==
    /\ seq_counter \in Nat
    /\ committed \in [Slots -> 0 .. 2]
    /\ ring \in [Slots -> Record]
    /\ drops \in Nat /\ total_stamped \in Nat
    /\ drain_pos \in Nat /\ total_drained \in Nat
    /\ pc \in [Producers -> PCs]
    /\ seq \in [Producers -> Nat]
    /\ kind \in [Producers -> Kinds]
    /\ cpc \in CPCs
    /\ out \in Record
    /\ delivered \in Seq(Record)
    /\ lapped \in BOOLEAN

Writing(p) == pc[p] \in {"head", "body", "commit"}
Reading    == cpc \in {"head", "body", "release"}

\* The committed flag is an exclusive lock on its slot: no two gateway threads
\* write one record, and none writes the record the engine is copying, however
\* far apart their numbers are (the compare-exchange at sequencer.hpp:90).
SlotExclusive ==
    /\ \A p, q \in Producers :
           Writing(p) /\ Writing(q) /\ Slot(seq[p]) = Slot(seq[q]) => p = q
    /\ Reading => \A p \in Producers : Writing(p) => Slot(seq[p]) # DrainSlot

\* drain never returns a mixture of two calls: the header and the body of a
\* returned record were written by the same stamp (sequencer.hpp:96-103, 143).
NoTornRecord ==
    \A i \in DOMAIN delivered :
        delivered[i].body.seq = delivered[i].sequence_no

InFlight(n)  == \E p \in Producers : seq[p] = n /\ (pc[p] = "claim" \/ Writing(p))
InRing(n)    == \E s \in Slots : committed[s] = 1 /\ ring[s].sequence_no = n
Copied(n)    == cpc = "advance" /\ out.sequence_no = n
Delivered(n) == \E i \in DOMAIN delivered : delivered[i].sequence_no = n

\* A number is in exactly one place: with its gateway thread, in a ready slot, or
\* returned by drain once; the numbers found nowhere are the ones drops_ counts
\* (sequencer.hpp:92).  An order whose stamp returned nonzero is never lost.
NoSilentLoss ==
    /\ drops = Cardinality({n \in 1 .. seq_counter :
                   ~InFlight(n) /\ ~InRing(n) /\ ~Copied(n) /\ ~Delivered(n)})
    /\ \A i, j \in DOMAIN delivered :
           delivered[i].sequence_no = delivered[j].sequence_no => i = j
    /\ \A n \in 1 .. seq_counter :
           Delivered(n) => ~InFlight(n) /\ ~InRing(n) /\ ~Copied(n)

\* While no number is handed out a whole ring ahead of the engine, the engine sees
\* exactly 1, 2, 3, ...: the promise of sequencer.hpp:4-6 under its real condition.
InOrderUnlessLapped ==
    ~lapped => \A i \in DOMAIN delivered : delivered[i].sequence_no = i

\* What the header promises without a condition: the engine processes orders in
\* the order of their sequence numbers (sequencer.hpp:4-6, 23-25).
DeliveredInOrder ==
    \A i, j \in DOMAIN delivered :
        i < j => delivered[i].sequence_no < delivered[j].sequence_no

\* Under fair scheduling every number handed out is eventually returned by drain, as
\* long as no number is handed out a whole ring ahead (sequencer.hpp:136-150).
EveryStampDelivered ==
    \A n \in 1 .. MaxSeq : (seq_counter >= n) ~> (Delivered(n) \/ lapped)
=============================================================================
