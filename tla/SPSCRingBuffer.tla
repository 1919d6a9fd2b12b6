--------------------------- MODULE SPSCRingBuffer ---------------------------
(***************************************************************************)
(* The lock-free single-producer single-consumer ring of                    *)
(* core/include/core/ring_buffer.hpp (loadgen's ShmChannel is the same      *)
(* algorithm without batches).                                              *)
(*                                                                          *)
(* A call is split at its accesses to shared memory.  The index of the      *)
(* other side is read with acquire ordering, which may return any value not *)
(* older than the last one this side has seen: seen_r and seen_w.           *)
(***************************************************************************)
EXTENDS Naturals, Sequences, FiniteSets

CONSTANTS Values,     \* elements
          Capacity,   \* slots; a power of two in the code
          MaxBatch,   \* bound: elements given to or asked from one batch call
          MaxPush     \* bound: elements pushed in a behaviour

ASSUME CapacityAssumption == Capacity \in Nat \ {0}
ASSUME BatchAssumption == MaxBatch \in Nat /\ MaxPush \in Nat

VARIABLES
    write_pos, read_pos,   \* the two indices of the header
    data,                  \* the element array
    magic,                 \* TRUE once the header carries RING_BUFFER_MAGIC
    init_failed,           \* init_failed_ of the attached (consumer) object
    ppc, pitems, pi,       \* producer: place, elements to write, how many are written
    seen_r,                \* producer: last read_pos it has seen
    cpc, cn, citems,       \* consumer: place, elements to take, elements taken
    seen_w,                \* consumer: last write_pos it has seen
    popped                 \* history: everything the pop calls returned

producerVars == <<ppc, pitems, pi, seen_r>>
consumerVars == <<cpc, cn, citems, seen_w>>
vars == <<write_pos, read_pos, data, magic, init_failed, producerVars,
          consumerVars, popped>>

Slots == 0 .. Capacity - 1
Slot(k) == k % Capacity

Least(a, b) == IF a < b THEN a ELSE b

CONSTANT Zero      \* what memset and a fresh memfd leave in a slot
Contents == Values \cup {Zero}

\* The region is fresh shared memory; both objects are being constructed over it.
Init ==
    /\ write_pos = 0 /\ read_pos = 0
    /\ data = [s \in Slots |-> Zero]
    /\ magic = FALSE
    /\ init_failed = FALSE
    /\ ppc = "new" /\ pitems = <<>> /\ pi = 0 /\ seen_r = 0
    /\ cpc = "attach" /\ cn = 0 /\ citems = <<>> /\ seen_w = 0
    /\ popped = <<>>

-----------------------------------------------------------------------------
(* Construction.                                                            *)

\* is_init = true: clear the region, fill the header, magic last.
ConstructInit ==
    /\ ppc = "new"
    /\ write_pos' = 0 /\ read_pos' = 0
    /\ data' = [s \in Slots |-> Zero]
    /\ magic' = TRUE
    /\ ppc' = "idle"
    /\ UNCHANGED <<init_failed, pitems, pi, seen_r, consumerVars, popped>>

\* is_init = false: the spin on magic ends with the magic or with the timeout.
Attach ==
    /\ cpc = "attach"
    /\ \/ magic /\ UNCHANGED init_failed
       \/ init_failed' = TRUE
    /\ cpc' = "idle"
    /\ UNCHANGED <<write_pos, read_pos, data, magic, producerVars, cn, citems,
                   seen_w, popped>>

-----------------------------------------------------------------------------
(* Producer.                                                                *)

\* Mutant: the batch is not cut to the free space.
BeginPushWhole(items, r) ==
    /\ ppc = "idle"
    /\ write_pos + Len(items) <= MaxPush
    /\ seen_r' = r
    /\ pitems' = items
    /\ pi' = 0
    /\ ppc' = "write"
    /\ UNCHANGED <<write_pos, read_pos, data, magic, init_failed, consumerVars, popped>>

\* Load read_pos; take as many of the elements as there is room for.
BeginPush(items, r) ==
    /\ ppc = "idle"
    /\ write_pos + Len(items) <= MaxPush
    /\ seen_r' = r
    /\ pitems' = SubSeq(items, 1, Least(Len(items), Capacity - (write_pos - r)))
    /\ pi' = 0
    /\ ppc' = "write"
    /\ UNCHANGED <<write_pos, read_pos, data, magic, init_failed, consumerVars, popped>>

\* Returns false, and leaves write_pos alone, when full.
PushFull(r) ==
    /\ ppc = "idle"
    /\ write_pos - r >= Capacity
    /\ seen_r' = r
    /\ UNCHANGED <<write_pos, read_pos, data, magic, init_failed, ppc, pitems, pi,
                   consumerVars, popped>>

try_push(v, r) ==
    \/ PushFull(r)
    \/ write_pos - r < Capacity /\ BeginPush(<<v>>, r)

try_push_batch(items, r) == BeginPush(items, r)

PushWrite ==
    /\ ppc = "write"
    /\ pi < Len(pitems)
    /\ data' = [data EXCEPT ![Slot(write_pos + pi)] = pitems[pi + 1]]
    /\ pi' = pi + 1
    /\ UNCHANGED <<write_pos, read_pos, magic, init_failed, ppc, pitems, seen_r,
                   consumerVars, popped>>

\* Mutant: write_pos is stored before the last element is written.
PushPublishEarly ==
    /\ ppc = "write"
    /\ pi + 1 = Len(pitems)
    /\ write_pos' = write_pos + Len(pitems)
    /\ ppc' = "idle"
    /\ UNCHANGED <<read_pos, data, magic, init_failed, pitems, pi, seen_r,
                   consumerVars, popped>>

\* write_pos.store(w + to_push, release)
PushPublish ==
    /\ ppc = "write"
    /\ pi = Len(pitems)
    /\ write_pos' = write_pos + pi
    /\ ppc' = "idle"
    /\ UNCHANGED <<read_pos, data, magic, init_failed, pitems, pi, seen_r,
                   consumerVars, popped>>

-----------------------------------------------------------------------------
(* Consumer.                                                                *)

BeginPop(k, w) ==
    /\ cpc = "idle"
    /\ seen_w' = w
    /\ cn' = Least(k, w - read_pos)
    /\ citems' = <<>>
    /\ cpc' = "read"
    /\ UNCHANGED <<write_pos, read_pos, data, magic, init_failed, producerVars, popped>>

PopEmpty(w) ==
    /\ cpc = "idle"
    /\ read_pos >= w
    /\ seen_w' = w
    /\ UNCHANGED <<write_pos, read_pos, data, magic, init_failed, producerVars,
                   cpc, cn, citems, popped>>

try_pop(w) ==
    \/ PopEmpty(w)
    \/ read_pos < w /\ BeginPop(1, w)

try_pop_batch(k, w) == BeginPop(k, w)

PopRead ==
    /\ cpc = "read"
    /\ Len(citems) < cn
    /\ citems' = Append(citems, data[Slot(read_pos + Len(citems))])
    /\ UNCHANGED <<write_pos, read_pos, data, magic, init_failed, producerVars,
                   cpc, cn, seen_w, popped>>

\* read_pos.store(r + to_pop, release)
PopRelease ==
    /\ cpc = "read"
    /\ Len(citems) = cn
    /\ read_pos' = read_pos + cn
    /\ popped' = popped \o citems
    /\ cpc' = "idle"
    /\ UNCHANGED <<write_pos, data, magic, init_failed, producerVars, cn, citems, seen_w>>

-----------------------------------------------------------------------------
Batches == UNION {[1 .. n -> Values] : n \in 0 .. MaxBatch}

Producer ==
    \/ ConstructInit \/ PushWrite \/ PushPublish
    \/ \E r \in seen_r .. read_pos :
          \/ \E v \in Values : try_push(v, r)
          \/ \E items \in Batches : try_push_batch(items, r)

Consumer ==
    \/ Attach \/ PopRead \/ PopRelease
    \/ \E w \in seen_w .. write_pos :
          \/ try_pop(w)
          \/ \E k \in 0 .. MaxBatch : try_pop_batch(k, w)

Next == Producer \/ Consumer

Spec == Init /\ [][Next]_vars

-----------------------------------------------------------------------------
(* Properties.                                                              *)

\* The variables keep their types; in particular no write falls outside the array of
\* ring_buffer.hpp:125 and 157.
TypeOK ==
    /\ write_pos \in Nat /\ read_pos \in Nat
    /\ data \in [Slots -> Contents]
    /\ magic \in BOOLEAN /\ init_failed \in BOOLEAN
    /\ ppc \in {"new", "idle", "write"} /\ cpc \in {"attach", "idle", "read"}
    /\ pitems \in Seq(Values) /\ pi \in 0 .. Len(pitems)
    /\ citems \in Seq(Contents) /\ cn \in Nat
    /\ seen_r \in Nat /\ seen_w \in Nat
    /\ popped \in Seq(Contents)

\* The producer never writes the slot the consumer is copying, in single or batch
\* calls and with stale indices: the release / acquire pairs of
\* ring_buffer.hpp:118-128 and 135-145 separate every two plain accesses.
NoDataRace ==
    ~ /\ ppc = "write" /\ pi < Len(pitems)
      /\ cpc = "read" /\ Len(citems) < cn
      /\ Slot(write_pos + pi) = Slot(read_pos + Len(citems))

\* Neither overrun nor underrun: what is published and what is being written fits in
\* the ring, and a pop in progress takes published elements only
\* (ring_buffer.hpp:120, 137, 153-154, 169-170).
WithinCapacity ==
    /\ read_pos <= write_pos
    /\ (ppc = "write" => write_pos + Len(pitems) <= read_pos + Capacity)
    /\ write_pos <= read_pos + Capacity
    /\ (cpc = "read" => read_pos + cn <= write_pos)

\* The published elements, oldest first.
Published == [i \in 1 .. write_pos - read_pos |-> data[Slot(read_pos + i - 1)]]

FIFO == INSTANCE BoundedFIFO WITH queue <- Published, got <- popped

\* The ring implements the bounded FIFO: a push takes effect when write_pos is
\* stored, a pop when read_pos is stored, and every other step is invisible.
ImplementsFIFO == FIFO!Spec

=============================================================================
