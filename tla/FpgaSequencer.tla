--------------------------- MODULE FpgaSequencer ---------------------------
(***************************************************************************)
(* The hardware sequencer: one order_parser per gateway port, the          *)
(* sequencer_core that arbitrates between them and numbers the orders, and *)
(* the dma_ring the host drains, wired as in sequencer_top.                *)
(*                                                                         *)
(* A step is one rising clock edge: every register takes its next value    *)
(* from the values all registers had before the edge.  Payload registers   *)
(* are read only under their valid bit, so a register and its valid bit    *)
(* are one variable whose value is None while the bit is low.  An order's  *)
(* payload is the port it came from and its number on that port.           *)
(* Timestamps, and the status outputs nothing reads (stat_total_drops,     *)
(* stat_port_active, the LEDs), are left out.  Reset is Init: it is not    *)
(* asserted again while the host program runs.                             *)
(*                                                                         *)
(* The two ends are external: an AXI-Stream sender per port, which holds a *)
(* beat until it is taken, and a sequential host program that reads        *)
(* write_ptr, consumes entries and writes read_ptr back.                   *)
(***************************************************************************)
EXTENDS Integers, Sequences, FiniteSets, FiniteSetsExt

CONSTANTS NUM_PORTS,   \* gateway ports
          PORT_W,      \* $clog2(NUM_PORTS), the width of rr_priority
          DEPTH,       \* ring depth, a power of two
          Bus,         \* what the senders may drive together: port -> beat
          ReadAddrs,   \* what the write-address bus may carry during a read
          MaxOrders,   \* bound: port -> orders its sender offers
          None

Ports == 0 .. NUM_PORTS - 1

ASSUME ShapeAssumption ==
    /\ NUM_PORTS \in Nat \ {0} /\ DEPTH \in Nat \ {0}
    /\ MaxOrders \in [Ports -> Nat]
    /\ NUM_PORTS <= 2^PORT_W /\ 2^PORT_W < 2 * NUM_PORTS

VARIABLES axis,         \* port -> the beat on s_axis, with its tvalid
          parser,       \* port -> the parsed order held, or None
          rr_priority,  \* the port the arbiter looks at first
          seq_counter,  \* last sequence number assigned
          out,          \* sequencer_core's output register, or None
          write_ptr, read_ptr, drop_count, ring_mem,   \* dma_ring
          host_rd_data, \* answer to the host's read, None while rd_valid = 0
          host,         \* host program: pc, and the write_ptr it has seen
          owed,         \* history: entries written, not yet released
          accepted,     \* history: port -> orders its parser has taken
          bypass        \* history: port -> grants to others while it waits

vars == << axis, parser, rr_priority, seq_counter, out, write_ptr, read_ptr,
           drop_count, ring_mem, host_rd_data, host, owed, accepted,
           bypass >>

MSG_ORDER_ENTRY == 10
MSG_CANCEL_REQUEST == 11
MsgValid(type) == type \in {MSG_ORDER_ENTRY, MSG_CANCEL_REQUEST}

-----------------------------------------------------------------------------
(* Combinational logic *)

\* The difference is taken one bit wider than the pointers.
Occupancy == (write_ptr - read_ptr) % (2 * DEPTH)

\* MUTANT of IsFull: the last free slot may be filled too.
IsFullLate == Occupancy >= DEPTH

IsFull == Occupancy >= DEPTH - 1

OutReady == ~IsFull

PortValid == {p \in Ports : parser[p] # None}

\* MUTANT of GrantedPort: only the port whose turn it is is looked at.
GrantedPortTurnOnly == IF parser[rr_priority] = None THEN None ELSE rr_priority

\* The first valid port at or after rr_priority, wrapping round.
GrantedPort ==
    LET Distance(p) == (p - rr_priority) % NUM_PORTS
    IN  IF PortValid = {} THEN None
        ELSE CHOOSE p \in PortValid :
                 \A q \in PortValid : Distance(p) <= Distance(q)

Granted == OutReady /\ GrantedPort # None

PortReady(p) == Granted /\ GrantedPort = p

InReady(p) == PortReady(p) \/ parser[p] = None

\* MUTANT of NextPriority: the port just served keeps the priority.
NextPriorityStuck(g) == g

\* The comparison is with NUM_PORTS truncated to PORT_W bits, less one: for a
\* power of two it never holds and the increment itself wraps.
NextPriority(g) == IF g = (NUM_PORTS % 2^PORT_W) - 1
                   THEN 0 ELSE (g + 1) % 2^PORT_W

-----------------------------------------------------------------------------
(* Registers, one operator per always_ff block *)

Taken(p) == axis[p].tvalid /\ InReady(p)

ParserStep ==
    /\ parser' = [p \in Ports |->
           CASE Taken(p) /\ MsgValid(axis[p].msg_type) ->
                    [msg_type |-> axis[p].msg_type,
                     raw |-> [port |-> p, n |-> accepted[p] + 1]]
             [] Taken(p) /\ ~MsgValid(axis[p].msg_type) -> None
             [] ~Taken(p) /\ PortReady(p) -> None
             [] OTHER -> parser[p]]
    /\ accepted' = [p \in Ports |->
           IF Taken(p) /\ MsgValid(axis[p].msg_type)
           THEN accepted[p] + 1 ELSE accepted[p]]

\* port_contestant_id is wired to the bus, not to the parser: it is the id on
\* the bus in the cycle of the grant.
ContestantOf(g) == axis[g].contestant_id

CoreStep ==
    /\ IF Granted
       THEN /\ seq_counter' = seq_counter + 1
            /\ out' = [seq_no        |-> seq_counter + 1,
                       contestant_id |-> ContestantOf(GrantedPort),
                       msg_type      |-> parser[GrantedPort].msg_type,
                       data          |-> parser[GrantedPort].raw]
            /\ rr_priority' = NextPriority(GrantedPort)
       ELSE /\ out' = None
            /\ UNCHANGED << seq_counter, rr_priority >>
    /\ bypass' = [p \in Ports |->
           IF p \notin PortValid \/ PortReady(p) THEN 0
           ELSE IF Granted THEN bypass[p] + 1 ELSE bypass[p]]

\* MUTANT of RingWrite: an entry that finds the ring full is not counted.
RingWriteSilent ==
    /\ IF out # None /\ ~IsFull
       THEN /\ ring_mem' = [ring_mem EXCEPT ![write_ptr] = out]
            /\ write_ptr' = (write_ptr + 1) % DEPTH
       ELSE UNCHANGED << ring_mem, write_ptr >>
    /\ UNCHANGED drop_count

RingWrite ==
    /\ IF out # None /\ ~IsFull
       THEN /\ ring_mem' = [ring_mem EXCEPT ![write_ptr] = out]
            /\ write_ptr' = (write_ptr + 1) % DEPTH
       ELSE UNCHANGED << ring_mem, write_ptr >>
    /\ drop_count' = IF out # None /\ IsFull THEN drop_count + 1
                                             ELSE drop_count

\* What the sender of a port may drive.
Beats(p) == {beat[p] : beat \in Bus}

\* tdata is read only under tvalid; tuser is read at any time.
Drive(valid, beat) == [tvalid |-> valid,
                       msg_type |-> IF valid THEN beat.msg_type ELSE None,
                       contestant_id |-> beat.contestant_id]

\* AXI-Stream sender: a beat not taken stays; otherwise any beat, or none.
SenderStep ==
    LET held == {p \in Ports : axis[p].tvalid /\ ~InReady(p)}
        able == {p \in Ports \ held : accepted'[p] < MaxOrders[p]}
    IN  axis' \in {[p \in Ports |-> IF p \in held THEN axis[p]
                                    ELSE Drive(p \in valid, beat[p])] :
                       beat \in Bus, valid \in SUBSET able}

\* History: the entry written in this cycle joins, the released ones leave.
OwedStep ==
    LET all == IF out # None /\ ~IsFull THEN Append(owed, out) ELSE owed
    IN  owed' = SubSeq(all, 1 + ((read_ptr' - read_ptr) % DEPTH), Len(all))

Clock == ParserStep /\ CoreStep /\ RingWrite /\ SenderStep /\ OwedStep

-----------------------------------------------------------------------------
(* The host's MMIO ports, sampled at every clock edge *)

hostvars == << host, host_rd_data, read_ptr >>

HostAt(pc, seen) == [pc |-> pc, seen |-> seen]

\* Both ports are idle; an answer the host waited for is taken.
IdlePort ==
    /\ host' = IF host_rd_data = None THEN host
               ELSE IF host_rd_data = read_ptr THEN HostAt("idle", 0)
               ELSE HostAt("have", host_rd_data)
    /\ host_rd_data' = None
    /\ UNCHANGED read_ptr

\* The host reads register 0x0000.  The read port decodes host_wr_addr, so the
\* answer is the register that the write-address bus happens to name.
ReadPort(addr) ==
    /\ host.pc = "idle"
    /\ host' = HostAt("wait", 0)
    /\ host_rd_data' = CASE addr = 0 -> write_ptr
                         [] addr = 4 -> read_ptr
    /\ UNCHANGED read_ptr

\* The host has consumed some of the entries it saw and releases them.
WritePort(ptr) ==
    /\ host.pc = "have"
    /\ (ptr - read_ptr) % DEPTH \in 1 .. (host.seen - read_ptr) % DEPTH
    /\ read_ptr' = ptr
    /\ host' = HostAt("idle", 0)
    /\ host_rd_data' = None

HostIdle == IdlePort /\ Clock
HostRead(addr) == ReadPort(addr) /\ Clock
HostWrite(ptr) == WritePort(ptr) /\ Clock

Next ==
    \/ HostIdle
    \/ \E addr \in ReadAddrs : HostRead(addr)
    \/ \E ptr \in 0 .. DEPTH - 1 : HostWrite(ptr)

Init ==
    /\ \E beat \in Bus : axis = [p \in Ports |-> Drive(FALSE, beat[p])]
    /\ parser = [p \in Ports |-> None]
    /\ rr_priority = 0 /\ seq_counter = 0 /\ out = None
    /\ write_ptr = 0 /\ read_ptr = 0 /\ drop_count = 0
    /\ ring_mem = [i \in 0 .. DEPTH - 1 |-> None]
    /\ host_rd_data = None /\ host = HostAt("idle", 0)
    /\ owed = << >>
    /\ accepted = [p \in Ports |-> 0]
    /\ bypass = [p \in Ports |-> 0]

Spec == Init /\ [][Next]_vars

\* The host takes its answers, releases what it has consumed and polls
\* write_ptr for ever; strong fairness, as other reads come between.  Clock
\* can always be taken, so a host step that is enabled is a step of Next.
FairSpec ==
    /\ Spec
    /\ WF_hostvars(IdlePort)
    /\ SF_hostvars(ReadPort(0))
    /\ WF_hostvars(\E ptr \in 0 .. DEPTH - 1 : WritePort(ptr))

-----------------------------------------------------------------------------
(* Properties *)

Total(f) == FoldSet(LAMBDA p, sum : sum + f[p], 0, Ports)

Orders == UNION {[port : {p}, n : 1 .. MaxOrders[p]] : p \in Ports}

MsgTypes == {MSG_ORDER_ENTRY, MSG_CANCEL_REQUEST}

Ids == {b.contestant_id : b \in UNION {Beats(p) : p \in Ports}}

Entries == [seq_no : 1 .. Total(MaxOrders), contestant_id : Ids,
            msg_type : MsgTypes, data : Orders]

Unread == (write_ptr - read_ptr) % DEPTH

UnreadEntry(i) == ring_mem[(read_ptr + i) % DEPTH]

\* The ring between the pointers is what the host is owed, entry by entry,
\* however the pointers have wrapped; sequence numbers increase along it, and
\* the orders of one port come in the order its parser took them.  A write into
\* a slot the host has not released would break it (dma_ring.sv:84).  An entry
\* carries a contestant id and a message type that the port of its order can
\* carry: arbitration never mixes two ports (sequencer_core.sv:132).
UnreadInOrder ==
    /\ \A i \in 1 .. Len(owed) :
           /\ \E b \in Beats(owed[i].data.port) : b.contestant_id = owed[i].contestant_id
           /\ \E b \in Beats(owed[i].data.port) : b.msg_type = owed[i].msg_type
    /\ Len(owed) = Unread
    /\ \A i \in 0 .. Unread - 1 : UnreadEntry(i) = owed[i + 1]
    /\ \A i, j \in 1 .. Len(owed) : i < j =>
           /\ owed[i].seq_no < owed[j].seq_no
           /\ owed[i].data.port = owed[j].data.port
                  => owed[i].data.n < owed[j].data.n

\* No order disappears unnoticed.  What the parsers have accepted they hold or
\* the core has numbered, whichever of valid and ready changed in one cycle
\* (order_parser.sv:97-123).  The ready the core acts on is a cycle old, so a
\* numbered order can find the ring full: every number missing between the
\* unread entries and after them has been counted in drop_count
\* (dma_ring.sv:88).
OrdersAccounted ==
    /\ Total(accepted) = Cardinality(PortValid) + seq_counter
    /\ Unread > 0 =>
           LET inFlight == IF out = None THEN 0 ELSE 1
           IN  seq_counter - inFlight - UnreadEntry(0).seq_no - (Unread - 1)
                   <= drop_count

\* A port that waits sees every other port served at most once before it
\* (sequencer_core.sv:66, "round-robin ensures fairness").
BoundedBypass == \A p \in Ports : bypass[p] < NUM_PORTS

\* Under a host that keeps draining, every parsed order is taken by the core:
\* a ring that reports full after a wrap recovers once it is drained
\* (dma_ring.sv:66-70).
EveryOrderNumbered == \A p \in Ports : parser[p] # None ~> PortReady(p)

=============================================================================
