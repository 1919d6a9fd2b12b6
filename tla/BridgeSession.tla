---------------------------- MODULE BridgeSession ----------------------------
(***************************************************************************)
(* A connected match: the loop of contest_runner.hpp (and of                *)
(* post_contest_validator.hpp) sends the orders of order_blaster.hpp over   *)
(* sandbox_bridge.hpp to a contestant and judges its fills against          *)
(* shadow_orderbook.hpp, a copy of the book of OrderBook.  The contestant   *)
(* is honest: price-time priority without limits, as in                     *)
(* tests/sample_orderbook.cpp, over the sample's own reads of the socket or *)
(* over the SDK's gateway_client.hpp.                                       *)
(*                                                                          *)
(* The sockets are streams.  Towards the contestant the unit is 32 bytes: a *)
(* cancel is one unit, an order or a session message two.  A response is    *)
(* one record of 64 bytes and is read in multiples of 64.  A stream socket  *)
(* of the Unix domain takes a message of 64 bytes whole or not at all.  One *)
(* drain is shorter than the ring of 65536 responses.                       *)
(*                                                                          *)
(* A time stamp is the number of the message: message n is sent at time n.  *)
(* The ring of the blaster is emptied after each batch by the thread that   *)
(* fills it, so a message is generated here when it is popped.              *)
(***************************************************************************)
EXTENDS OrderBook, SequencesExt

CONSTANTS Flow,           \* the orders generate_batch may produce: [side, type, price, qty]
          MaxMessages,    \* bound: messages generated in a session
          Batch,          \* orders_per_batch
          BlasterSlots,   \* capacity of BlasterState (4096)
          SocketUnits,    \* units the socket to the contestant holds
          ReadUnits,      \* units of the contestant's buffer
          ResponseRoom,   \* responses the socket to the host holds
          PendingSize,    \* PENDING_TSC_SIZE
          SdkBatch,       \* BATCH_SIZE of SocketResponseSender (64)
          MaxFills        \* the size of the fills array (64)

ASSUME SessionAssumption ==
    {MaxMessages, Batch, BlasterSlots, SocketUnits, ReadUnits, ResponseRoom, PendingSize,
     SdkBatch, MaxFills} \subseteq Nat \ {0}

VARIABLES
    pc,         \* host loop: send, recv, end, drain, done
    blaster,    \* next_order_id, the tracked order ids, messages so far
    wire,       \* units on the way to the contestant
    bridge,     \* orders_sent, drops, the pending table, the latency records
    shadow,     \* its book, expected fills, counters
    sdk,        \* the contestant uses the SDK's client
    cancels,    \* the contestant removes the orders it is asked to cancel
    client,     \* the contestant: place, buffer, book, responses not yet sent
    answers,    \* responses on the way to the host
    excuse      \* history: what makes an honest contestant differ from the shadow book

vars == <<pc, blaster, wire, bridge, shadow, sdk, cancels, client, answers, excuse>>

\* A message on the stream.  Only the first unit of a message carries its type byte.
Units(m) == IF m.type = "CANCEL" THEN <<[part |-> 1, of |-> 1, msg |-> m]>>
            ELSE <<[part |-> 1, of |-> 2, msg |-> m], [part |-> 2, of |-> 2, msg |-> m]>>

Init ==
    /\ pc = "send"
    /\ blaster = [next |-> 1, tracked |-> {}, made |-> 0]
    /\ wire = Units([type |-> "START"]) /\ answers = <<>>
    /\ bridge = [sent |-> 0, drops |-> 0, lat |-> {}, timed |-> 0,
                 pend |-> [i \in 0 .. PendingSize - 1 |-> [oid |-> 0, tsc |-> 0]]]
    /\ shadow = [book |-> EmptyBook, expected |-> <<>>, actual |-> 0,
                 correct |-> 0, wrong |-> 0, extra |-> 0, missing |-> 0]
    /\ sdk \in BOOLEAN /\ cancels \in BOOLEAN /\ (cancels => sdk)
    /\ client = [at |-> "read", buf |-> <<>>, book |-> <<>>, out |-> <<>>]
    /\ excuse = {}

-----------------------------------------------------------------------------
(* The contestant's matching, over a sequence of resting orders, oldest     *)
(* first.                                                                   *)

\* A market order crosses every price.
Crosses(o, r) == /\ r.side = Opposite(o.side)
                 /\ o.type = "MARKET" \/ ~Better(r.side, o.price, r.price)

\* The makers of order o in the order they are taken: best price, then oldest.
Makers(book, o) ==
    SetToSortSeq({i \in DOMAIN book : Crosses(o, book[i])},
                 LAMBDA i, j : \/ Better(book[i].side, book[i].price, book[j].price)
                               \/ book[i].price = book[j].price /\ i < j)

\* [book, fills, left] after o has taken what it can and, if a limit order, rests.
Matched(book, o) ==
    LET take(acc, i) ==
          LET q == Min({acc.left, book[i].qty})
          IN IF q = 0 THEN acc
             ELSE [book |-> [acc.book EXCEPT ![i].qty = @ - q], left |-> acc.left - q,
                   fills |-> Append(acc.fills, [oid |-> o.id, price |-> book[i].price, qty |-> q])]
        end == FoldLeft(take, [book |-> book, fills |-> <<>>, left |-> o.qty], Makers(book, o))
        live == SelectSeq(end.book, LAMBDA r : r.qty > 0)
    IN [fills |-> end.fills,
        book |-> IF end.left = 0 \/ o.type = "MARKET" THEN live
                 ELSE Append(live, [id |-> o.id, side |-> o.side, price |-> o.price,
                                    qty |-> end.left])]

-----------------------------------------------------------------------------
(* OrderBlaster: the price walk and the random choices are a choice.        *)

\* generate_limit_order: nothing without a free slot.  The slot is given back by the
\* order's cancel only.  generate_market_order takes no slot.
OrdersOf(b) == {o @@ [id |-> b.next] :
                  o \in {f \in Flow : f.type = "LIMIT" => Cardinality(b.tracked) < BlasterSlots}}

\* generate_cancel: of an order that is tracked, filled or not.
CancelsOf(b) == {[type |-> "CANCEL", id |-> id] : id \in b.tracked}

Popped(b, m) ==
    [next |-> IF m.type = "CANCEL" THEN b.next ELSE b.next + 1, made |-> b.made + 1,
     tracked |-> CASE m.type = "LIMIT" -> b.tracked \cup {m.id}
                   [] m.type = "CANCEL" -> b.tracked \ {m.id}
                   [] OTHER -> b.tracked]

-----------------------------------------------------------------------------
(* ShadowOrderbook.                                                         *)

\* OrderBook::match, one fill after the other, at most MaxFills: [book, fills, left].
RECURSIVE match(_, _, _, _)
match(b, o, left, fills) ==
    LET side == Opposite(o.side)
        seen == Looked(b, side)
        l == seen.best[side]
        k == <<side, l>>
        p == seen.level_price[k]
        q == Min({left, seen.qty[seen.head[k]]})
    IN IF left = 0 \/ Len(fills) = MaxFills THEN [book |-> b, fills |-> fills, left |-> left]
       ELSE IF l = NULL \/ (o.type = "LIMIT" /\ Better(side, o.price, p))
         THEN [book |-> seen, fills |-> fills, left |-> left]
       ELSE match(DropEmpty(Fill(seen, k, seen.head[k], q), k), o, left - q,
                  Append(fills, [oid |-> o.id, price |-> p, qty |-> q]))

\* process_order: the fills to expect; then the rest of a limit order is added, if a slot
\* and a level are left.
Rested(o, m) == IF m.left = 0 \/ o.type = "MARKET" THEN [book |-> m.book, idx |-> 0]
                ELSE add_order(m.book, 0, o.id, o.side, o.price, m.left)

\* Mutant: the whole order rests, whatever was filled.
RestsWhole(s, o) ==
    LET m == match(s.book, o, o.qty, <<>>)
    IN [s EXCEPT !.book = Rested(o, [m EXCEPT !.left = o.qty]).book, !.expected = @ \o m.fills]

process_order(s, o) ==
    LET m == match(s.book, o, o.qty, <<>>)
    IN [s EXCEPT !.book = Rested(o, m).book, !.expected = @ \o m.fills]

\* Why the shadow book may depart from price-time priority at order o: the cached best
\* level is not the best, or the array of fills, the slots or the levels are used up.
Departs(s, o) ==
    LET m == match(s.book, o, o.qty, <<>>)
    IN (IF BestIsBest(s.book, Opposite(o.side)) THEN {} ELSE {"misled"}) \cup
       (IF Len(m.fills) = MaxFills /\ m.left > 0 THEN {"cut"} ELSE {}) \cup
       (IF Rested(o, m).idx = NULL THEN {"full"} ELSE {})

\* process_cancel does nothing.
process_cancel(s) == s

\* Mutant: the expected fill is not consumed.
ValidateAgain(s, r) ==
    LET i == SelectInSeq(s.expected, LAMBDA e : e.oid = r.oid /\ e.qty > 0)
        t == [s EXCEPT !.actual = @ + 1]
    IN IF i = 0 THEN [t EXCEPT !.extra = @ + 1]
       ELSE IF s.expected[i].price = r.price /\ s.expected[i].qty = r.qty
         THEN [t EXCEPT !.correct = @ + 1]
         ELSE [t EXCEPT !.wrong = @ + 1]

\* validate_fill: against the first expected fill of the order that is not used up.
validate_fill(s, r) ==
    LET i == SelectInSeq(s.expected, LAMBDA e : e.oid = r.oid /\ e.qty > 0)
        t == [s EXCEPT !.actual = @ + 1]
    IN IF i = 0 THEN [t EXCEPT !.extra = @ + 1]
       ELSE IF s.expected[i].price = r.price /\ s.expected[i].qty = r.qty
         THEN [t EXCEPT !.correct = @ + 1, !.expected[i].qty = 0]
         ELSE [t EXCEPT !.wrong = @ + 1, !.expected[i].qty = 0]

Unused(s) == {i \in DOMAIN s.expected : s.expected[i].qty > 0}

finalize(s) == [s EXCEPT !.missing = Cardinality(Unused(s))]

-----------------------------------------------------------------------------
(* SandboxBridge and the host's loop.                                       *)

Stamp == bridge.sent + bridge.drops + 1

\* send_order once the socket took the message: its place in the pending table is
\* overwritten, answered or not.
Sent(b, m) ==
    [b EXCEPT !.sent = @ + 1, !.pend[(b.sent + 1) % PendingSize] = [oid |-> m.id, tsc |-> Stamp]]

BatchDone(b) == b.made % Batch = 0 \/ b.made = MaxMessages

\* A full socket (EAGAIN) is a drop.  The shadow book is fed all the same.
SendNext ==
    /\ pc = "send" /\ blaster.made < MaxMessages
    /\ \E m \in OrdersOf(blaster) \cup CancelsOf(blaster) :
         LET fits == Len(wire) + Len(Units(m)) <= SocketUnits IN
         /\ blaster' = Popped(blaster, m)
         /\ wire' = IF fits THEN wire \o Units(m) ELSE wire
         /\ bridge' = IF fits THEN Sent(bridge, m) ELSE [bridge EXCEPT !.drops = @ + 1]
         /\ shadow' = IF m.type = "CANCEL" THEN process_cancel(shadow)
                      ELSE process_order(shadow, m)
         /\ excuse' = excuse \cup (IF fits THEN {} ELSE {"dropped"})
                              \cup (IF m.type = "CANCEL" THEN {} ELSE Departs(shadow, m))
    /\ pc' = IF BatchDone(blaster') THEN "recv" ELSE "send"
    /\ UNCHANGED <<sdk, cancels, client, answers>>

\* A roll that generates nothing: a limit order without a slot, a cancel without an order.
NothingGenerated ==
    /\ pc = "send" /\ blaster.made < MaxMessages
    /\ blaster.tracked = {} \/ Cardinality(blaster.tracked) = BlasterSlots
    /\ blaster' = [blaster EXCEPT !.made = @ + 1]
    /\ pc' = IF BatchDone(blaster') THEN "recv" ELSE "send"
    /\ UNCHANGED <<wire, bridge, shadow, sdk, cancels, client, answers, excuse>>

\* Mutant: the entry stays in the table.
TimedAgain(b, r) ==
    LET found == {i \in DOMAIN b.pend : b.pend[i].oid = r.oid}
        i == Min(found)
    IN IF found = {} THEN b
       ELSE [b EXCEPT !.timed = @ + 1, !.lat = @ \cup {b.pend[i]}]

\* recv_responses, one response: timed against the first entry of its order id, which is
\* used up.  Without one it keeps its own send time, zero, and is not timed.
Timed(b, r) ==
    LET found == {i \in DOMAIN b.pend : b.pend[i].oid = r.oid}
        i == Min(found)
    IN IF found = {} THEN b
       ELSE [b EXCEPT !.timed = @ + 1, !.lat = @ \cup {b.pend[i]}, !.pend[i].oid = 0]

\* recv_responses drains the socket; then each response is validated.
Collect ==
    /\ bridge' = FoldLeft(Timed, bridge, answers)
    /\ answers' = <<>>
Judged == FoldLeft(LAMBDA s, r : IF r.type = "FILL" THEN validate_fill(s, r) ELSE s,
                   shadow, answers)

\* The loop ends when its time is up.
Receive ==
    /\ pc = "recv"
    /\ Collect /\ shadow' = Judged
    /\ pc' \in {IF blaster.made < MaxMessages THEN "send" ELSE "recv", "end"}
    /\ UNCHANGED <<blaster, wire, sdk, cancels, client, excuse>>

\* SessionEnd: send_control on a non-blocking socket, its result unused.
SendEnd ==
    /\ pc = "end"
    /\ LET u == Units([type |-> "END"]) IN
         wire' = IF Len(wire) + Len(u) <= SocketUnits THEN wire \o u ELSE wire
    /\ pc' = "drain"
    /\ UNCHANGED <<blaster, bridge, shadow, sdk, cancels, client, answers, excuse>>

\* 200 ms later: one last drain, then finalize.  The connection is closed.
Drain ==
    /\ pc = "drain"
    /\ Collect /\ shadow' = finalize(Judged)
    /\ pc' = "done"
    /\ UNCHANGED <<blaster, wire, sdk, cancels, client, excuse>>

-----------------------------------------------------------------------------
(* The contestant.  It runs until the host closes the connection.           *)

Answer(type, oid, price, qty) == [type |-> type, oid |-> oid, price |-> price, qty |-> qty]

\* recv: what is there, up to the room in the buffer.
ClientRead ==
    /\ pc # "done" /\ client.at = "read" /\ wire # <<>>
    /\ LET room == ReadUnits - Len(client.buf)
           n == IF Len(wire) < room THEN Len(wire) ELSE room
       IN /\ client' = [client EXCEPT !.at = "parse", !.buf = @ \o SubSeq(wire, 1, n)]
          /\ wire' = SubSeq(wire, n + 1, Len(wire))
    /\ UNCHANGED <<pc, blaster, bridge, shadow, sdk, cancels, answers, excuse>>

\* Mutant: the SDK's client forgets the start of a message too.
LeftForgotten(c) == <<>>

\* What stays in the buffer when no whole message is left: the SDK's client moves it to the
\* front, the sample's next read overwrites it.
LeftInBuffer(c) == IF sdk THEN c.buf ELSE <<>>

\* The answers to a message, and the book after it.  The sample only acknowledges a cancel.
Handled(c, m) ==
    CASE m.type \in {"LIMIT", "MARKET"} ->
           LET x == Matched(c.book, m)
               fill(f) == Answer("FILL", m.id, f.price, f.qty)
           IN [c EXCEPT !.book = x.book,
                        !.out = @ \o [i \in DOMAIN x.fills |-> fill(x.fills[i])]
                                  \o <<Answer("ACK", m.id, 0, 0)>>]
      [] m.type = "CANCEL" ->
           [c EXCEPT !.book = IF cancels THEN SelectSeq(@, LAMBDA r : r.id # m.id) ELSE @,
                     !.out = Append(@, Answer("CANCEL_ACK", m.id, 0, 0))]
      [] OTHER -> c

\* Where the client goes on once its responses are out.
Onward(c) == [c EXCEPT !.at = IF c.out # <<>> THEN @
                              ELSE CASE @ = "flush" -> "parse" [] @ = "reread" -> "read"
                                     [] OTHER -> @]

\* The parse loop, one message.  The sample sends each response, the SDK's client a full
\* batch; SESSION_END ends the latter.
ClientParse ==
    /\ pc # "done" /\ client.at = "parse" /\ client.buf # <<>>
    /\ LET u == Head(client.buf) IN
         /\ u.part = 1 /\ u.of <= Len(client.buf)
         /\ LET c == Handled([client EXCEPT !.buf = SubSeq(@, u.of + 1, Len(@))], u.msg)
            IN client' = Onward([c EXCEPT !.at =
                           IF sdk /\ u.msg.type = "END" THEN "leave"
                           ELSE IF ~sdk \/ Len(c.out) >= SdkBatch THEN "flush" ELSE "parse"])
         /\ excuse' = excuse \cup IF u.msg.type = "CANCEL" /\ client'.book # client.book
                                    THEN {"cancelled"} ELSE {}
    /\ UNCHANGED <<pc, blaster, wire, bridge, shadow, sdk, cancels, answers>>

\* The parse loop stops: nothing left, half a message, or a byte that is no type.
Garbled(b) == b # <<>> /\ Head(b).part # 1
ClientStops ==
    /\ pc # "done" /\ client.at = "parse"
    /\ client.buf = <<>> \/ (client.buf # <<>> /\ Head(client.buf).of > Len(client.buf))
                         \/ Garbled(client.buf)
    /\ excuse' = excuse \cup IF Garbled(client.buf) THEN {"garbled"} ELSE {}
    /\ client' = Onward([client EXCEPT !.at = "reread", !.buf = LeftInBuffer(client)])
    /\ UNCHANGED <<pc, blaster, wire, bridge, shadow, sdk, cancels, answers>>

\* A response goes out; send blocks while the host's socket is full.
ClientSend ==
    /\ pc # "done" /\ client.at \in {"flush", "reread", "leave"} /\ client.out # <<>>
    /\ Len(answers) < ResponseRoom
    /\ answers' = Append(answers, Head(client.out))
    /\ client' = Onward([client EXCEPT !.out = Tail(@)])
    /\ UNCHANGED <<pc, blaster, wire, bridge, shadow, sdk, cancels, excuse>>

Next == \/ SendNext \/ NothingGenerated \/ Receive \/ SendEnd \/ Drain
        \/ ClientRead \/ ClientParse \/ ClientStops \/ ClientSend

Spec == Init /\ [][Next]_vars

-----------------------------------------------------------------------------
(* Properties.                                                              *)

\* An honest contestant is never charged with a wrong or an extra fill, and is charged with
\* a missing one only for answers it had not sent when the session was closed.  The
\* exceptions are all there are: an order was dropped by the full socket, the shadow book
\* was misled by its cached best level or ran out of levels, slots or fills, the contestant
\* applied a cancel, or its own read cut a message in two.
HonestIsRight ==
    excuse = {} =>
      /\ shadow.wrong = 0 /\ shadow.extra = 0
      /\ pc = "done" /\ shadow.missing > 0 =>
           wire # <<>> \/ client.buf # <<>> \/ client.out # <<>>

\* The counters of ValidationResult add up: each fill received is correct, wrong or extra,
\* each expected fill is answered at most once, and at the end is answered or missing.
FillsAccounted ==
    /\ shadow.actual = shadow.correct + shadow.wrong + shadow.extra
    /\ Len(shadow.expected) = shadow.correct + shadow.wrong + Cardinality(Unused(shadow))
    /\ pc = "done" => shadow.missing = Cardinality(Unused(shadow))

\* No send is timed twice, although an order and its cancel share an id, an order gets
\* several responses and entries of the pending table are overwritten.
TimedOnce == bridge.timed = Cardinality(bridge.lat)

\* The SDK's client never loses the boundaries of messages of 32 and 64 bytes, wherever a
\* read cuts the stream.
SdkKeepsFraming == sdk => "garbled" \notin excuse

\* shadow_orderbook.hpp calls the shadow book the reference for validation: an honest
\* contestant that received every order and applied no cancel has no wrong and no extra
\* fill.  The cached best level of the book refutes it.
ReferenceIsRight == excuse \subseteq {"misled"} => shadow.wrong = 0 /\ shadow.extra = 0
=============================================================================
