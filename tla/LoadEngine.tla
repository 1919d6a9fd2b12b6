----------------------------- MODULE LoadEngine -----------------------------
(***************************************************************************)
(* The load generator's engines against the dummy exchanges: EpollIoEngine  *)
(* and IoUringEngine (io_engine.cpp), UltraEngine (ultra_engine.hpp) and    *)
(* PipelineEngine (pipeline_engine.hpp); dummy_exchange.cpp, mt_exchange.cpp *)
(* and UltraExchange.  A behaviour uses one engine and one exchange.        *)
(*                                                                          *)
(* An engine is one thread: init connects, then run_batch, again and again, *)
(* sends for the idle bots and takes the acks that are there; when the time *)
(* is up the benchmark only takes acks for a while and shuts the engine     *)
(* down.  The exchange, and the kernel's side of io_uring, run beside it.   *)
(*                                                                          *)
(* A connection is two streams of units.  A message is two units, the       *)
(* halves of its header: a cut in its body loses nothing, as the rest of    *)
(* the body is scanned over.  An ack is two units, and a stream takes it    *)
(* whole or not at all.  A message's number is also its time stamp.         *)
(* What the exchange reads on a connection after half a message was written *)
(* is not modelled.                                                         *)
(***************************************************************************)
EXTENDS Integers, FiniteSets, SequencesExt

CONSTANTS NumBots,
          Pool,         \* PipelineEngine: connections
          BatchSize,    \* messages of a run_batch
          MaxSeq,       \* bound: messages until the time is up
          MaxFails,     \* bound: failed sends, after which a closed connection is not used
          UpUnits,      \* units a stream to the exchange may hold
          DummyUnits,   \* units of dummy_exchange's buffer
          PageUnits,    \* units of the other exchanges' buffer
          DownUnits,    \* units a stream to the engine holds
          AckUnits      \* units of PipelineEngine's buffer

ASSUME LoadAssumption ==
    /\ {NumBots, Pool, BatchSize, MaxSeq, DummyUnits, PageUnits, AckUnits} \subseteq Nat \ {0}
    /\ MaxFails \in Nat
    /\ UpUnits \cup {DownUnits} \subseteq Nat \ {0, 1}

Bots == 1 .. NumBots
Engines == {"epoll", "ultra", "uring", "pipeline"}

VARIABLES
    engine, exchange,   \* which ones
    room,               \* units a stream to the exchange holds
    pc, sends, todo,    \* run_batch: send or recv, messages so far, connections to read
                        \* (in the send loop: the last bot sent for)
    next, fails,        \* next_seq_; failed sends so far
    bot,                \* bot -> [st, seq]
    gather,             \* PipelineEngine: connection -> bots in its iovecs
    up, down,           \* connection -> stream
    ready,              \* connections with an edge epoll_wait has not reported
    closed,             \* the exchange is gone
    gone,               \* bots whose descriptor was set to -1
    ring,               \* io_uring: bot -> [sends, cancels, recvs, buf]: operations of the
                        \* kernel, and the number in the bot's buffer
    cq, peeked,         \* io_uring: completions, and how many run_batch has yet to handle
    lost,               \* history: bots whose message or ack was lost
    torn,               \* history: connections with half a message in the stream
    raced,              \* history: bots sent again before the last pair was over
    mixed               \* history: bots with a sample of another message's time

vars == <<engine, exchange, room, pc, sends, todo, next, fails, bot, gather, up, down, ready,
          closed, gone, ring, cq, peeked, lost, torn, raced, mixed>>
setup == <<engine, exchange, room>>
uring == <<ring, cq, peeked>>

\* Bots share the connections of the pool; any other engine connects each bot.
Conns == IF engine = "pipeline" THEN 0 .. Pool - 1 ELSE Bots
Conn(b) == IF engine = "pipeline" THEN (b - 1) % Pool ELSE b

Msg(b, seq) == <<[b |-> b, seq |-> seq, half |-> 1], [b |-> b, seq |-> seq, half |-> 2]>>

\* The room and the exchange vary for the shared connections only: the stream of one bot
\* takes whatever it sends.
Init ==
    /\ engine \in Engines
    /\ exchange \in IF engine = "pipeline" THEN {"dummy", "mt", "ultra"} ELSE {"dummy"}
    /\ room \in IF engine = "pipeline" THEN UpUnits ELSE {Max(UpUnits)}
    /\ pc = "init" /\ sends = 0 /\ todo = {} /\ next = 1 /\ fails = 0
    /\ bot = [b \in Bots |-> [st |-> "IDLE", seq |-> 0]]
    /\ gather = [c \in Conns |-> <<>>]
    /\ up = [c \in Conns |-> <<>>] /\ down = [c \in Conns |-> <<>>]
    /\ ready = {} /\ closed = FALSE /\ gone = {}
    /\ ring = [b \in Bots |-> [sends |-> 0, cancels |-> 0, recvs |-> 0, buf |-> 0]]
    /\ cq = <<>> /\ peeked = 0
    /\ lost = {} /\ torn = {} /\ raced = {} /\ mixed = {}

-----------------------------------------------------------------------------
(* init and shutdown.                                                       *)

\* Some connections fail; their bots have no descriptor and never send.
Connect(bad) ==
    /\ pc = "init" /\ (closed => bad = Conns)
    /\ gone' = {b \in Bots : Conn(b) \in bad}
    /\ pc' = IF bad = Conns THEN "done" ELSE "send"
    /\ UNCHANGED <<setup, sends, todo, next, fails, bot, gather, up, down, ready, closed, uring,
                   lost, torn, raced, mixed>>

EpollInit == engine = "epoll" /\ \E bad \in SUBSET Bots : Connect(bad)
UltraInit == engine = "ultra" /\ \E bad \in SUBSET Bots : Connect(bad)
UringInit == engine = "uring" /\ \E bad \in SUBSET Bots : Connect(bad)
PipelineInit == engine = "pipeline" /\ \E bad \in SUBSET Conns : Connect(bad)

\* EpollIoEngine and UltraEngine leave their connections to the end of the process.
Shutdown ==
    /\ pc = "send" /\ next > MaxSeq
    /\ pc' = "done"
    /\ UNCHANGED <<setup, sends, todo, next, fails, bot, gather, up, down, ready, closed, gone,
                   uring, lost, torn, raced, mixed>>

-----------------------------------------------------------------------------
(* Phase 1: messages for the idle bots, in order.                           *)

\* Mutant: a bot whose send is not completed yet is taken for idle.
IdleOrSending == {b \in Bots : bot[b].st \in {"IDLE", "SENDING"} /\ b \notin gone}

Idle == {b \in Bots : bot[b].st = "IDLE" /\ b \notin gone}

\* Idle bots the loop has not passed yet: it passes a bot when it gives it a number.
Left == IF sends < BatchSize /\ next <= MaxSeq /\ ~(closed /\ fails = MaxFails)
          THEN {b \in Idle : \A d \in todo : b > d} ELSE {}

\* Mutant: the bot is left idle.
PatchedIdle(b, st) == bot' = [bot EXCEPT ![b].seq = next]

\* patch_payload, and the bot's state.
Patched(b, st) == bot' = [bot EXCEPT ![b] = [st |-> st, seq |-> next]]

MayFail == (closed \/ fails < MaxFails) /\ fails' = Min({fails + 1, MaxFails})

Passed(b) ==
    /\ pc = "send" /\ Left # {} /\ b = Min(Left)
    /\ next' = next + 1 /\ todo' = {b}
    /\ UNCHANGED <<setup, pc, down, ready, closed, gone, cq, peeked, lost, torn, raced, mixed>>

\* A send that fails leaves the bot idle.  UltraEngine's batch counts it.
SendDirect(b) ==
    /\ Passed(b)
    /\ \/ /\ MayFail /\ Patched(b, "IDLE") /\ UNCHANGED up
          /\ sends' = IF engine = "ultra" THEN sends + 1 ELSE sends
       \/ /\ ~closed /\ UNCHANGED fails
          /\ Patched(b, "WAITING") /\ sends' = sends + 1
          /\ up' = [up EXCEPT ![b] = @ \o Msg(b, next)]
    /\ UNCHANGED <<gather, ring>>

EpollSend(b) == engine = "epoll" /\ SendDirect(b)

\* The bots are gathered first and the sends follow in the same order.
UltraSend(b) == engine = "ultra" /\ SendDirect(b)

\* A linked pair of a send and a recv.  The kernel may take it before the io_uring_submit that
\* ends the loop: the loop does not look at what the kernel has done.
UringSend(b) ==
    /\ engine = "uring" /\ Passed(b)
    /\ Patched(b, "SENDING") /\ sends' = sends + 1
    /\ ring' = [ring EXCEPT ![b].sends = @ + 1]
    /\ UNCHANGED <<up, gather, fails>>

\* The bot waits from now on.
PipelineGather(b) ==
    /\ engine = "pipeline" /\ Passed(b)
    /\ Patched(b, "WAITING") /\ sends' = sends + 1
    /\ gather' = [gather EXCEPT ![Conn(b)] = Append(@, b)]
    /\ UNCHANGED <<up, ring, fails>>

\* writev on connection c: what the stream takes, which may end inside a message.
Gathered(c) == FlattenSeq([i \in DOMAIN gather[c] |-> Msg(gather[c][i], bot[gather[c][i]].seq)])
Written(c) == IF closed THEN 0 ELSE Min({room - Len(up[c]), Len(Gathered(c))})
Whole(c) == {gather[c][i] : i \in 1 .. Written(c) \div 2}

\* The pipelined messages are written; what is not written is not repeated.
PipelineWrite ==
    /\ up' = [c \in Conns |-> up[c] \o SubSeq(Gathered(c), 1, Written(c))]
    /\ torn' = torn \cup {c \in Conns : Written(c) % 2 = 1}
    /\ lost' = lost \cup UNION {ToSet(gather[c]) \ Whole(c) : c \in Conns}
                    \cup {b \in Bots : bot[b].st # "IDLE" /\ Conn(b) \in torn'}
    /\ gather' = [c \in Conns |-> <<>>]

\* Phase 2 begins: all connections of the pool, io_uring_peek_batch_cqe or epoll_wait.
StartRecv ==
    /\ pc = "send" /\ Left = {}
    /\ pc' = "recv" /\ sends' = 0
    /\ ready' = {}
    /\ \/ /\ engine = "pipeline" /\ PipelineWrite
          /\ todo' = Conns /\ UNCHANGED peeked
       \/ /\ engine = "uring" /\ UNCHANGED <<up, torn, lost, gather>>
          /\ todo' = {} /\ peeked' = Len(cq)
       \/ /\ engine \in {"epoll", "ultra"} /\ UNCHANGED <<up, torn, lost, gather, peeked>>
          /\ todo' = ready
    /\ UNCHANGED <<setup, next, fails, bot, down, closed, gone, ring, cq, raced, mixed>>

-----------------------------------------------------------------------------
(* Phase 2: acks.                                                           *)

\* Whole messages among the units of one read, and those the read cut.
WholeIn(u) == {i \in 1 .. Len(u) - 1 : u[i].half = 1 /\ u[i + 1].half = 2 /\ u[i].b = u[i + 1].b}
CutIn(u) == {u[i].b : i \in {j \in DOMAIN u : j \notin WholeIn(u) /\ j - 1 \notin WholeIn(u)}}

\* The bots are idle again.  A sample has the time of the bot's last message.
Acked(acks) ==
    /\ bot' = [b \in Bots |-> IF \E a \in acks : a.b = b THEN [bot[b] EXCEPT !.st = "IDLE"]
                              ELSE bot[b]]
    /\ mixed' = mixed \cup {a.b : a \in {x \in acks : x.seq # bot[x.b].seq}}

Firsts(u) == {u[i] : i \in WholeIn(u)}

\* Connection c is read: its acks, the bots whose ack was cut, and what stays in the stream.
Received(c, acks, cut, rest) ==
    /\ pc = "recv" /\ todo # {} /\ c = Min(todo)
    /\ todo' = todo \ {c}
    /\ Acked(acks)
    /\ down' = [down EXCEPT ![c] = rest]
    /\ lost' = lost \cup cut
    /\ UNCHANGED <<setup, pc, sends, next, fails, gather, up, ready, closed, gone, uring, torn,
                   raced>>

\* One ack for an edge.
EpollRecv(c) ==
    /\ engine = "epoll"
    /\ LET n == Min({2, Len(down[c])}) IN
         Received(c, Firsts(SubSeq(down[c], 1, n)), {}, SubSeq(down[c], n + 1, Len(down[c])))

UltraRecv(c) == engine = "ultra" /\ Received(c, Firsts(down[c]), {}, <<>>)

\* Full buffers until nothing is left; an ack that two of them share is dropped.
PipelineRecv(c) ==
    LET d == down[c]
        chunk(k) == SubSeq(d, (k - 1) * AckUnits + 1, Min({k * AckUnits, Len(d)}))
        chunks == {chunk(k) : k \in 1 .. (Len(d) + AckUnits - 1) \div AckUnits}
    IN /\ engine = "pipeline"
       /\ Received(c, UNION {Firsts(u) : u \in chunks}, UNION {CutIn(u) : u \in chunks}, <<>>)

\* Mutant: the end of a connection is not handled.
StateAfterEof(e) ==
    IF (e.op = "send" /\ e.res = "ok") \/ e.res = "eof" THEN "WAITING" ELSE "IDLE"

\* IoUringEngine: the state a completion puts its bot into.
StateAfter(e) == IF e.op = "send" /\ e.res = "ok" THEN "WAITING" ELSE "IDLE"

\* One completion.  A failed send makes the bot idle, and so does, later, the cancellation
\* of its recv.
HandleCqe ==
    /\ pc = "recv" /\ peeked > 0
    /\ LET e == Head(cq)
           b == e.b
       IN /\ bot' = [bot EXCEPT ![b].st = StateAfter(e)]
          /\ gone' = IF e.res = "eof" THEN gone \cup {b} ELSE gone
          /\ mixed' = IF e.res = "ack" /\ ring[b].buf # bot[b].seq THEN mixed \cup {b} ELSE mixed
          /\ raced' = IF e.res = "cancelled" /\ bot[b].st # "IDLE" THEN raced \cup {b} ELSE raced
    /\ cq' = Tail(cq) /\ peeked' = peeked - 1
    /\ UNCHANGED <<setup, pc, sends, todo, next, fails, gather, up, down, ready, closed, ring,
                   lost, torn>>

EndBatch ==
    /\ pc = "recv" /\ todo = {} /\ peeked = 0
    /\ pc' = "send"
    /\ UNCHANGED <<setup, sends, todo, next, fails, bot, gather, up, down, ready, closed, gone,
                   uring, lost, torn, raced, mixed>>

-----------------------------------------------------------------------------
(* The kernel's side of io_uring.                                           *)

\* Nothing looks at what the kernel and the exchange do after the shutdown.
Watched == pc # "done"

Post(b, op, res) == cq' = Append(cq, [b |-> b, op |-> op, res |-> res])

\* The send of a pair, with what the bot's payload holds by now.  If it fails the linked
\* recv is cancelled, in a completion of its own.
KernelSend(b) ==
    /\ Watched /\ ring[b].sends > 0
    /\ \/ /\ MayFail /\ Post(b, "send", "failed") /\ UNCHANGED up
          /\ ring' = [ring EXCEPT ![b].sends = @ - 1, ![b].cancels = @ + 1]
       \/ /\ ~closed /\ Len(up[b]) + 2 <= room /\ UNCHANGED fails
          /\ Post(b, "send", "ok")
          /\ up' = [up EXCEPT ![b] = @ \o Msg(b, bot[b].seq)]
          /\ ring' = [ring EXCEPT ![b].sends = @ - 1, ![b].recvs = @ + 1]
    /\ UNCHANGED <<setup, pc, sends, todo, next, bot, gather, down, ready, closed, gone, peeked,
                   lost, torn, raced, mixed>>

KernelCancel(b) ==
    /\ Watched /\ ring[b].cancels > 0
    /\ Post(b, "recv", "cancelled")
    /\ ring' = [ring EXCEPT ![b].cancels = @ - 1]
    /\ UNCHANGED <<setup, pc, sends, todo, next, fails, bot, gather, up, down, ready, closed,
                   gone, peeked, lost, torn, raced, mixed>>

\* A recv takes all acks that are there; run_batch looks at the first.
KernelRecv(b) ==
    /\ Watched /\ ring[b].recvs > 0
    /\ IF down[b] # <<>>
         THEN /\ Post(b, "recv", "ack")
              /\ ring' = [ring EXCEPT ![b].recvs = @ - 1, ![b].buf = Head(down[b]).seq]
         ELSE /\ closed /\ \E res \in {"eof", "error"} : Post(b, "recv", res)
              /\ ring' = [ring EXCEPT ![b].recvs = @ - 1]
    /\ down' = [down EXCEPT ![b] = <<>>]
    /\ UNCHANGED <<setup, pc, sends, todo, next, fails, bot, gather, up, ready, closed, gone,
                   peeked, lost, torn, raced, mixed>>

-----------------------------------------------------------------------------
(* The exchange.                                                            *)

\* One read of connection c and an ack for each whole message; the halves that are left are
\* forgotten.  Acks that do not fit are dropped, or the exchange waits.
Serve(c, units, waits) ==
    /\ ~closed /\ Watched /\ up[c] # <<>> /\ c \notin torn
    /\ LET u == SubSeq(up[c], 1, Min({units, Len(up[c])}))
           whole == SelectSeq([i \in DOMAIN u |-> i], LAMBDA i : i \in WholeIn(u))
           n == Min({(DownUnits - Len(down[c])) \div 2, Len(whole)})
           acks == [i \in 1 .. n |-> Msg(u[whole[i]].b, u[whole[i]].seq)]
       IN /\ waits => n = Len(whole)
          /\ up' = [up EXCEPT ![c] = SubSeq(@, Len(u) + 1, Len(@))]
          /\ down' = [down EXCEPT ![c] = @ \o FlattenSeq(acks)]
          /\ ready' = IF n > 0 THEN ready \cup {c} ELSE ready
          /\ lost' = lost \cup CutIn(u) \cup {u[whole[i]].b : i \in n + 1 .. Len(whole)}
    /\ UNCHANGED <<setup, pc, sends, todo, next, fails, bot, gather, closed, gone, uring, torn,
                   raced, mixed>>

dummy_exchange(c) == exchange = "dummy" /\ Serve(c, DummyUnits, FALSE)
process_client(c) == exchange = "ultra" /\ Serve(c, PageUnits, FALSE)
connection_worker(c) == exchange = "mt" /\ Serve(c, PageUnits, TRUE)

\* The exchange ends: what it has not read is lost.  A pending recv of io_uring ends too.
ServerCloses ==
    /\ ~closed /\ Watched /\ closed' = TRUE
    /\ up' = [c \in Conns |-> <<>>]
    /\ ready' = ready \cup Conns
    /\ lost' = IF engine = "uring" THEN lost
               ELSE lost \cup {x.b : x \in UNION {ToSet(up[c]) : c \in Conns}}
    /\ UNCHANGED <<setup, pc, sends, todo, next, fails, bot, gather, down, gone, uring, torn,
                   raced, mixed>>

EngineInit == EpollInit \/ UltraInit \/ UringInit \/ PipelineInit
RunBatch ==
    \/ \E b \in Bots : EpollSend(b) \/ UltraSend(b) \/ UringSend(b) \/ PipelineGather(b)
    \/ \E c \in Conns : EpollRecv(c) \/ UltraRecv(c) \/ PipelineRecv(c)
    \/ StartRecv \/ HandleCqe \/ EndBatch
Kernel(b) == KernelSend(b) \/ KernelCancel(b) \/ KernelRecv(b)
Exchange(c) == dummy_exchange(c) \/ process_client(c) \/ connection_worker(c)

Next == \/ EngineInit \/ RunBatch \/ Shutdown \/ ServerCloses
        \/ \E b \in Bots : Kernel(b)
        \/ \E c \in Conns : Exchange(c)

\* The engine's loop never sleeps; the kernel completes what it is given; the exchange
\* reads each connection that has data.
Spec == /\ Init /\ [][Next]_vars
        /\ WF_vars(RunBatch)
        /\ \A b \in Bots : WF_vars(Kernel(b))
        /\ \A c \in 0 .. NumBots : WF_vars(c \in Conns /\ Exchange(c))

-----------------------------------------------------------------------------
(* Properties.                                                              *)

\* Messages of a bot that are not answered yet: gathered, with the kernel or in a stream.
Outstanding(b) ==
    LET c == Conn(b)
        mine(s) == Len(SelectSeq(s, LAMBDA x : x.b = b /\ x.half = 1))
    IN ring[b].sends + mine(up[c]) + mine(down[c])
       + Len(SelectSeq(gather[c], LAMBDA x : x = b))

\* A bot has at most one message on the way, and an idle bot none: the engines measure a
\* closed loop.  The exception is a bot of io_uring whose failed send made it idle, and
\* sent again, before the cancellation of the linked recv was handled.
ClosedLoop ==
    \A b \in Bots \ raced :
      Outstanding(b) <= IF bot[b].st = "IDLE" THEN 0 ELSE 1

\* A latency sample has the send time of the message its ack answers, although the time is
\* kept per bot and not per message.  The exception is the same.
SampleOwn == mixed \subseteq raced

\* A bot that waits gets its ack before the shutdown, unless its message or ack was cut by
\* the end of a buffer, did not fit into a stream, or the exchange ended: no engine has a
\* timeout, and such a bot never sends again.
EveryBotServed ==
    \A b \in Bots : bot[b].st # "IDLE" ~> (bot[b].st = "IDLE" \/ b \in lost \/ pc = "done")
=============================================================================
