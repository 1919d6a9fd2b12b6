---------------------------- MODULE ShmBenchmark ----------------------------
(***************************************************************************)
(* The shared-memory benchmark of orchestrator/src/integrated_worker.cpp:   *)
(* the load generator (ShmEngine, the main thread), the echo exchange       *)
(* (ShmExchange, a thread), the telemetry consumer (TelemetryConsumer, a    *)
(* thread), two request / response channels and the telemetry ring.         *)
(*                                                                          *)
(* A channel is the bounded FIFO that SPSCRingBuffer is proved to           *)
(* implement, so that one call on it is one step here.  Timestamps,         *)
(* histograms and the periodic reports are left out.                        *)
(***************************************************************************)
EXTENDS Naturals, Sequences, FiniteSets

CONSTANTS NumBots,       \* fleet.count
          ChanCap,       \* CHAN_CAP: capacity of each channel
          RingCap,       \* capacity of the telemetry ring
          MaxSeq         \* bound: sequence numbers taken before the deadline passes

ASSUME SizeAssumption == NumBots \in Nat \ {0} /\ ChanCap \in Nat \ {0}
                         /\ RingCap \in Nat \ {0} /\ MaxSeq \in Nat

Bots == 1 .. NumBots
Message == [bot : Bots, seq : Nat]

VARIABLES
    phase,            \* the worker: run, drain, joinConsumer, joinExchange, done
    epc, bot, tight,  \* the engine: send, recv1, recv; the bot it is at; run_batch_tight
    state, seqnum,    \* fleet.states and fleet.sequence_nums
    next_seq, total_sends, total_recvs,
    req, resp, ring,  \* the channels and the telemetry ring
    xpc, held, last,  \* the exchange thread: check, pop, push, done; final pass
    exchange_stop,
    cpc, running,     \* the telemetry thread: start, check, pop, done; running_
    total_samples, last_seq, dropped,
    lost              \* history: samples that found the telemetry ring full

fleetVars == <<state, seqnum>>
counters == <<next_seq, total_sends, total_recvs>>
engineVars == <<phase, epc, bot, tight, fleetVars, counters>>
exchangeVars == <<xpc, held, last>>
sampleVars == <<total_samples, last_seq, dropped>>
consumerVars == <<cpc, sampleVars>>
vars == <<engineVars, req, resp, ring, exchangeVars, exchange_stop, consumerVars,
          running, lost>>

\* ShmChannel::try_push succeeds; ShmChannel::try_pop succeeds.
HasRoom(chan) == Len(chan) < ChanCap
HasMessage(chan) == chan # <<>>

Init ==
    /\ phase = "run" /\ epc = "recv" /\ bot = 1 /\ tight = FALSE
    /\ state = [b \in Bots |-> "IDLE"] /\ seqnum = [b \in Bots |-> 0]
    /\ next_seq = 0 /\ total_sends = 0 /\ total_recvs = 0
    /\ req = <<>> /\ resp = <<>> /\ ring = <<>>
    /\ xpc = "check" /\ held = <<>> /\ last = FALSE /\ exchange_stop = FALSE
    /\ cpc = "start" /\ running = FALSE
    /\ total_samples = 0 /\ last_seq = 0 /\ dropped = 0
    /\ lost = 0

-----------------------------------------------------------------------------
(* ShmEngine.                                                               *)

\* Where the engine goes after bot b has been served.
NextBot == IF bot < NumBots THEN epc' = "send" /\ bot' = bot + 1
                            ELSE epc' = "recv" /\ bot' = 1

\* Mutant: the bot is marked WAITING although the push failed.
SendUnchecked ==
    /\ phase \in {"run", "drain"} /\ epc = "send"
    /\ IF state[bot] = "IDLE"
         THEN /\ next_seq' = next_seq + 1
              /\ req' = IF HasRoom(req)
                          THEN Append(req, [bot |-> bot, seq |-> next_seq]) ELSE req
              /\ seqnum' = [seqnum EXCEPT ![bot] = next_seq]
              /\ state' = [state EXCEPT ![bot] = "WAITING"]
              /\ total_sends' = total_sends + 1
         ELSE UNCHANGED <<next_seq, req, fleetVars, total_sends>>
    /\ IF tight THEN epc' = "recv1" /\ UNCHANGED bot ELSE NextBot
    /\ UNCHANGED <<phase, tight, total_recvs, resp, ring, exchangeVars, exchange_stop,
                   consumerVars, running, lost>>

\* A sequence number is taken before the push, and kept when the push fails.
Send ==
    /\ phase \in {"run", "drain"} /\ epc = "send"
    /\ IF state[bot] = "IDLE"
         THEN /\ next_seq' = next_seq + 1
              /\ IF HasRoom(req)
                   THEN /\ req' = Append(req, [bot |-> bot, seq |-> next_seq])
                        /\ seqnum' = [seqnum EXCEPT ![bot] = next_seq]
                        /\ state' = [state EXCEPT ![bot] = "WAITING"]
                        /\ total_sends' = total_sends + 1
                   ELSE UNCHANGED <<req, fleetVars, total_sends>>
         ELSE UNCHANGED <<next_seq, req, fleetVars, total_sends>>
    /\ IF tight THEN epc' = "recv1" /\ UNCHANGED bot ELSE NextBot
    /\ UNCHANGED <<phase, tight, total_recvs, resp, ring, exchangeVars, exchange_stop,
                   consumerVars, running, lost>>

\* One response: the bot is idle again and the sample goes to the telemetry ring, whose
\* refusal is ignored.
Receive ==
    /\ HasMessage(resp)
    /\ LET m == Head(resp) IN
         /\ state' = [state EXCEPT ![m.bot] = "IDLE"]
         /\ IF Len(ring) < RingCap THEN ring' = Append(ring, m) /\ UNCHANGED lost
                                   ELSE lost' = lost + 1 /\ UNCHANGED ring
    /\ resp' = Tail(resp)
    /\ total_recvs' = total_recvs + 1

\* run_batch_tight takes at most one response after each bot.
RecvOne ==
    /\ phase \in {"run", "drain"} /\ epc = "recv1"
    /\ \/ Receive
       \/ resp = <<>> /\ UNCHANGED <<state, ring, lost, resp, total_recvs>>
    /\ NextBot
    /\ UNCHANGED <<phase, tight, seqnum, next_seq, total_sends, req, exchangeVars,
                   exchange_stop, consumerVars, running>>

\* recv_responses, an iteration of its loop.
Recv ==
    /\ phase \in {"run", "drain"} /\ epc = "recv"
    /\ Receive
    /\ UNCHANGED <<phase, epc, bot, tight, seqnum, next_seq, total_sends, req,
                   exchangeVars, exchange_stop, consumerVars, running>>

-----------------------------------------------------------------------------
(* run_shm_benchmark.                                                       *)

BatchDone == epc = "recv" /\ resp = <<>>

\* The deadline has not passed: another batch.
RunBatch ==
    /\ phase = "run" /\ BatchDone
    /\ next_seq + NumBots <= MaxSeq
    /\ epc' = "send" /\ bot' = 1 /\ tight' \in BOOLEAN
    /\ UNCHANGED <<phase, fleetVars, counters, req, resp, ring, exchangeVars,
                   exchange_stop, consumerVars, running, lost>>

\* Idle bots are marked RECEIVED so that the batch sends nothing.
DrainBatch ==
    /\ phase \in {"run", "drain"} /\ BatchDone
    /\ phase' = "drain"
    /\ state' = [b \in Bots |-> IF state[b] = "IDLE" THEN "RECEIVED" ELSE state[b]]
    /\ epc' = "send" /\ bot' = 1 /\ tight' = FALSE
    /\ UNCHANGED <<seqnum, counters, req, resp, ring, exchangeVars,
                   exchange_stop, consumerVars, running, lost>>

\* drain_end has passed: consumer.stop().
StopConsumer ==
    /\ phase \in {"run", "drain"} /\ BatchDone
    /\ running' = FALSE
    /\ phase' = "joinConsumer"
    /\ UNCHANGED <<epc, bot, tight, fleetVars, counters, req, resp, ring, exchangeVars,
                   exchange_stop, consumerVars, lost>>

StopExchange ==
    /\ phase = "joinConsumer" /\ cpc = "done"
    /\ exchange_stop' = TRUE
    /\ phase' = "joinExchange"
    /\ UNCHANGED <<epc, bot, tight, fleetVars, counters, req, resp, ring, exchangeVars,
                   consumerVars, running, lost>>

Collect ==
    /\ phase = "joinExchange" /\ xpc = "done"
    /\ phase' = "done"
    /\ UNCHANGED <<epc, bot, tight, fleetVars, counters, req, resp, ring, exchangeVars,
                   exchange_stop, consumerVars, running, lost>>

-----------------------------------------------------------------------------
(* ShmExchange and its thread.                                              *)

\* Mutant: the thread never sees the stop flag.
ExchangeCheckStale ==
    /\ xpc = "check"
    /\ xpc' = "pop" /\ last' = FALSE
    /\ UNCHANGED <<engineVars, req, resp, ring, held, exchange_stop, consumerVars,
                   running, lost>>

\* The thread loads the stop flag; after it is set, one more process_batch.
ExchangeCheck ==
    /\ xpc = "check"
    /\ xpc' = "pop" /\ last' = exchange_stop
    /\ UNCHANGED <<engineVars, req, resp, ring, held, exchange_stop, consumerVars,
                   running, lost>>

ExchangePop ==
    /\ xpc = "pop"
    /\ IF HasMessage(req)
         THEN held' = <<Head(req)>> /\ req' = Tail(req) /\ xpc' = "push"
         ELSE xpc' = (IF last THEN "done" ELSE "check") /\ UNCHANGED <<held, req>>
    /\ UNCHANGED <<engineVars, resp, ring, last, exchange_stop, consumerVars, running, lost>>

\* The push spins while the response channel is full.
ExchangePush ==
    /\ xpc = "push" /\ HasRoom(resp)
    /\ resp' = Append(resp, held[1])
    /\ held' = <<>> /\ xpc' = "pop"
    /\ UNCHANGED <<engineVars, req, ring, last, exchange_stop, consumerVars, running, lost>>

-----------------------------------------------------------------------------
(* TelemetryConsumer::run.                                                  *)

ConsumerStart ==
    /\ cpc = "start"
    /\ running' = TRUE /\ cpc' = "check"
    /\ UNCHANGED <<engineVars, req, resp, ring, exchangeVars, exchange_stop, sampleVars, lost>>

\* The loop condition; on exit the drop count is computed.
ConsumerCheck ==
    /\ cpc = "check"
    /\ IF running
         THEN cpc' = "pop" /\ UNCHANGED dropped
         ELSE /\ cpc' = "done"
              /\ dropped' = IF last_seq + 1 > total_samples
                              THEN last_seq + 1 - total_samples ELSE dropped
    /\ UNCHANGED <<engineVars, req, resp, ring, exchangeVars, exchange_stop, running,
                   total_samples, last_seq, lost>>

ConsumerPop ==
    /\ cpc = "pop" /\ cpc' = "check"
    /\ \/ /\ ring # <<>>
          /\ total_samples' = total_samples + 1
          /\ last_seq' = IF Head(ring).seq > last_seq THEN Head(ring).seq ELSE last_seq
          /\ ring' = Tail(ring)
       \/ ring = <<>> /\ UNCHANGED <<ring, total_samples, last_seq>>
    /\ UNCHANGED <<engineVars, req, resp, exchangeVars, exchange_stop, running, dropped, lost>>

-----------------------------------------------------------------------------
Worker == Send \/ RecvOne \/ Recv \/ RunBatch \/ DrainBatch \/ StopConsumer
          \/ StopExchange \/ Collect
Exchange == ExchangeCheck \/ ExchangePop \/ ExchangePush
Consumer == ConsumerStart \/ ConsumerCheck \/ ConsumerPop

Finished == phase = "done" /\ UNCHANGED vars

Next == Worker \/ Exchange \/ Consumer \/ Finished

Spec == Init /\ [][Next]_vars

\* The three threads run, and the deadlines of the run and of the drain pass.
FairSpec == /\ Spec
            /\ WF_vars(Worker) /\ WF_vars(Exchange) /\ WF_vars(Consumer)
            /\ SF_vars(StopConsumer)

-----------------------------------------------------------------------------
(* Properties.                                                              *)

\* Requests and responses on their way, oldest first.
InFlight == resp \o held \o req

\* A bot is WAITING exactly while one message of its own is on its way, and that message
\* carries the number the fleet remembers: a response never answers an older request
\* (shm_engine.hpp:183-198, 246-262, 275-281, and the drain of integrated_worker.cpp:233).
\* Every response is a sample the consumer has, one in the ring or one a full ring refused.
OneOutstanding ==
    /\ total_sends = total_recvs + Len(InFlight)
    /\ total_recvs = total_samples + Len(ring) + lost
    /\ \A b \in Bots : state[b] = "WAITING" <=> \E i \in DOMAIN InFlight : InFlight[i].bot = b
    /\ \A i \in DOMAIN InFlight : InFlight[i].seq = seqnum[InFlight[i].bot]
    /\ \A i, j \in DOMAIN InFlight : InFlight[i].bot = InFlight[j].bot => i = j

\* The benchmark ends, with two exceptions: the consumer's thread first got to run after
\* stop() and set running_ again (consumer.cpp:37), or the exchange spins on a response
\* channel that nobody reads any more (shm_engine.hpp:128), which takes more bots than a
\* channel has slots.
WorkerTerminates ==
    <>(\/ phase = "done"
       \/ phase = "joinConsumer" /\ running
       \/ phase = "joinExchange" /\ xpc = "push" /\ ~HasRoom(resp) /\ NumBots > ChanCap)

\* consumer.hpp:30: run() "Blocks until stop() is called", so after the call it returns.
StopEndsRun == phase = "joinConsumer" ~> cpc = "done"

=============================================================================
