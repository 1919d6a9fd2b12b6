----------------------------- MODULE Orchestrator -----------------------------
(***************************************************************************)
(* The benchmark control plane: the gRPC service of orchestrator_server.cpp *)
(* with its shutdown and its worker agents (worker_agent.cpp), an operator  *)
(* that starts and stops benchmarks, and viewers that stream metrics.       *)
(*                                                                          *)
(* A handler runs under the mutex and is one step, except StreamMetrics,    *)
(* which takes it once per poll.  A unary call is delivered at most once,   *)
(* at any later time, also after its caller has given up.  A shutdown of    *)
(* the server refuses new calls and waits for those it has; a crash loses   *)
(* the registry, the benchmarks and the leaderboard, which are in memory.   *)
(* Deadlines are an agent's choice to stop waiting.                         *)
(***************************************************************************)
EXTENDS Integers, FiniteSets, FiniteSetsExt

CONSTANTS Workers,        \* worker ids, in the order of the map
          Benchmarks, Contestants, Streams,
          Scores,         \* what update_leaderboard may make of a result
          MaxServers,     \* bound: server processes in a behaviour
          MaxBoots,       \* bound: processes of one worker agent
          MaxRequests     \* bound: calls of the operator, and internal calls

ASSUME OrchestratorAssumption ==
    /\ Workers \subseteq Nat /\ Scores \subseteq Nat \ {0}
    /\ {MaxServers, MaxBoots, MaxRequests} \subseteq Nat

VARIABLES
    srv,          \* the server process: up, draining, down
    workers,      \* workers_: the ids registered.  alive is TRUE from then on
    benchmarks,   \* benchmarks_: id -> [state, contestant, worker, result], or none
    board,        \* leaderboard_: contestant -> [score, from], or none
    calls,        \* unary calls on their way to the server
    acked,        \* registrations answered and not yet seen by the agent
    agent,        \* worker -> [at, hb, stop]: main thread, heartbeat thread, g_shutdown
    stream,       \* viewer -> [at, b]
    servers, boots, requests,     \* the bounded counters
    forgotten,    \* history: workers not registered since the server was started again
    rerun         \* history: benchmarks whose id was used again

vars == <<srv, workers, benchmarks, board, calls, acked, agent, stream,
          servers, boots, requests, forgotten, rerun>>
server == <<srv, workers, benchmarks, board>>
bounds == <<servers, boots, requests>>
history == <<forgotten, rerun>>

None == [state |-> "NONE"]
NoEntry == [score |-> -1]
NewAgent == [at |-> "new", hb |-> "none", stop |-> FALSE]

Init ==
    /\ srv = "up" /\ workers = {} /\ servers = 1
    /\ benchmarks = [b \in Benchmarks |-> None]
    /\ board = [c \in Contestants |-> NoEntry]
    /\ calls = {} /\ acked = {}
    /\ agent = [w \in Workers |-> NewAgent] /\ boots = [w \in Workers |-> 1]
    /\ stream = [s \in Streams |-> [at |-> "idle"]]
    /\ requests = 0 /\ forgotten = {} /\ rerun = {}

Set(w, field, v) == agent' = [agent EXCEPT ![w][field] = v]

-----------------------------------------------------------------------------
(* The handlers.  Arrive takes a call off the wire.                         *)

Arrive(m) == srv = "up" /\ m \in calls /\ calls' = calls \ {m}

\* The reply finds the process that called, or nobody.
RegisterWorker(w, n) ==
    /\ Arrive([op |-> "register", w |-> w, boot |-> n])
    /\ workers' = workers \cup {w}
    /\ acked' = IF n = boots[w] /\ agent[w].at = "registering" THEN acked \cup {w} ELSE acked
    /\ forgotten' = forgotten \ {w}
    /\ UNCHANGED <<srv, benchmarks, board, agent, stream, bounds, rerun>>

\* An unknown worker is answered ok as well.
Heartbeat(w) ==
    /\ Arrive([op |-> "heartbeat", w |-> w])
    /\ UNCHANGED <<server, acked, agent, stream, bounds, history>>

\* The first worker of the map, which no missed heartbeat ever takes out.  A benchmark of
\* the same id is overwritten.  UNAVAILABLE without workers.
StartBenchmark(b, c) ==
    /\ Arrive([op |-> "start", b |-> b, c |-> c])
    /\ IF workers = {} THEN UNCHANGED <<benchmarks, rerun>>
       ELSE /\ benchmarks' = [benchmarks EXCEPT ![b] =
                  [state |-> "RUNNING", contestant |-> c, worker |-> Min(workers), result |-> 0]]
            /\ rerun' = IF benchmarks[b] = None THEN rerun ELSE rerun \cup {b}
    /\ UNCHANGED <<srv, workers, board, acked, agent, stream, bounds, forgotten>>

\* update_leaderboard: the entry is replaced, whatever it was.  Without a result the score
\* is zero.
Scored(c, b, score) == [board EXCEPT ![c] = [score |-> score, from |-> b]]

\* Mutant: the benchmark is scored and goes on running.
StopKeepsRunning(b) ==
    /\ Arrive([op |-> "stop", b |-> b])
    /\ board' = IF benchmarks[b] = None THEN board
                ELSE Scored(benchmarks[b].contestant, b, benchmarks[b].result)
    /\ UNCHANGED <<srv, workers, benchmarks, acked, agent, stream, bounds, history>>

\* StopBenchmark, in any state: NOT_FOUND, or completed and scored (again).
StopBenchmark(b) ==
    /\ Arrive([op |-> "stop", b |-> b])
    /\ IF benchmarks[b] = None THEN UNCHANGED <<benchmarks, board>>
       ELSE /\ benchmarks' = [benchmarks EXCEPT ![b].state = "COMPLETED"]
            /\ board' = Scored(benchmarks[b].contestant, b, benchmarks[b].result)
    /\ UNCHANGED <<srv, workers, acked, agent, stream, bounds, history>>

\* submit_result: inside the server, with no caller of its own yet.
submit_result(b, score) ==
    /\ srv = "up" /\ requests < MaxRequests /\ benchmarks[b] # None
    /\ benchmarks' = [benchmarks EXCEPT ![b].result = score, ![b].state = "COMPLETED"]
    /\ requests' = requests + 1
    /\ UNCHANGED <<srv, workers, board, calls, acked, agent, stream, servers, boots, history>>

-----------------------------------------------------------------------------
(* StreamMetrics.                                                           *)

StreamOpen(s, b) ==
    /\ srv = "up" /\ stream[s].at = "idle"
    /\ stream' = [stream EXCEPT ![s] = [at |-> "open", b |-> b]]
    /\ UNCHANGED <<server, calls, acked, agent, bounds, history>>

Over(b) == benchmarks[b].state \in {"NONE", "COMPLETED", "FAILED"}

\* Mutant: only an unknown benchmark ends the stream.
EndsIfUnknown(s) ==
    /\ srv # "down" /\ stream[s].at = "open" /\ benchmarks[stream[s].b] = None
    /\ stream' = [stream EXCEPT ![s] = [at |-> "ended"]]
    /\ UNCHANGED <<server, calls, acked, agent, bounds, history>>

\* A poll that finds the benchmark over; any other poll writes the last snapshot, if there
\* is one, and sleeps.
StreamEnds(s) ==
    /\ srv # "down" /\ stream[s].at = "open" /\ Over(stream[s].b)
    /\ stream' = [stream EXCEPT ![s] = [at |-> "ended"]]
    /\ UNCHANGED <<server, calls, acked, agent, bounds, history>>

StreamCancelled(s) ==
    /\ stream[s].at = "open"
    /\ stream' = [stream EXCEPT ![s] = [at |-> "ended"]]
    /\ UNCHANGED <<server, calls, acked, agent, bounds, history>>

-----------------------------------------------------------------------------
(* The server process.                                                      *)

Open == {s \in Streams : stream[s].at = "open"}

\* A signal: no call that arrives from now on is accepted.
ServerShutdown ==
    /\ srv = "up" /\ srv' = "draining"
    /\ UNCHANGED <<workers, benchmarks, board, calls, acked, agent, stream, bounds, history>>

\* Shutdown returns when no handler is left.
ServerExits ==
    /\ srv = "draining" /\ Open = {}
    /\ srv' = "down"
    /\ UNCHANGED <<workers, benchmarks, board, calls, acked, agent, stream, bounds, history>>

ServerCrashes ==
    /\ srv # "down" /\ srv' = "down"
    /\ stream' = [s \in Streams |-> IF s \in Open THEN [at |-> "ended"] ELSE stream[s]]
    /\ UNCHANGED <<workers, benchmarks, board, calls, acked, agent, bounds, history>>

\* A new process starts with empty maps; calls on the old connections are lost.
ServerStarts ==
    /\ srv = "down" /\ servers < MaxServers
    /\ srv' = "up" /\ servers' = servers + 1
    /\ workers' = {} /\ benchmarks' = [b \in Benchmarks |-> None]
    /\ board' = [c \in Contestants |-> NoEntry]
    /\ calls' = {} /\ forgotten' = Workers /\ rerun' = {}
    /\ UNCHANGED <<acked, agent, stream, boots, requests>>

-----------------------------------------------------------------------------
(* The worker agent.                                                        *)

AgentRegisters(w) ==
    /\ agent[w].at = "new"
    /\ Set(w, "at", "registering")
    /\ calls' = calls \cup {[op |-> "register", w |-> w, boot |-> boots[w]]}
    /\ UNCHANGED <<server, acked, stream, bounds, history>>

\* Mutant: a failed registration goes unnoticed.
RegistersBlindly(w) ==
    /\ agent[w].at = "registering"
    /\ agent' = [agent EXCEPT ![w].at = "main", ![w].hb = "check"]
    /\ acked' = acked \ {w}
    /\ UNCHANGED <<server, calls, stream, bounds, history>>

AgentRegistered(w) ==
    /\ agent[w].at = "registering" /\ w \in acked
    /\ agent' = [agent EXCEPT ![w].at = "main", ![w].hb = "check"]
    /\ acked' = acked \ {w}
    /\ UNCHANGED <<server, calls, stream, bounds, history>>

\* The call failed, or its deadline of 5 s is over: the process ends.
AgentRefused(w) ==
    /\ agent[w].at = "registering"
    /\ agent' = [agent EXCEPT ![w] = [NewAgent EXCEPT !.at = "exited"]]
    /\ acked' = acked \ {w}
    /\ UNCHANGED <<server, calls, stream, bounds, history>>

AgentSignalled(w) ==
    /\ agent[w].at \in {"new", "registering", "main"} /\ ~agent[w].stop
    /\ Set(w, "stop", TRUE)
    /\ UNCHANGED <<server, calls, acked, stream, bounds, history>>

\* The heartbeat thread: test the flag, call, wait for the answer or 2 s, sleep 5 s.
HeartbeatCalls(w) ==
    /\ agent[w].hb = "check" /\ ~agent[w].stop
    /\ Set(w, "hb", "calling")
    /\ calls' = calls \cup {[op |-> "heartbeat", w |-> w]}
    /\ UNCHANGED <<server, acked, stream, bounds, history>>

\* Mutant: without the deadline the thread waits for the server.
HeartbeatWaits(w) ==
    /\ agent[w].hb = "calling" /\ srv = "up" /\ [op |-> "heartbeat", w |-> w] \notin calls
    /\ Set(w, "hb", "check")
    /\ UNCHANGED <<server, calls, acked, stream, bounds, history>>

HeartbeatDone(w) ==
    /\ agent[w].hb = "calling"
    /\ Set(w, "hb", "check")
    /\ UNCHANGED <<server, calls, acked, stream, bounds, history>>

HeartbeatStops(w) ==
    /\ agent[w].hb = "check" /\ agent[w].stop
    /\ Set(w, "hb", "ended")
    /\ UNCHANGED <<server, calls, acked, stream, bounds, history>>

\* stop_heartbeat joins the thread.
AgentExits(w) ==
    /\ agent[w].at = "main" /\ agent[w].stop /\ agent[w].hb = "ended"
    /\ agent' = [agent EXCEPT ![w] = [NewAgent EXCEPT !.at = "exited"]]
    /\ UNCHANGED <<server, calls, acked, stream, bounds, history>>

\* The agent is started again under the same id.
AgentBoots(w) ==
    /\ agent[w].at = "exited" /\ boots[w] < MaxBoots
    /\ agent' = [agent EXCEPT ![w] = NewAgent]
    /\ boots' = [boots EXCEPT ![w] = @ + 1]
    /\ UNCHANGED <<server, calls, acked, stream, servers, requests, history>>

\* A call of the operator: a start, or the stop that an agent's submit_result also sends.
\* Neither is repeated here; a repeated call is another one.
Request(m) ==
    /\ requests < MaxRequests
    /\ calls' = calls \cup {m} /\ requests' = requests + 1
    /\ UNCHANGED <<server, acked, agent, stream, servers, boots, history>>

Requests == [op : {"start"}, b : Benchmarks, c : Contestants] \cup [op : {"stop"}, b : Benchmarks]

AgentStep(w) == \/ AgentRegisters(w) \/ AgentRegistered(w) \/ AgentRefused(w)
                \/ HeartbeatCalls(w) \/ HeartbeatDone(w) \/ HeartbeatStops(w) \/ AgentExits(w)

Next ==
    \/ \E w \in Workers, n \in 1 .. MaxBoots : RegisterWorker(w, n)
    \/ \E w \in Workers : Heartbeat(w) \/ AgentStep(w) \/ AgentSignalled(w) \/ AgentBoots(w)
    \/ \E b \in Benchmarks, c \in Contestants : StartBenchmark(b, c)
    \/ \E b \in Benchmarks : StopBenchmark(b)
    \/ \E b \in Benchmarks, v \in Scores : submit_result(b, v)
    \/ \E s \in Streams, b \in Benchmarks : StreamOpen(s, b)
    \/ \E s \in Streams : StreamEnds(s) \/ StreamCancelled(s)
    \/ ServerShutdown \/ ServerExits \/ ServerCrashes \/ ServerStarts
    \/ \E m \in Requests : Request(m)

\* Threads that run go on: the agents, the polls of the streams and the server's exit.
Spec == /\ Init /\ [][Next]_vars
        /\ \A w \in Workers : WF_vars(AgentStep(w))
        /\ \A s \in Streams : WF_vars(StreamEnds(s))
        /\ WF_vars(ServerExits)

-----------------------------------------------------------------------------
(* Properties.                                                              *)

\* A worker agent that sends heartbeats is in the registry, unless the server has been
\* started again since it registered: it never registers twice, and its heartbeats are
\* answered ok all the same.
KnownUnlessRestarted ==
    \A w \in Workers : agent[w].at = "main" /\ w \notin forgotten => w \in workers

\* A leaderboard entry comes from a benchmark of that contestant which is COMPLETED, however
\* often it was stopped and whenever its result came.  The exception is a benchmark whose id
\* was used for another start: that one may belong to another contestant.
BoardFromStopped ==
    \A c \in Contestants : board[c] # NoEntry =>
      LET b == benchmarks[board[c].from] IN
      board[c].from \in rerun \/ (b.state = "COMPLETED" /\ b.contestant = c)

\* A worker agent that is told to stop exits, also while the server is down or hangs: each
\* call has a deadline.
AgentStops == \A w \in Workers : agent[w].stop ~> agent[w].at = "exited"

\* A shutdown of the server ends, unless a viewer streams a benchmark that is running: the
\* stop that would end the stream is no longer accepted.
ShutdownEnds ==
    srv = "draining" ~> (srv = "down" \/ \E s \in Open : ~Over(stream[s].b))
=============================================================================
