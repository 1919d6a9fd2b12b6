------------------------- MODULE OrchestratorProofs -------------------------
(***************************************************************************)
(* Proofs about Orchestrator, for any workers, benchmarks, contestants,     *)
(* viewers and bounds.                                                      *)
(*                                                                          *)
(* KnownUnlessRestarted is not inductive: the agent enters its main loop on *)
(* an answer that was given earlier.  KnownInv says of a registration that  *)
(* was answered what the property says of an agent that has seen the answer.*)
(* BoardFromStopped needs the shape of the two maps; BoardInv adds it.      *)
(***************************************************************************)
EXTENDS Orchestrator, TLAPS

-----------------------------------------------------------------------------
(* The registry.                                                            *)

Agents == [at : {"new", "registering", "main", "exited"},
           hb : {"none", "check", "calling", "ended"}, stop : BOOLEAN]

KnownInv ==
    /\ agent \in [Workers -> Agents]
    /\ \A w \in Workers : w \in acked \/ agent[w].at = "main" => w \in workers \/ w \in forgotten

\* No agent has registered when the server is first started.
LEMMA KnownInit == Init => KnownInv
BY DEF Init, KnownInv, NewAgent, Agents

\* Every step keeps the invariant: a registration is answered in the step that enters it into
\* the registry, and only a new server process, which forgets all workers, empties that.
LEMMA KnownStep == KnownInv /\ [Next]_vars => KnownInv'
<1> SUFFICES ASSUME KnownInv, [Next]_vars PROVE KnownInv'
    OBVIOUS
<1> USE DEF KnownInv, Agents, server, bounds, history
<1>1. ASSUME NEW w \in Workers, NEW n \in 1 .. MaxBoots, RegisterWorker(w, n) PROVE KnownInv'
    BY <1>1 DEF RegisterWorker
<1>2. ASSUME NEW w \in Workers, Heartbeat(w) PROVE KnownInv'
    BY <1>2 DEF Heartbeat
<1>3. ASSUME NEW w \in Workers, AgentStep(w) PROVE KnownInv'
    <2>1. CASE AgentRegisters(w)
        BY <2>1 DEF AgentRegisters, Set
    <2>2. CASE AgentRegistered(w)
        BY <2>2, ZenonT(60) DEF AgentRegistered
    <2>3. CASE AgentRefused(w)
        BY <2>3, Zenon DEF AgentRefused, NewAgent
    <2>4. CASE HeartbeatCalls(w)
        BY <2>4 DEF HeartbeatCalls, Set
    <2>5. CASE HeartbeatDone(w)
        BY <2>5 DEF HeartbeatDone, Set
    <2>6. CASE HeartbeatStops(w)
        BY <2>6 DEF HeartbeatStops, Set
    <2>7. CASE AgentExits(w)
        BY <2>7, Zenon DEF AgentExits, NewAgent
    <2> QED
        BY <1>3, <2>1, <2>2, <2>3, <2>4, <2>5, <2>6, <2>7 DEF AgentStep
<1>4. ASSUME NEW w \in Workers, AgentSignalled(w) PROVE KnownInv'
    BY <1>4, ZenonT(60) DEF AgentSignalled, Set
<1>5. ASSUME NEW w \in Workers, AgentBoots(w) PROVE KnownInv'
    BY <1>5 DEF AgentBoots, NewAgent
<1>6. ASSUME NEW b \in Benchmarks, NEW c \in Contestants, StartBenchmark(b, c) PROVE KnownInv'
    BY <1>6 DEF StartBenchmark
<1>7. ASSUME NEW b \in Benchmarks, StopBenchmark(b) PROVE KnownInv'
    BY <1>7 DEF StopBenchmark
<1>8. ASSUME NEW b \in Benchmarks, NEW v \in Scores, submit_result(b, v) PROVE KnownInv'
    BY <1>8 DEF submit_result
<1>9. ASSUME NEW s \in Streams, NEW b \in Benchmarks, StreamOpen(s, b) PROVE KnownInv'
    BY <1>9 DEF StreamOpen
<1>10. ASSUME NEW s \in Streams, StreamEnds(s) \/ StreamCancelled(s) PROVE KnownInv'
    BY <1>10 DEF StreamEnds, StreamCancelled
<1>11. CASE ServerShutdown \/ ServerExits \/ ServerCrashes
    BY <1>11 DEF ServerShutdown, ServerExits, ServerCrashes
<1>12. CASE ServerStarts
    BY <1>12 DEF ServerStarts
<1>13. ASSUME NEW m \in Requests, Request(m) PROVE KnownInv'
    BY <1>13 DEF Request
<1>14. CASE UNCHANGED vars
    BY <1>14 DEF vars
<1> QED
    BY <1>1, <1>2, <1>3, <1>4, <1>5, <1>6, <1>7, <1>8, <1>9, <1>10, <1>11, <1>12, <1>13, <1>14
    DEF Next

\* An agent that beats is in the registry unless the server was started again since
\* (RegisterWorker, start_heartbeat and the maps of a new server process).
THEOREM RegistryKnows == Spec => []KnownUnlessRestarted
<1>1. KnownInv => KnownUnlessRestarted
    BY DEF KnownInv, KnownUnlessRestarted
<1> QED
    BY <1>1, KnownInit, KnownStep, PTL DEF Spec

-----------------------------------------------------------------------------
(* The leaderboard.                                                         *)

\* The workers a start may choose, and what benchmarks_ and leaderboard_ hold.
Firsts == {Min(S) : S \in SUBSET Workers}
Started == [state : {"RUNNING", "COMPLETED"}, contestant : Contestants, worker : Firsts,
            result : {0} \cup Scores]
Entries == [score : {0} \cup Scores, from : Benchmarks]

BoardInv ==
    /\ workers \subseteq Workers
    /\ benchmarks \in [Benchmarks -> {None} \cup Started]
    /\ board \in [Contestants -> {NoEntry} \cup Entries]
    /\ BoardFromStopped

\* The maps of the first server process are empty.
LEMMA BoardInit == Init => BoardInv
BY DEF Init, BoardInv, BoardFromStopped

\* A start gives an id a new benchmark, or overwrites one, which is noted.
LEMMA BoardStart ==
    ASSUME BoardInv, NEW b \in Benchmarks, NEW c \in Contestants, StartBenchmark(b, c)
    PROVE  BoardInv'
<1> DEFINE new == [state |-> "RUNNING", contestant |-> c, worker |-> Min(workers), result |-> 0]
<1>1. CASE workers = {}
    BY <1>1 DEF StartBenchmark, BoardInv, BoardFromStopped
<1>2. CASE workers # {}
    <2>1. /\ benchmarks' = [benchmarks EXCEPT ![b] = new]
          /\ rerun' = IF benchmarks[b] = None THEN rerun ELSE rerun \cup {b}
          /\ UNCHANGED <<workers, board>>
        BY <1>2 DEF StartBenchmark
    <2>2. new \in Started
        <3>1. Min(workers) \in Firsts
            BY DEF Firsts, BoardInv
        <3> QED
            BY <3>1 DEF Started
    <2> HIDE DEF new
    <2>3. ASSUME NEW d \in Contestants, board[d] # NoEntry, board[d].from \notin rerun'
          PROVE  board[d].from # b
        <3>1. CASE benchmarks[b] = None
            BY <2>1, <2>3, <3>1 DEF BoardInv, BoardFromStopped, None
        <3>2. CASE benchmarks[b] # None
            BY <2>1, <2>3, <3>2
        <3> QED
            BY <3>1, <3>2
    <2>4. BoardFromStopped'
        <3> SUFFICES ASSUME NEW d \in Contestants, board[d] # NoEntry, board[d].from \notin rerun'
                     PROVE  /\ benchmarks'[board[d].from].state = "COMPLETED"
                            /\ benchmarks'[board[d].from].contestant = d
            BY <2>1 DEF BoardFromStopped
        <3>1. board[d].from \in Benchmarks /\ board[d].from # b /\ board[d].from \notin rerun
            BY <2>1, <2>3 DEF BoardInv, Entries
        <3> QED
            BY <2>1, <3>1 DEF BoardInv, BoardFromStopped
    <2> QED
        BY <2>1, <2>2, <2>4 DEF BoardInv
<1> QED
    BY <1>1, <1>2

\* What completing benchmark b changes: its state, and nothing of the others.
LEMMA Completes ==
    ASSUME BoardInv, NEW b \in Benchmarks, benchmarks[b] # None, NEW r \in {0} \cup Scores,
           \/ benchmarks' = [benchmarks EXCEPT ![b].state = "COMPLETED"]
           \/ benchmarks' = [benchmarks EXCEPT ![b].result = r, ![b].state = "COMPLETED"]
    PROVE  /\ benchmarks' \in [Benchmarks -> {None} \cup Started]
           /\ benchmarks[b].contestant \in Contestants /\ benchmarks[b].result \in {0} \cup Scores
           /\ benchmarks'[b].state = "COMPLETED"
           /\ benchmarks'[b].contestant = benchmarks[b].contestant
           /\ \A d \in Benchmarks \ {b} : benchmarks'[d] = benchmarks[d]
<1>1. benchmarks[b] \in Started
    BY DEF BoardInv
<1>2. CASE benchmarks' = [benchmarks EXCEPT ![b].state = "COMPLETED"]
    BY <1>1, <1>2 DEF BoardInv, Started
<1>3. CASE benchmarks' = [benchmarks EXCEPT ![b].result = r, ![b].state = "COMPLETED"]
    BY <1>1, <1>3, Zenon DEF BoardInv, Started
<1> QED
    BY <1>2, <1>3

\* A stop completes the benchmark in the step that enters it into the leaderboard.
LEMMA BoardStop ==
    ASSUME BoardInv, NEW b \in Benchmarks, StopBenchmark(b)
    PROVE  BoardInv'
<1>1. CASE benchmarks[b] = None
    BY <1>1 DEF StopBenchmark, history, BoardInv, BoardFromStopped
<1>2. CASE benchmarks[b] # None
    <2> DEFINE c == benchmarks[b].contestant
    <2>1. /\ benchmarks' = [benchmarks EXCEPT ![b].state = "COMPLETED"]
          /\ board' = [board EXCEPT ![c] = [score |-> benchmarks[b].result, from |-> b]]
          /\ UNCHANGED <<workers, rerun>>
        BY <1>2 DEF StopBenchmark, history, Scored
    <2>2. /\ benchmarks' \in [Benchmarks -> {None} \cup Started]
          /\ c \in Contestants /\ benchmarks[b].result \in {0} \cup Scores
          /\ benchmarks'[b].state = "COMPLETED" /\ benchmarks'[b].contestant = c
          /\ \A d \in Benchmarks \ {b} : benchmarks'[d] = benchmarks[d]
        BY <1>2, <2>1, Completes, Zenon
    <2> HIDE DEF c
    <2>3. /\ board' \in [Contestants -> {NoEntry} \cup Entries]
          /\ board'[c].from = b
          /\ \A d \in Contestants \ {c} : board'[d] = board[d]
        BY <2>1, <2>2 DEF BoardInv, Entries
    <2>4. ASSUME NEW d \in Contestants, board'[d] # NoEntry, board'[d].from \notin rerun
          PROVE  /\ benchmarks'[board'[d].from].state = "COMPLETED"
                 /\ benchmarks'[board'[d].from].contestant = d
        <3>1. CASE d = c
            BY <2>2, <2>3, <3>1
        <3>2. CASE d # c
            <4>1. /\ board[d] # NoEntry /\ board[d].from \in Benchmarks
                  /\ board'[d] = board[d]
                BY <2>3, <2>4, <3>2 DEF BoardInv, Entries
            <4>2. /\ benchmarks[board[d].from].state = "COMPLETED"
                  /\ benchmarks[board[d].from].contestant = d
                BY <2>4, <4>1 DEF BoardInv, BoardFromStopped
            <4> QED
                BY <2>2, <3>2, <4>1, <4>2 DEF c
        <3> QED
            BY <3>1, <3>2
    <2> QED
        BY <2>1, <2>2, <2>3, <2>4 DEF BoardInv, BoardFromStopped
<1> QED
    BY <1>1, <1>2

\* A result completes its benchmark and leaves the leaderboard alone.
LEMMA BoardResult ==
    ASSUME BoardInv, NEW b \in Benchmarks, NEW v \in Scores, submit_result(b, v)
    PROVE  BoardInv'
<1>1. /\ benchmarks[b] # None
      /\ benchmarks' = [benchmarks EXCEPT ![b].result = v, ![b].state = "COMPLETED"]
      /\ UNCHANGED <<workers, board, rerun>>
    BY DEF submit_result, history
<1>2. /\ benchmarks' \in [Benchmarks -> {None} \cup Started]
      /\ benchmarks'[b].state = "COMPLETED"
      /\ benchmarks'[b].contestant = benchmarks[b].contestant
      /\ \A d \in Benchmarks \ {b} : benchmarks'[d] = benchmarks[d]
    BY <1>1, Completes, Zenon
<1>3. ASSUME NEW d \in Contestants, board[d] # NoEntry, board[d].from \notin rerun
      PROVE  /\ benchmarks'[board[d].from].state = "COMPLETED"
             /\ benchmarks'[board[d].from].contestant = d
    <2>1. /\ board[d].from \in Benchmarks
          /\ benchmarks[board[d].from].state = "COMPLETED"
          /\ benchmarks[board[d].from].contestant = d
        BY <1>3 DEF BoardInv, BoardFromStopped, Entries
    <2> QED
        BY <1>2, <2>1
<1> QED
    BY <1>1, <1>2, <1>3, ZenonT(60) DEF BoardInv, BoardFromStopped

\* No other step changes the maps, except that a new server process starts with empty ones.
LEMMA BoardStep == BoardInv /\ [Next]_vars => BoardInv'
<1> SUFFICES ASSUME BoardInv, [Next]_vars PROVE BoardInv'
    OBVIOUS
<1>1. ASSUME NEW b \in Benchmarks, NEW c \in Contestants, StartBenchmark(b, c) PROVE BoardInv'
    BY <1>1, BoardStart
<1>2. ASSUME NEW b \in Benchmarks, StopBenchmark(b) PROVE BoardInv'
    BY <1>2, BoardStop
<1>3. ASSUME NEW b \in Benchmarks, NEW v \in Scores, submit_result(b, v) PROVE BoardInv'
    BY <1>3, BoardResult
<1>4. ASSUME NEW w \in Workers, NEW n \in 1 .. MaxBoots, RegisterWorker(w, n) PROVE BoardInv'
    BY <1>4 DEF RegisterWorker, BoardInv, BoardFromStopped
<1>5. CASE ServerStarts
    BY <1>5 DEF ServerStarts, BoardInv, BoardFromStopped
<1> DEFINE maps == <<workers, benchmarks, board, rerun>>
<1>6. CASE UNCHANGED maps
    BY <1>6 DEF BoardInv, BoardFromStopped
<1>7. ASSUME NEW w \in Workers, Heartbeat(w) \/ AgentStep(w) \/ AgentSignalled(w) \/ AgentBoots(w)
      PROVE  UNCHANGED maps
    BY <1>7, Zenon DEF Heartbeat, AgentStep, AgentSignalled, AgentBoots, AgentRegisters,
                AgentRegistered, AgentRefused, HeartbeatCalls, HeartbeatDone,
                HeartbeatStops, AgentExits, server, history
<1>8. ASSUME NEW s \in Streams, NEW b \in Benchmarks, StreamOpen(s, b) PROVE UNCHANGED maps
    BY <1>8 DEF StreamOpen, server, history
<1>9. ASSUME NEW s \in Streams, StreamEnds(s) \/ StreamCancelled(s) PROVE UNCHANGED maps
    BY <1>9 DEF StreamEnds, StreamCancelled, server, history
<1>10. ServerShutdown \/ ServerExits \/ ServerCrashes => UNCHANGED maps
    BY DEF ServerShutdown, ServerExits, ServerCrashes, history
<1>11. ASSUME NEW m \in Requests, Request(m) PROVE UNCHANGED maps
    BY <1>11 DEF Request, server, history
<1>12. UNCHANGED vars => UNCHANGED maps
    BY DEF vars
<1> HIDE DEF maps
<1> QED
    BY <1>1, <1>2, <1>3, <1>4, <1>5, <1>6, <1>7, <1>8, <1>9, <1>10, <1>11, <1>12 DEF Next

\* A leaderboard entry comes from a completed benchmark of its contestant, unless the id was
\* used again (StopBenchmark, submit_result and update_leaderboard in any order).
THEOREM LeaderboardFromStopped == Spec => []BoardFromStopped
<1>1. BoardInv => BoardFromStopped
    BY DEF BoardInv
<1> QED
    BY <1>1, BoardInit, BoardStep, PTL DEF Spec
=============================================================================
